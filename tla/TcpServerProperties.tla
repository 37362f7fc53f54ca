------------------------- MODULE TcpServerProperties -------------------------
(***************************************************************************)
(* Properties of the server of lab10, modelled in TcpChatServer.           *)
(***************************************************************************)
EXTENDS TcpChatServer

ServerTypeOK == 
    /\ clients \in [Slots -> [socket_fd : Descriptors \cup {-1}, client_id : (Id \ Invalid) \cup {NoName},
                              last_seen : {"since", "before"}, inactive_count : 0 .. MAX_INACTIVE_COUNT - 1,
                              is_active : BOOLEAN, thread_id : Conn \cup {NULL}]]
    /\ client_count \in Int /\ is_running \in BOOLEAN /\ clients_mutex \in {NULL, "main"}
    /\ files \in [Descriptors -> Conn \cup {NULL}]
    /\ status \in [Conn -> {"none", "queued", "accepted", "reset"}]
    /\ \A c \in Conn : in[c] \in Seq({"message", "END"})
    /\ out \in [Conn -> {"nothing", "ERROR", "BROADCAST", "PRIVATE", "CLIENT_LIST", "STOP", "ALIVE"}]
    /\ main \in {"loop", "accept", "identify", "register", "registering", "welcome", "cleanup", "joining", "returned"}
    /\ accepted \in Descriptors \cup {-1} /\ presented \in (Id \ Invalid) \cup {NoName}
    /\ keepalive \in {"sleep", "scan", "done"}
    /\ at \in [Conn -> {"none", "loop", "recv", "list", "reply", "2ALL", "2ONE", "goodbye", "alive", "cleanup", "done"}]
    /\ slot \in [Conn -> Slots] /\ fd \in [Conn -> Descriptors \cup {-1}] 
    /\ reading \in [Conn -> Conn \cup {NULL}]
    /\ stopping \in {"not", "begin", "lock", "join", "stopped"}

\* Slots and descriptors are used again, by three kinds of threads, and still a
\* slot in use has an open descriptor of its own, and the thread that was created
\* for the connection behind it; no two have the same identifier.  client_count
\* counts them, but for server_stop.
TableAgrees == 
    /\ ServerTypeOK
    /\ \A i \in Active : 
         /\ clients[i].socket_fd \in Descriptors /\ files[clients[i].socket_fd] # NULL
         /\ clients[i].thread_id = files[clients[i].socket_fd]
         /\ clients[i].client_id # NoName
    /\ \A i, j \in Active : clients[i].client_id = clients[j].client_id => i = j
    /\ stopping \in {"not", "begin", "lock"} => client_count = Cardinality(Active)

Registered(c) == \E i \in Active : files[clients[i].socket_fd] = c

\* A thread whose connection is not in the table any more.
Orphan(k) == at[k] \notin {"none", "done"} /\ ~Registered(k)

Scans == keepalive = "scan" /\ keepalive' # "scan"
Stops == stopping = "lock" /\ stopping' = "join"

\* Thread k goes on from label.
Leaves(k, label) == at[k] = label /\ at'[k] # label

\* A client is removed, told who is there or bidden goodbye by its own thread, by
\* keepalive or server_stop: or else by an orphan, which had the slot, or the
\* descriptor, before.  The welcome reaches the one who was added, or nobody.
WhoActs == 
    [][\A c \in Conn : 
        /\ Registered(c) /\ ~Registered(c)' 
             => Scans \/ Stops \/ Leaves(c, "cleanup") 
                \/ \E k \in Conn \ {c} : Orphan(k) /\ slot[k] = slot[c] /\ Leaves(k, "cleanup")
        /\ out'[c] = "CLIENT_LIST" => \E k \in Conn : (k = c \/ Orphan(k)) /\ Leaves(k, "reply")
        /\ out'[c] = "STOP" => Stops \/ \E k \in Conn : (k = c \/ Orphan(k)) /\ Leaves(k, "goodbye")
        /\ out'[c] = "BROADCAST" /\ main = "welcome" /\ main' = "loop" => at[c] # "none"]_vars

\* What each of the threads, and the handler on main, may have to wait for: a mutex,
\* a connection, a message, the end of a thread it joins, or that it is interrupted.
MainWaits == 
    \/ main = "returned" \/ stopping \notin {"not", "stopped"}
    \/ main \in {"register", "cleanup"} /\ clients_mutex # NULL
    \/ main = "accept" /\ \A c \in Conn : status[c] # "queued"
    \/ main = "identify" /\ in[files[accepted]] = <<>>
    \/ main = "joining" /\ \E i \in Slots : /\ clients[i].thread_id # NULL /\ at[clients[i].thread_id] # "done"
                                            /\ \A j \in Slots : j < i => clients[j].thread_id = NULL

ThreadWaits(k) == 
    \/ at[k] \in {"none", "done"} \/ main = "returned"
    \/ at[k] \in {"list", "2ALL", "2ONE", "alive", "cleanup"} /\ clients_mutex # NULL
    \/ at[k] = "recv" /\ in[reading[k]] = <<>>

KeepaliveWaits == 
    \/ keepalive = "done" \/ main = "returned" 
    \/ keepalive = "scan" /\ clients_mutex # NULL

HandlerWaits == 
    \/ stopping \in {"not", "stopped"} 
    \/ stopping = "lock" /\ clients_mutex # NULL
    \/ stopping = "join" /\ keepalive # "done"

\* main waits for the first message of the connection it has accepted.
SilentConnection == main = "identify" /\ in[files[accepted]] = <<>>

\* server_stop waits in the signal handler for the mutex that main, which it
\* interrupted between lock and unlock, holds.
SelfDeadlock == stopping = "lock" /\ clients_mutex = "main" /\ main = "registering"

\* server_cleanup has the mutex and joins a thread that waits for the mutex, or in
\* a recv for a client that says nothing.
JoinDeadlock == 
    /\ main = "joining" /\ clients_mutex = "main"
    /\ \E i \in Slots, k \in Conn : clients[i].thread_id = k /\ at[k] # "done" /\ ThreadWaits(k)

\* After a signal the server can always go on, until main has returned, but for
\* these three ways to be stuck, the last one until the connection says something.
StuckInKnownWays == 
    ~is_running /\ MainWaits /\ (\A k \in Conn : ThreadWaits(k)) /\ KeepaliveWaits /\ HandlerWaits
        => main = "returned" \/ SelfDeadlock \/ JoinDeadlock \/ SilentConnection
=============================================================================
