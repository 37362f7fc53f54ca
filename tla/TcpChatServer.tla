---------------------------- MODULE TcpChatServer ----------------------------
(***************************************************************************)
(* The chat server over TCP: lab10/src/server.c.                           *)
(*                                                                         *)
(* main accepts connections, a thread serves each, named here after the    *)
(* connection it was created for, and keepalive throws out the silent      *)
(* ones.  A thread keeps a pointer to its slot and reads the descriptor    *)
(* there before every recv: slots and descriptors are used again, a recv   *)
(* that has begun keeps the connection it began with.                      *)
(*                                                                         *)
(* The time of last_seen is kept as far as keepalive tells it: before its  *)
(* last scan or since.  A signal runs server_stop on main, which is where  *)
(* Linux delivers it: only main is seen to hold clients_mutex, what the    *)
(* other threads do under it is one step.                                  *)
(***************************************************************************)
EXTENDS Integers, Sequences, FiniteSetsExt

CONSTANTS Conn,         \* connections, one after the other
          Id,           \* the identifiers that clients present
          Invalid,      \* those that validate_client_id refuses
          NoName, NULL,
          MAX_CLIENTS, MAX_INACTIVE_COUNT,
          Sent,         \* the types of messages that clients send
          Signals,      \* whether a signal comes
          STREAM_CAP    \* a bound: messages on their way to the server

ASSUME ServerAssumption == 
    /\ IsFiniteSet(Conn) /\ NULL \notin Conn \cup {"main"}
    /\ Id # {} /\ Invalid \subseteq Id /\ NoName \notin Id
    /\ MAX_CLIENTS \in Nat \ {0} /\ MAX_INACTIVE_COUNT \in Nat \ {0} /\ STREAM_CAP \in Nat \ {0}
    /\ Sent # {}
    /\ Sent \subseteq {"LIST", "2ALL", "2ONE", "STOP", "ALIVE_RESPONSE", "UNKNOWN", "GARBLED"}
    /\ Signals \in BOOLEAN

VARIABLES clients, client_count, is_running, clients_mutex,
          files,        \* the connection behind each descriptor
          status, in, out,      \* of each connection; out is what the last step sent
          main, accepted, presented,   \* where main is, its client_socket and id_msg.sender_id
          keepalive,
          at, slot, fd, reading,   \* of each thread: the descriptor it last read from its slot,
                                   \* and the connection its recv is for
          stopping

tableVars == <<clients, client_count>>
streamVars == <<status, in>>
acceptVars == <<accepted, presented>>
threadVars == <<at, slot, fd, reading>>
vars == <<tableVars, is_running, clients_mutex, files, streamVars, out, main, acceptVars, keepalive, 
          threadVars, stopping>>

Slots == 0 .. MAX_CLIENTS - 1
Descriptors == 4 .. 3 + Cardinality(Conn)
Active == {i \in Slots : clients[i].is_active}

Init == 
    /\ clients = [i \in Slots |-> [socket_fd |-> -1, client_id |-> NoName, last_seen |-> "since",
                                   inactive_count |-> 0, is_active |-> FALSE, thread_id |-> NULL]]
    /\ client_count = 0 /\ is_running = TRUE /\ clients_mutex = NULL
    /\ files = [d \in Descriptors |-> NULL]
    /\ status = [c \in Conn |-> "none"] /\ in = [c \in Conn |-> <<>>]
    /\ out = [c \in Conn |-> "nothing"]
    /\ main = "accept" /\ accepted = -1 /\ presented = NoName
    /\ keepalive = "sleep"
    /\ at = [k \in Conn |-> "none"] /\ slot = [k \in Conn |-> 0]
    /\ fd = [k \in Conn |-> -1] /\ reading = [k \in Conn |-> NULL]
    /\ stopping = "not"

find_client_by_id(id) == {i \in Active : clients[i].client_id = id}
find_client_by_socket(d) == {i \in Active : clients[i].socket_fd = d}

\* send_message_protocol to a set of descriptors; it fails on one that is closed.
ServerSends(descriptors, type) == 
    out' = [c \in Conn |-> IF \E d \in descriptors \cap Descriptors : files[d] = c THEN type ELSE "nothing"]

Silent == ServerSends({}, "nothing")

Close(descriptors) == files' = [d \in Descriptors |-> IF d \in descriptors THEN NULL ELSE files[d]]

\* Seeded faults, here and before other definitions, are not used.
remove_clients_LeavesCount(table, gone) == 
    /\ clients' = [i \in Slots |-> 
                     IF i \in gone 
                       THEN [table[i] EXCEPT !.socket_fd = -1, !.is_active = FALSE, !.inactive_count = 0, 
                                             !.thread_id = NULL, !.client_id = NoName]
                       ELSE table[i]]
    /\ Close({clients[i].socket_fd : i \in gone})
    /\ UNCHANGED client_count

\* remove_client for each of gone, from the slots as in table
remove_clients(table, gone) == 
    /\ clients' = [i \in Slots |-> 
                     IF i \in gone 
                       THEN [table[i] EXCEPT !.socket_fd = -1, !.is_active = FALSE, !.inactive_count = 0, 
                                             !.thread_id = NULL, !.client_id = NoName]
                       ELSE table[i]]
    /\ client_count' = client_count - Cardinality(gone)
    /\ Close({clients[i].socket_fd : i \in gone})

-----------------------------------------------------------------------------
(***************************************************************************)
(* The clients: they connect, send, and close.                             *)
(***************************************************************************)
\* What is sent on a connection that the server has left goes nowhere.
Established == 
    {c \in Conn : \/ status[c] = "queued" 
                  \/ \E d \in Descriptors : files[d] = c 
                  \/ \E k \in Conn : reading[k] = c}

HasClosed(c) == "END" \in {in[c][n] : n \in DOMAIN in[c]}

ClientConnects(c) == 
    /\ status[c] = "none" /\ is_running 
    /\ status' = [status EXCEPT ![c] = "queued"]
    /\ Silent
    /\ UNCHANGED <<tableVars, is_running, clients_mutex, files, in, main, acceptVars, keepalive, threadVars, stopping>>

\* Of what type a message is shows when it is received.
ClientSends(c) == 
    /\ c \in Established /\ ~HasClosed(c) /\ Len(in[c]) < STREAM_CAP
    /\ in' = [in EXCEPT ![c] = Append(@, "message")]
    /\ Silent
    /\ UNCHANGED <<tableVars, is_running, clients_mutex, files, status, main, acceptVars, keepalive, threadVars, stopping>>

\* The server finds the end of the stream behind what was sent.
ClientCloses(c) == 
    /\ c \in Established /\ ~HasClosed(c)
    /\ in' = [in EXCEPT ![c] = Append(@, "END")]
    /\ Silent
    /\ UNCHANGED <<tableVars, is_running, clients_mutex, files, status, main, acceptVars, keepalive, threadVars, stopping>>

\* receive_message_protocol; the end of the stream is found again and again.
Receives(c, type) == 
    /\ in[c] # <<>> /\ Head(in[c]) = (IF type = "END" THEN "END" ELSE "message")
    /\ in' = IF type = "END" THEN in ELSE [in EXCEPT ![c] = Tail(@)]

-----------------------------------------------------------------------------
(***************************************************************************)
(* main: server_start.                                                     *)
(***************************************************************************)
MainRuns(from, to) == main = from /\ main' = to /\ stopping \in {"not", "stopped"}

MainLoops == 
    /\ MainRuns("loop", IF is_running THEN "accept" ELSE "cleanup")
    /\ Silent
    /\ UNCHANGED <<tableVars, is_running, clients_mutex, files, streamVars, acceptVars, keepalive, threadVars, stopping>>

\* The lowest descriptor that is free.
MainAccepts(c) == 
    /\ MainRuns("accept", "identify")
    /\ status[c] = "queued" /\ status' = [status EXCEPT ![c] = "accepted"]
    /\ accepted' = Min({d \in Descriptors : files[d] = NULL})
    /\ files' = [files EXCEPT ![accepted'] = c]
    /\ Silent
    /\ UNCHANGED <<tableVars, is_running, clients_mutex, in, presented, keepalive, threadVars, stopping>>

\* main itself waits for the first message; failures and invalid identifiers end
\* the connection.
MainIdentifies(c) == 
    /\ main = "identify" /\ files[accepted] = c
    /\ \E type \in Sent \cup {"END"}, id \in Id : 
         /\ Receives(c, type)
         /\ IF type \in {"GARBLED", "END"} \/ id \in Invalid
              THEN /\ MainRuns("identify", "loop") /\ accepted' = -1
                   /\ Close({accepted})
                   /\ ServerSends(IF type \in {"GARBLED", "END"} THEN {} ELSE {accepted}, "ERROR")
                   /\ UNCHANGED presented
              ELSE /\ MainRuns("identify", "register") 
                   /\ presented' = id
                   /\ UNCHANGED <<files, accepted>>
                   /\ Silent
    /\ UNCHANGED <<tableVars, is_running, clients_mutex, status, keepalive, threadVars, stopping>>

MainLocks(from, to) == 
    /\ MainRuns(from, to)
    /\ clients_mutex = NULL /\ clients_mutex' = "main"
    /\ Silent
    /\ UNCHANGED <<tableVars, is_running, files, streamVars, acceptVars, keepalive, threadVars, stopping>>

\* add_client takes the first slot that is not active, whether or not a thread
\* is left there; the new thread gets a pointer to it.
MainAdds(c) == 
    /\ MainRuns("registering", "welcome")
    /\ files[accepted] = c /\ find_client_by_id(presented) = {}
    /\ clients_mutex' = NULL
    /\ \E i \in Slots : 
         /\ i = Min((Slots \ Active) \cup {MAX_CLIENTS})
         /\ clients' = [clients EXCEPT ![i] = 
                          [socket_fd |-> accepted, client_id |-> presented, last_seen |-> "since", 
                           inactive_count |-> 0, is_active |-> TRUE, thread_id |-> c]]
         /\ slot' = [slot EXCEPT ![c] = i]
    /\ client_count' = client_count + 1
    /\ at' = [at EXCEPT ![c] = "loop"]
    /\ presented' = NoName
    /\ Silent
    /\ UNCHANGED <<is_running, files, streamVars, accepted, keepalive, fd, reading, stopping>>

MainRefuses_KeepsMutex == 
    /\ MainRuns("registering", "loop")
    /\ find_client_by_id(presented) # {} \/ Active = Slots
    /\ ServerSends({accepted}, "ERROR")
    /\ Close({accepted}) /\ accepted' = -1 /\ presented' = NoName
    /\ UNCHANGED <<tableVars, is_running, clients_mutex, streamVars, keepalive, threadVars, stopping>>

\* "Client ID already in use", "Server full or internal error", told after the
\* mutex was given back.
MainRefuses == 
    /\ MainRuns("registering", "loop")
    /\ find_client_by_id(presented) # {} \/ Active = Slots
    /\ clients_mutex' = NULL
    /\ ServerSends({accepted}, "ERROR")
    /\ Close({accepted}) /\ accepted' = -1 /\ presented' = NoName
    /\ UNCHANGED <<tableVars, is_running, streamVars, keepalive, threadVars, stopping>>

MainWelcomes == 
    /\ MainRuns("welcome", "loop")
    /\ ServerSends({accepted}, "BROADCAST")
    /\ accepted' = -1
    /\ UNCHANGED <<presented, tableVars, is_running, clients_mutex, files, streamVars, keepalive, threadVars, stopping>>

\* server_cleanup joins the threads that the slots still name, with the mutex.
MainJoins(i) == 
    /\ MainRuns("joining", "joining")
    /\ clients[i].thread_id # NULL /\ at[clients[i].thread_id] = "done"
    /\ \A j \in Slots : j < i => clients[j].thread_id = NULL
    /\ clients' = [clients EXCEPT ![i].thread_id = NULL]
    /\ Silent
    /\ UNCHANGED <<client_count, is_running, clients_mutex, files, streamVars, acceptVars, keepalive, threadVars, stopping>>

MainReturns == 
    /\ MainRuns("joining", "returned")
    /\ \A i \in Slots : clients[i].thread_id = NULL
    /\ clients_mutex' = NULL
    /\ Silent
    /\ UNCHANGED <<tableVars, is_running, files, streamVars, acceptVars, keepalive, threadVars, stopping>>

MainNext == 
    \/ MainLoops \/ MainLocks("register", "registering") \/ MainRefuses \/ MainWelcomes
    \/ \E c \in Conn : MainAccepts(c) \/ MainIdentifies(c) \/ MainAdds(c)
    \/ MainLocks("cleanup", "joining") \/ (\E i \in Slots : MainJoins(i)) \/ MainReturns

-----------------------------------------------------------------------------
(***************************************************************************)
(* handle_client, the thread that was created for connection k.            *)
(***************************************************************************)
Moves(k, from, to) == at[k] = from /\ at' = [at EXCEPT ![k] = to] /\ main # "returned"

\* With client->socket_fd from the slot, whoever's it is by now.
ThreadCallsRecv(k) == 
    /\ \E d \in {clients[slot[k]].socket_fd} : 
         IF is_running /\ clients[slot[k]].is_active 
           THEN Moves(k, "loop", "recv") /\ reading' = [reading EXCEPT ![k] = files[d]]
           ELSE Moves(k, "loop", "cleanup") /\ UNCHANGED reading
    /\ Silent
    /\ UNCHANGED <<tableVars, is_running, clients_mutex, files, streamVars, main, acceptVars, keepalive, slot, fd, stopping>>

\* What a message calls for; nothing else of an unknown one is looked at.
Handler(type) == 
    CASE type = "LIST" -> "list" 
      [] type \in {"2ALL", "2ONE"} -> type
      [] type = "STOP" -> "goodbye"
      [] type = "ALIVE_RESPONSE" -> "alive"
      [] type = "UNKNOWN" -> "loop"
      [] type \in {"GARBLED", "END"} -> "cleanup"

\* The slot is marked as heard without the mutex.
ThreadReceives(k) == 
    /\ at[k] = "recv"
    /\ \E type \in Sent \cup {"END"} : 
         /\ Receives(reading[k], type)
         /\ Moves(k, "recv", Handler(type))
         /\ clients' = IF type \in {"GARBLED", "END"} THEN clients
                       ELSE [clients EXCEPT ![slot[k]].last_seen = "since", ![slot[k]].inactive_count = 0]
    /\ fd' = [fd EXCEPT ![k] = IF at'[k] \in {"loop", "cleanup"} THEN -1 ELSE clients[slot[k]].socket_fd]
    /\ reading' = [reading EXCEPT ![k] = NULL]
    /\ Silent
    /\ UNCHANGED <<client_count, is_running, clients_mutex, files, status, main, acceptVars, keepalive, slot, stopping>>

Returns(k) == fd' = [fd EXCEPT ![k] = -1]

\* handle_list_request: send_client_list has the mutex, then sends without it.
ThreadLists(k) == 
    /\ Moves(k, "list", "reply")
    /\ clients_mutex = NULL
    /\ Silent
    /\ UNCHANGED <<tableVars, is_running, clients_mutex, files, streamVars, main, acceptVars, keepalive, slot, fd, reading, stopping>>

ThreadReplies(k) == 
    /\ Moves(k, "reply", "loop")
    /\ ServerSends({fd[k]}, "CLIENT_LIST")
    /\ Returns(k)
    /\ UNCHANGED <<tableVars, is_running, clients_mutex, files, streamVars, main, acceptVars, keepalive, slot, reading, stopping>>

\* handle_2all_request, handle_2one_request
ThreadRelays(k) == 
    /\ clients_mutex = NULL
    /\ \/ Moves(k, "2ALL", "loop")
          /\ ServerSends({clients[i].socket_fd : i \in Active} \ {fd[k]}, "BROADCAST")
       \/ Moves(k, "2ONE", "loop")
          /\ \E id \in Id : ServerSends({clients[i].socket_fd : i \in find_client_by_id(id)}, "PRIVATE")
    /\ Returns(k)
    /\ UNCHANGED <<tableVars, is_running, clients_mutex, files, streamVars, main, acceptVars, keepalive, slot, reading, stopping>>

ThreadSaysGoodbye_Removes(k) == 
    /\ Moves(k, "goodbye", "cleanup")
    /\ ServerSends({fd[k]}, "STOP")
    /\ remove_clients(clients, find_client_by_socket(fd[k]))
    /\ Returns(k)
    /\ UNCHANGED <<is_running, clients_mutex, streamVars, main, acceptVars, keepalive, slot, reading, stopping>>

\* handle_stop_request
ThreadSaysGoodbye(k) == 
    /\ Moves(k, "goodbye", "cleanup")
    /\ ServerSends({fd[k]}, "STOP")
    /\ Returns(k)
    /\ UNCHANGED <<tableVars, is_running, clients_mutex, files, streamVars, main, acceptVars, keepalive, slot, reading, stopping>>

\* handle_alive_response
ThreadHears(k) == 
    /\ Moves(k, "alive", "loop")
    /\ clients_mutex = NULL
    /\ clients' = [i \in Slots |-> IF i \in find_client_by_socket(fd[k]) 
                                     THEN [clients[i] EXCEPT !.last_seen = "since", !.inactive_count = 0]
                                     ELSE clients[i]]
    /\ Silent
    /\ Returns(k)
    /\ UNCHANGED <<client_count, is_running, clients_mutex, files, streamVars, main, acceptVars, keepalive, slot, reading, stopping>>

\* It removes the client in its slot, whoever that is.
ThreadCleansUp(k) == 
    /\ Moves(k, "cleanup", "done")
    /\ clients_mutex = NULL
    /\ remove_clients(clients, find_client_by_socket(clients[slot[k]].socket_fd))
    /\ Silent
    /\ slot' = [slot EXCEPT ![k] = 0]
    /\ UNCHANGED <<is_running, clients_mutex, streamVars, main, acceptVars, keepalive, fd, reading, stopping>>

ThreadNext(k) == 
    \/ ThreadCallsRecv(k) \/ ThreadReceives(k) \/ ThreadLists(k) \/ ThreadReplies(k) \/ ThreadRelays(k)
    \/ ThreadSaysGoodbye(k) \/ ThreadHears(k) \/ ThreadCleansUp(k)

-----------------------------------------------------------------------------
(***************************************************************************)
(* keepalive_monitor.                                                      *)
(***************************************************************************)
KeepaliveWakes == 
    /\ keepalive = "sleep" /\ main # "returned"
    /\ keepalive' = IF is_running THEN "scan" ELSE "done"
    /\ Silent
    /\ UNCHANGED <<tableVars, is_running, clients_mutex, files, streamVars, main, acceptVars, threadVars, stopping>>

Stale == {i \in Active : clients[i].last_seen = "before"}
TimedOut == {i \in Stale : clients[i].inactive_count + 1 >= MAX_INACTIVE_COUNT}

\* The ping may fail when the client has closed.
KeepaliveScans == 
    /\ keepalive = "scan" /\ keepalive' = IF is_running THEN "sleep" ELSE "done"
    /\ main # "returned"
    /\ clients_mutex = NULL
    /\ \E failed \in SUBSET {i \in Stale \ TimedOut : HasClosed(files[clients[i].socket_fd])} : 
         \E gone \in {TimedOut \cup failed} : 
           /\ remove_clients([i \in Slots |-> CASE i \in Stale -> [clients[i] EXCEPT !.inactive_count = @ + 1]
                                              [] i \in Active \ Stale -> [clients[i] EXCEPT !.last_seen = "before"]
                                              [] OTHER -> clients[i]],
                             gone)
           /\ ServerSends({clients[i].socket_fd : i \in Stale \ gone}, "ALIVE")
    /\ UNCHANGED <<is_running, clients_mutex, streamVars, main, acceptVars, threadVars, stopping>>

KeepaliveNext == KeepaliveWakes \/ KeepaliveScans

-----------------------------------------------------------------------------
(***************************************************************************)
(* signal_handler and server_stop, on main.                                *)
(***************************************************************************)
Signal == 
    /\ Signals /\ stopping = "not" /\ main # "returned" /\ stopping' = "begin"
    /\ Silent
    /\ UNCHANGED <<tableVars, is_running, clients_mutex, files, streamVars, main, acceptVars, keepalive, threadVars>>

StopRuns(from, to) == stopping = from /\ stopping' = to

\* The listening socket is closed, and with it the connections that were queued.
StopClosesSocket == 
    /\ StopRuns("begin", "lock")
    /\ is_running' = FALSE
    /\ status' = [c \in Conn |-> IF status[c] = "queued" THEN "reset" ELSE status[c]]
    /\ Silent
    /\ UNCHANGED <<tableVars, clients_mutex, files, in, main, acceptVars, keepalive, threadVars>>

\* Without remove_client: the count and thread_id are left alone.
StopClosesClients == 
    /\ StopRuns("lock", "join")
    /\ clients_mutex = NULL
    /\ clients' = [i \in Slots |-> IF i \in Active THEN [clients[i] EXCEPT !.socket_fd = -1, !.is_active = FALSE] ELSE clients[i]]
    /\ Close({clients[i].socket_fd : i \in Active})
    /\ ServerSends({clients[i].socket_fd : i \in Active}, "STOP")
    /\ UNCHANGED <<client_count, is_running, clients_mutex, streamVars, main, acceptVars, keepalive, threadVars>>

\* accept returns with EINTR; the recv of receive_message_protocol is called again.
StopJoins == 
    /\ StopRuns("join", "stopped")
    /\ keepalive = "done"
    /\ main' = IF main = "accept" THEN "cleanup" ELSE main
    /\ Silent
    /\ UNCHANGED <<tableVars, is_running, clients_mutex, files, streamVars, acceptVars, keepalive, threadVars>>

HandlerNext == StopClosesSocket \/ StopClosesClients \/ StopJoins

ClientsNext == 
    \E c \in Conn : ClientConnects(c) \/ ClientSends(c) \/ ClientCloses(c)

Next == 
    \/ MainNext \/ (\E k \in Conn : ThreadNext(k)) \/ KeepaliveNext 
    \/ Signal \/ HandlerNext \/ ClientsNext

Spec == Init /\ [][Next]_vars
=============================================================================
