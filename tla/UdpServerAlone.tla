--------------------------- MODULE UdpServerAlone ----------------------------
(***************************************************************************)
(* The server of lab11 in an environment that sends it whatever it likes,  *)
(* as far as the messages of the protocol go, and its properties.          *)
(***************************************************************************)
EXTENDS UdpChatServer

CONSTANT Sent    \* the types of messages that it sends

vars == <<serverVars, net>>

Init == ServerInit /\ net = {}

\* A client, or anybody, sends a datagram.
SomebodySends == 
    /\ \E m \in Datagram : 
         /\ m.to = "server" /\ m.type \in Sent /\ Cardinality(net) < NET_CAP
         /\ m.type = "2ONE" <=> m.recipient # NoId
         /\ net' = net \cup {m}
    /\ UNCHANGED serverVars

Loses == (\E m \in net : Lose(m)) /\ UNCHANGED serverVars

Next == ServerNext \/ SomebodySends \/ Loses

Spec == Init /\ [][Next]_vars

-----------------------------------------------------------------------------
ServerTypeOK == 
    /\ clients \in [Slots -> [socket_fd : {3, -1}, client_id : (Id \ Invalid) \cup {NoId}, 
                              addr : Addr \cup {NULL}, last_seen : 0 .. KEEPALIVE_INTERVAL + 1,
                              inactive_count : 0 .. MAX_INACTIVE_COUNT - 1, is_active : BOOLEAN]]
    /\ client_count \in Int
    /\ is_running \in BOOLEAN /\ server_socket \in {3, -1} /\ opened \in BOOLEAN
    /\ clients_mutex \in {NULL, "main", "keepalive"}
    /\ pc["main"] \in {"loop", "recv", "register", "registering", "dispatch", "serve", "serving",
                       "reply", "cleanup", "returned"}
    /\ pc["keepalive"] \in {"loop", "sleep", "lock", "scan", "done"}
    /\ msg \in Datagram \cup {NULL}
    /\ handler \in {NULL} \cup SignalTo
    /\ stopping \in {"not", "begin", "lock", "join", "stopped"}
    /\ slept \in 0 .. KEEPALIVE_INTERVAL
    /\ net \subseteq Datagram

\* No two slots are given to the same identifier, and client_count is the number
\* of slots in use, whichever of the two threads adds and removes; server_stop
\* empties the table and leaves the count alone.
OneSlotEach == 
    /\ ServerTypeOK
    /\ \A i, j \in Active : clients[i].client_id = clients[j].client_id => i = j
    /\ NoId \notin {clients[i].client_id : i \in Active}
    /\ client_count >= Cardinality(Active)
    /\ stopping \notin {"join", "stopped"} => client_count = Cardinality(Active)

\* Whoever leaves the table takes the server's socket with him, since his slot
\* holds its number, and nothing else but server_stop closes it.  From then on
\* nothing is sent, and nothing is received but what a recvfrom that had been
\* called before returns.
LeavingDeafens == 
    [][ /\ (\E i \in Slots : clients[i].is_active /\ ~clients'[i].is_active) => ~opened'
        /\ opened /\ ~opened' => stopping' = "lock" \/ \E i \in Slots : clients[i].is_active /\ ~clients'[i].is_active
        /\ ~opened => /\ ~opened'
                      /\ pc["main"] # "recv" => pc'["main"] # "recv"
                      /\ \A m \in net' \ net : m.to = "server"
                      /\ msg = NULL /\ msg' # NULL => pc["main"] = "recv" ]_vars

\* What each of the threads, and the handler on one of them, may have to wait for:
\* the mutex, a datagram, its sleep, the end of keepalive, or that it is interrupted.
MainWaits == 
    \/ pc["main"] = "returned" \/ handler = "main"
    \/ pc["main"] \in {"register", "serve", "cleanup"} /\ clients_mutex # NULL
    \/ pc["main"] = "recv" /\ \A m \in net : m.to # "server"
    \/ pc["main"] = "loop" /\ is_running /\ ~opened

KeepaliveWaits == 
    \/ pc["keepalive"] = "done" \/ pc["main"] = "returned" \/ handler = "keepalive"
    \/ pc["keepalive"] = "lock" /\ clients_mutex # NULL
    \/ pc["keepalive"] = "sleep" /\ slept < KEEPALIVE_INTERVAL

HandlerWaits == 
    \/ handler = NULL \/ pc["main"] = "returned"
    \/ stopping = "lock" /\ clients_mutex # NULL
    \/ stopping = "join" /\ handler = "main" /\ pc["keepalive"] # "done"

SelfDeadlock == stopping = "lock" /\ clients_mutex = handler
WaitsForDatagram == stopping = "stopped" /\ pc["main"] = "recv" /\ \A m \in net : m.to # "server"

\* After a signal the server can always go on, until main has returned, except
\* that the signal may hit the thread that has clients_mutex, which waits for
\* itself, or hit keepalive, and leave main in recvfrom for as long as no datagram
\* comes.
StuckInKnownWays == 
    stopping # "not" /\ MainWaits /\ KeepaliveWaits /\ HandlerWaits
        => pc["keepalive"] = "sleep" \/ pc["main"] = "returned" \/ SelfDeadlock \/ WaitsForDatagram
=============================================================================
