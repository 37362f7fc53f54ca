---------------------------- MODULE UdpChatServer ----------------------------
(***************************************************************************)
(* The chat server over UDP: lab11/src/server.c.                           *)
(*                                                                         *)
(* Two threads, main in its receive loop and keepalive, share the table    *)
(* of clients under clients_mutex.  A signal runs server_stop on one of    *)
(* them, between any two of its steps.  All clients are served through     *)
(* one socket, whose number add_client_udp copies to every slot, so that   *)
(* remove_client closes it; `opened' is whether that number is open.       *)
(*                                                                         *)
(* last_seen is modelled by its distance from now, in seconds, up to the   *)
(* first one that keepalive_monitor tells from the interval.               *)
(***************************************************************************)
EXTENDS Datagrams, Integers, FiniteSetsExt

CONSTANTS MAX_CLIENTS, KEEPALIVE_INTERVAL, MAX_INACTIVE_COUNT,
          SignalTo,   \* the threads that a signal may interrupt
          NULL

ASSUME ServerAssumption == 
    /\ MAX_CLIENTS \in Nat \ {0}
    /\ KEEPALIVE_INTERVAL \in Nat \ {0} /\ MAX_INACTIVE_COUNT \in Nat \ {0}
    /\ SignalTo \subseteq {"main", "keepalive"} /\ NULL \notin {"main", "keepalive"}

VARIABLES clients, client_count, is_running,
          server_socket,      \* 3, the number of the socket, or -1
          opened,             \* whether descriptor 3 is open
          clients_mutex,      \* the thread that has it
          pc,
          msg,                \* received_msg of main
          handler,            \* the thread interrupted by the signal, and
          stopping,           \* where server_stop has come to
          slept               \* seconds of keepalive's sleep

tableVars == <<clients, client_count>>
socketVars == <<server_socket, opened>>
handlerVars == <<handler, stopping>>
serverVars == <<tableVars, is_running, socketVars, clients_mutex, pc, msg, handlerVars, slept>>

Slots == 0 .. MAX_CLIENTS - 1
Active == {i \in Slots : clients[i].is_active}

ServerInit == 
    /\ clients = [i \in Slots |-> [socket_fd |-> -1, client_id |-> NoId, addr |-> NULL, 
                                   last_seen |-> 0, inactive_count |-> 0, is_active |-> FALSE]]
    /\ client_count = 0
    /\ is_running = TRUE
    /\ server_socket = 3 /\ opened = TRUE
    /\ clients_mutex = NULL
    /\ pc = [main |-> "loop", keepalive |-> "loop"]
    /\ msg = NULL
    /\ handler = NULL /\ stopping = "not"
    /\ slept = 0

Runs(t, from) == pc[t] = from /\ handler # t /\ pc["main"] # "returned"
Goes(t, from, to) == Runs(t, from) /\ pc' = [pc EXCEPT ![t] = to]

\* Seeded faults, here and before other definitions, are not used.
find_client_by_id(id) == {i \in Active : clients[i].client_id = id}

ServerSends_Always(out) == Send(out)

\* sendto on a descriptor that is closed fails.
ServerSends(out) == Send(IF opened THEN out ELSE {})

-----------------------------------------------------------------------------
(***************************************************************************)
(* main: server_start.                                                     *)
(***************************************************************************)

\* while (is_running) recvfrom(...), which fails at once without the socket.
MainLoops == 
    /\ Goes("main", "loop", IF is_running THEN "recv" ELSE "cleanup")
    /\ is_running => opened
    /\ UNCHANGED <<tableVars, is_running, socketVars, clients_mutex, msg, handlerVars, slept, net>>

\* recvfrom keeps the socket it was called with although its number is closed.
MainReceives(m) == 
    /\ m.to = "server"
    /\ Goes("main", "recv", IF m.type = "GARBLED" THEN "loop" ELSE "register")
    /\ Receive(m)
    /\ msg' = IF m.type = "GARBLED" THEN NULL ELSE m
    /\ UNCHANGED <<tableVars, is_running, socketVars, clients_mutex, handlerVars, slept>>

Locks(t, from, to) == 
    /\ Goes(t, from, to)
    /\ clients_mutex = NULL
    /\ clients_mutex' = t
    /\ UNCHANGED <<tableVars, is_running, socketVars, msg, handlerVars, slept, net>>

MainUnlocks_Not(from, to) == 
    /\ Goes("main", from, to)
    /\ UNCHANGED clients_mutex
    /\ msg' = IF to = "loop" THEN NULL ELSE msg

\* A handler is done, its message forgotten: back to the receive loop.
MainUnlocks(from, to) == 
    /\ Goes("main", from, to)
    /\ clients_mutex' = NULL
    /\ msg' = IF to = "loop" THEN NULL ELSE msg

Heard(i) == [clients EXCEPT ![i].addr = msg.from, ![i].last_seen = 0, ![i].inactive_count = 0]

MainHears == 
    /\ MainUnlocks("registering", "dispatch")
    /\ \E i \in Slots : 
         /\ i = Min(find_client_by_id(msg.sender) \cup {MAX_CLIENTS}) 
         /\ clients' = Heard(i)
    /\ UNCHANGED <<client_count, is_running, socketVars, handlerVars, slept, net>>

\* add_client_udp takes the first free slot.
MainAdds == 
    /\ MainUnlocks("registering", "dispatch")
    /\ find_client_by_id(msg.sender) = {} /\ msg.type # "STOP" /\ msg.sender \notin Invalid
    /\ \E i \in Slots : 
         /\ i = Min((Slots \ Active) \cup {MAX_CLIENTS})
         /\ clients' = [clients EXCEPT ![i] = 
                          [socket_fd |-> server_socket, client_id |-> msg.sender, addr |-> msg.from,
                           last_seen |-> 0, inactive_count |-> 0, is_active |-> TRUE]]
    /\ client_count' = client_count + 1
    /\ UNCHANGED <<is_running, socketVars, handlerVars, slept, net>>

\* "Invalid client ID format", "Server full or internal error"
MainRefuses == 
    /\ MainUnlocks("registering", "loop")
    /\ find_client_by_id(msg.sender) = {} /\ msg.type # "STOP"
    /\ msg.sender \in Invalid \/ Active = Slots
    /\ ServerSends({ToClient(msg.from, "ERROR")})
    /\ UNCHANGED <<tableVars, is_running, socketVars, handlerVars, slept>>

\* The STOP of a stranger does not register it.
MainPassesStop == 
    /\ MainUnlocks("registering", "dispatch")
    /\ find_client_by_id(msg.sender) = {} /\ msg.type = "STOP"
    /\ UNCHANGED <<tableVars, is_running, socketVars, handlerVars, slept, net>>

\* The switch; handle_stop_request_udp says goodbye before it takes the mutex.
MainDispatches == 
    /\ Goes("main", "dispatch", IF msg.type \in {"ALIVE_RESPONSE", "UNKNOWN"} THEN "loop" ELSE "serve")
    /\ msg' = IF msg.type \in {"ALIVE_RESPONSE", "UNKNOWN"} THEN NULL ELSE msg
    /\ ServerSends(IF msg.type = "STOP" THEN {ToClient(msg.from, "STOP")} ELSE {})
    /\ UNCHANGED <<tableVars, is_running, socketVars, clients_mutex, handlerVars, slept>>

\* handle_list_request_udp collects the names under the mutex, and sends without it.
MainLists == 
    /\ MainUnlocks("serving", "reply")
    /\ msg.type = "LIST"
    /\ UNCHANGED <<tableVars, is_running, socketVars, handlerVars, slept, net>>

MainReplies == 
    /\ Goes("main", "reply", "loop")
    /\ ServerSends({ToClient(msg.from, "CLIENT_LIST")})
    /\ msg' = NULL
    /\ UNCHANGED <<tableVars, is_running, socketVars, clients_mutex, handlerVars, slept>>

\* handle_2all_request_udp, handle_2one_request_udp
MainRelays == 
    /\ MainUnlocks("serving", "loop")
    /\ msg.type \in {"2ALL", "2ONE"}
    /\ ServerSends(
         IF msg.type = "2ALL"
           THEN {ToClient(clients[i].addr, "BROADCAST") : i \in Active \ find_client_by_id(msg.sender)}
           ELSE {ToClient(clients[i].addr, "PRIVATE") : i \in find_client_by_id(msg.recipient)})
    /\ UNCHANGED <<tableVars, is_running, socketVars, handlerVars, slept>>

remove_clients_CountsOne(table, gone) == 
    /\ clients' = [i \in Slots |-> IF i \in gone THEN [table[i] EXCEPT !.socket_fd = -1, !.is_active = FALSE]
                                                 ELSE table[i]]
    /\ client_count' = client_count - 1
    /\ opened' = (opened /\ \A i \in gone : clients[i].socket_fd # 3)

\* remove_client for all of gone, from the slots as in table; safe_close_socket
\* closes what a slot holds.
remove_clients(table, gone) == 
    /\ clients' = [i \in Slots |-> 
                     IF i \in gone 
                       THEN [table[i] EXCEPT !.socket_fd = -1, !.is_active = FALSE, 
                                             !.inactive_count = 0, !.client_id = NoId]
                       ELSE table[i]]
    /\ client_count' = client_count - Cardinality(gone)
    /\ opened' = (opened /\ \A i \in gone : clients[i].socket_fd # 3)

MainRemoves == 
    /\ MainUnlocks("serving", "loop")
    /\ msg.type = "STOP"
    /\ remove_clients(clients, find_client_by_id(msg.sender))
    /\ UNCHANGED <<is_running, server_socket, handlerVars, slept, net>>

\* server_cleanup: server_stop has nothing left to do, no slot has a thread.
MainCleansUp == 
    /\ Goes("main", "cleanup", "returned")
    /\ clients_mutex = NULL
    /\ server_socket' = -1
    /\ opened' = (opened /\ server_socket # 3)
    /\ UNCHANGED <<tableVars, is_running, clients_mutex, msg, handlerVars, slept, net>>

MainNext == 
    \/ MainLoops \/ (\E m \in net : MainReceives(m))
    \/ Locks("main", "register", "registering") \/ Locks("main", "serve", "serving")
    \/ MainHears \/ MainAdds \/ MainRefuses \/ MainPassesStop
    \/ MainDispatches \/ MainLists \/ MainReplies \/ MainRelays \/ MainRemoves
    \/ MainCleansUp

-----------------------------------------------------------------------------
(***************************************************************************)
(* keepalive_monitor.                                                      *)
(***************************************************************************)
KeepaliveLoops == 
    /\ Goes("keepalive", "loop", IF is_running THEN "sleep" ELSE "done")
    /\ slept' = 0
    /\ UNCHANGED <<tableVars, is_running, socketVars, clients_mutex, msg, handlerVars, net>>

KeepaliveWakes == 
    /\ slept = KEEPALIVE_INTERVAL
    /\ Goes("keepalive", "sleep", IF is_running THEN "lock" ELSE "done")
    /\ slept' = 0
    /\ UNCHANGED <<tableVars, is_running, socketVars, clients_mutex, msg, handlerVars, net>>

Stale_Never == {i \in Active : clients[i].inactive_count > 0}

Stale == {i \in Active : clients[i].last_seen > KEEPALIVE_INTERVAL}
Silent == {i \in Stale : clients[i].inactive_count + 1 >= MAX_INACTIVE_COUNT}

\* Slot after slot: when the first silent client is removed the socket is
\* closed, and the ping of every stale one behind it fails.
Unreachable == {i \in Stale : ~opened \/ \E j \in Silent : j < i /\ clients[j].socket_fd = 3}
Pinged == Stale \ (Silent \cup Unreachable)

KeepaliveScans == 
    /\ Goes("keepalive", "scan", "loop")
    /\ clients_mutex' = NULL
    /\ remove_clients([i \in Slots |-> IF i \in Pinged THEN [clients[i] EXCEPT !.inactive_count = @ + 1]
                                                        ELSE clients[i]],
                      Silent \cup Unreachable)
    /\ ServerSends({ToClient(clients[i].addr, "ALIVE") : i \in Pinged})
    /\ UNCHANGED <<is_running, server_socket, msg, handlerVars, slept>>

KeepaliveNext == 
    \/ KeepaliveLoops \/ KeepaliveWakes 
    \/ Locks("keepalive", "lock", "scan") 
    \/ KeepaliveScans

\* A second passes; keepalive gets from time(NULL) through the mutex within one.
Tick == 
    /\ pc["main"] # "returned" /\ pc["keepalive"] \notin {"lock", "scan"}
    /\ clients' = [i \in Slots |-> IF clients[i].is_active /\ clients[i].last_seen <= KEEPALIVE_INTERVAL
                                     THEN [clients[i] EXCEPT !.last_seen = @ + 1] ELSE clients[i]]
    /\ slept' = IF pc["keepalive"] = "sleep" /\ slept < KEEPALIVE_INTERVAL THEN slept + 1 ELSE slept
    /\ UNCHANGED <<client_count, is_running, socketVars, clients_mutex, pc, msg, handlerVars, net>>

-----------------------------------------------------------------------------
(***************************************************************************)
(* signal_handler and server_stop, on the thread the signal interrupts.    *)
(* The first signal resets its own handler, a second one of its kind kills *)
(* the process.                                                            *)
(***************************************************************************)
Signal(t) == 
    /\ handler = NULL /\ stopping = "not"
    /\ pc["main"] # "returned" /\ pc[t] # "done"
    /\ handler' = t /\ stopping' = "begin"
    /\ UNCHANGED <<tableVars, is_running, socketVars, clients_mutex, pc, msg, slept, net>>

StopClosesSocket == 
    /\ stopping = "begin" /\ stopping' = "lock"
    /\ pc["main"] # "returned"
    /\ is_running' = FALSE
    /\ server_socket' = -1
    /\ opened' = (opened /\ server_socket # 3)
    /\ UNCHANGED <<tableVars, clients_mutex, pc, msg, handler, slept, net>>

\* Every client is told "Server shutting down" and its socket closed.
StopClosesClients == 
    /\ stopping = "lock" /\ stopping' = "join"
    /\ pc["main"] # "returned"
    /\ clients_mutex = NULL
    /\ ServerSends({ToClient(clients[i].addr, "STOP") : i \in Active})
    /\ clients' = [i \in Slots |-> IF i \in Active THEN [clients[i] EXCEPT !.socket_fd = -1, !.is_active = FALSE]
                                                   ELSE clients[i]]
    /\ UNCHANGED <<client_count, is_running, socketVars, clients_mutex, pc, msg, handler, slept>>

\* pthread_join of the calling thread fails.  What was interrupted goes on:
\* recvfrom with EINTR, sleep before its time.
StopJoins == 
    /\ stopping = "join" /\ stopping' = "stopped"
    /\ pc["main"] # "returned"
    /\ handler = "keepalive" \/ pc["keepalive"] = "done"
    /\ handler' = NULL
    /\ pc' = [pc EXCEPT !["main"] = IF handler = "main" /\ @ = "recv" THEN "loop" ELSE @]
    /\ slept' = IF handler = "keepalive" /\ pc["keepalive"] = "sleep" THEN KEEPALIVE_INTERVAL ELSE slept
    /\ UNCHANGED <<tableVars, is_running, socketVars, clients_mutex, msg, net>>

HandlerNext == StopClosesSocket \/ StopClosesClients \/ StopJoins

ServerNext == 
    \/ MainNext \/ KeepaliveNext \/ Tick 
    \/ (\E t \in SignalTo : Signal(t)) \/ HandlerNext
=============================================================================
