---------------------------- MODULE TcpChatClient ----------------------------
(***************************************************************************)
(* A chat client over TCP, lab10/src/client.c, from the moment the server  *)
(* has registered it, with what lab10/src/server.c does to its slot.       *)
(*                                                                         *)
(* It is built like the client of lab11: main reads commands, a second     *)
(* thread receives, a signal runs client_stop on either.  But the end of   *)
(* the connection is received, and recv is called again after a signal.    *)
(*                                                                         *)
(* Closing a descriptor does not end a connection while a thread is in a   *)
(* recv that began with it: this holds of the client's own receiver, and   *)
(* of the threads of the server.  The end comes when the last recv returns.*)
(***************************************************************************)
EXTENDS Naturals, Sequences

CONSTANTS Commands,     \* what the user enters
          Signalled,    \* the threads that a signal may interrupt
          Orphans,      \* threads of the server that another client left in the slot
          MAX_INACTIVE_COUNT,
          STREAM_CAP    \* a bound: messages on their way to the client; more wait

ASSUME ClientAssumption == 
    /\ Commands \subseteq {"help", "list", "2all", "2one", "quit", "EOF"}
    /\ Signalled \subseteq {"main", "receive"}
    /\ "own" \notin Orphans
    /\ MAX_INACTIVE_COUNT \in Nat \ {0} /\ STREAM_CAP \in Nat \ {0}

VARIABLES running, socket,  \* is_running, and whether server_socket is open and not -1
          state_mutex,      \* the thread that has it, or "free"
          at,               \* where both threads are
          todo,             \* the command being handled
          interrupted,      \* the thread that runs signal_handler
          inbox, outbox,    \* what is on its way to the client, and from it
          slot,             \* "listed", "removed" by remove_client or "closed" by server_stop
          last_seen, inactive_count,    \* in the slot
          thread,           \* where the threads of the server that point to the slot are
          stopping          \* how far server_stop is: is_running says whether it has begun

clientVars == <<running, socket, state_mutex, at, todo, interrupted>>
slotVars == <<slot, last_seen, inactive_count>>
serverVars == <<slotVars, thread, stopping>>
vars == <<clientVars, inbox, outbox, serverVars>>

Serving == {"own"} \cup Orphans

\* The thread of an orphan is still in recv for the client it was created for.
Init == 
    /\ running = TRUE /\ socket = TRUE /\ state_mutex = "free"
    /\ at = [main |-> "prompt", receive |-> "loop"]
    /\ todo = "nothing" /\ interrupted = "not"
    /\ inbox = <<"DISPLAYED">> /\ outbox = <<>>
    /\ slot = "listed" /\ last_seen = "since" /\ inactive_count = 0
    /\ thread = [k \in Serving |-> IF k = "own" THEN "loop" ELSE "elsewhere"]
    /\ stopping = "not"

Moves(t, from, to) == at[t] = from /\ interrupted # t /\ at' = [at EXCEPT ![t] = to]

\* The connection, as each side holds it.
ClientHolds == socket \/ at.receive = "recv"
ServerHolds == slot = "listed" \/ \E k \in Serving : thread[k] = "recv"

\* send_message_protocol; what nobody can receive any more goes nowhere.
ClientSends(type) == outbox' = IF socket /\ ServerHolds THEN Append(outbox, type) ELSE outbox

StopLocks(t, from, to) == 
    /\ Moves(t, from, to)
    /\ state_mutex = "free" /\ state_mutex' = t
    /\ UNCHANGED <<running, socket, todo, interrupted, inbox, outbox, serverVars>>

\* Seeded faults, here and before another definition, are not used.
StopUnlocks_Running(t, from, to) == 
    /\ Moves(t, from, to)
    /\ state_mutex' = "free"
    /\ UNCHANGED <<running, socket, todo, interrupted, inbox, outbox, serverVars>>

StopUnlocks(t, from, to) == 
    /\ Moves(t, from, to)
    /\ running' = FALSE /\ state_mutex' = "free"
    /\ UNCHANGED <<socket, todo, interrupted, inbox, outbox, serverVars>>

-----------------------------------------------------------------------------
\* client_run_interactive, client_cleanup
Prompts == 
    /\ Moves("main", "prompt", IF running THEN "ask" ELSE "cleanup")
    /\ UNCHANGED <<running, socket, state_mutex, todo, interrupted, inbox, outbox, serverVars>>

CallsFgets == 
    /\ Moves("main", "ask", "fgets")
    /\ UNCHANGED <<running, socket, state_mutex, todo, interrupted, inbox, outbox, serverVars>>

Enters(command) == 
    /\ Moves("main", "fgets", CASE command = "EOF" -> "cleanup" [] command = "help" -> "prompt" [] OTHER -> "send")
    /\ todo' = IF command \in {"EOF", "help"} THEN "nothing" ELSE command
    /\ UNCHANGED <<running, socket, state_mutex, interrupted, inbox, outbox, serverVars>>

\* What is not taken by the server yet is bounded: the user waits, unless he leaves.
User == 
    \E command \in Commands : 
      /\ command \in {"list", "2all", "2one"} => outbox = <<>>
      /\ Enters(command)

\* handle_user_input
SendsCommand == 
    /\ Moves("main", "send", IF todo = "quit" THEN "quit" ELSE "prompt")
    /\ todo' = "nothing"
    /\ ClientSends(CASE todo = "list" -> "LIST" [] todo = "2all" -> "2ALL" [] todo = "2one" -> "2ONE" [] todo = "quit" -> "STOP")
    /\ UNCHANGED <<running, socket, state_mutex, interrupted, inbox, serverVars>>

\* client_disconnect; a recv that has begun keeps the connection open.
Closes == 
    /\ Moves("main", "close", "join")
    /\ socket' = FALSE
    /\ UNCHANGED <<running, state_mutex, todo, interrupted, inbox, outbox, serverVars>>

Joins == 
    /\ Moves("main", "join", "exit")
    /\ at.receive = "done"
    /\ UNCHANGED <<running, socket, state_mutex, todo, interrupted, inbox, outbox, serverVars>>

ClientMain == 
    \/ Prompts \/ CallsFgets \/ SendsCommand
    \/ StopLocks("main", "quit", "quitting") \/ StopUnlocks("main", "quitting", "prompt")
    \/ StopLocks("main", "cleanup", "cleaning") \/ StopUnlocks("main", "cleaning", "close")
    \/ Closes \/ Joins

-----------------------------------------------------------------------------
\* client_receive_messages
ReceiverLoops == 
    /\ Moves("receive", "loop", IF running THEN "call" ELSE "done")
    /\ UNCHANGED <<running, socket, state_mutex, todo, interrupted, inbox, outbox, serverVars>>

CallsRecv == 
    /\ Moves("receive", "call", IF socket THEN "recv" ELSE "stop")
    /\ UNCHANGED <<running, socket, state_mutex, todo, interrupted, inbox, outbox, serverVars>>

\* receive_message_protocol, handle_received_message
ClientReceives_OnAndOn == 
    /\ inbox # <<>> /\ Head(inbox) # "END"
    /\ Moves("receive", "recv", IF Head(inbox) = "ALIVE" THEN "answer" ELSE "recv")
    /\ inbox' = Tail(inbox)
    /\ UNCHANGED <<running, socket, state_mutex, todo, interrupted, outbox, serverVars>>

ClientReceives == 
    /\ inbox # <<>>
    /\ Moves("receive", "recv", CASE Head(inbox) = "ALIVE" -> "answer" [] Head(inbox) = "END" -> "stop" [] OTHER -> "loop")
    /\ inbox' = IF Head(inbox) = "END" THEN inbox ELSE Tail(inbox)
    /\ UNCHANGED <<running, socket, state_mutex, todo, interrupted, outbox, serverVars>>

Answers == 
    /\ Moves("receive", "answer", "loop")
    /\ ClientSends("ALIVE_RESPONSE")
    /\ UNCHANGED <<running, socket, state_mutex, todo, interrupted, inbox, serverVars>>

Receiver == 
    \/ ReceiverLoops \/ CallsRecv \/ ClientReceives \/ Answers
    \/ StopLocks("receive", "stop", "stopping") \/ StopUnlocks("receive", "stopping", "done")

-----------------------------------------------------------------------------
\* signal_handler
ClientSignal(t) == 
    /\ interrupted = "not" /\ at.main # "exit" /\ at[t] # "done"
    /\ interrupted' = t
    /\ UNCHANGED <<running, socket, state_mutex, at, todo, inbox, outbox, serverVars>>

\* fgets returns and check_signal finds the byte; receive_message_protocol calls
\* recv again, with the number of a descriptor that may be closed by now.
HandlerStops == 
    /\ interrupted \in Signalled /\ state_mutex = "free"
    /\ running' = FALSE /\ interrupted' = "nobody"
    /\ at' = [main |-> IF interrupted = "main" /\ at.main = "fgets" THEN "cleanup" ELSE at.main,
              receive |-> IF interrupted = "receive" /\ at.receive = "recv" THEN "call" ELSE at.receive]
    /\ UNCHANGED <<socket, state_mutex, todo, inbox, outbox, serverVars>>

-----------------------------------------------------------------------------
(***************************************************************************)
(* The server: the threads that run handle_client with a pointer to the    *)
(* slot of this client.                                                    *)
(***************************************************************************)
\* What the server sends to the slot, and the end of the connection if this step
\* lets go of it.
Reaches(out) == 
    inbox' = inbox \o (IF slot = "listed" THEN out ELSE <<>>) \o (IF ServerHolds' THEN <<>> ELSE <<"END">>)

\* A send waits for room in the stream.
Room == slot = "listed" => Len(inbox) < STREAM_CAP

\* clients_mutex is kept for ever by a main whose own handler waits for it.  (That
\* server_cleanup keeps it while it joins matters no more: the slot is closed.)
MutexComesFree == stopping # "stuck"

ThreadMoves(k, from, to) == thread[k] = from /\ thread' = [thread EXCEPT ![k] = to]

Heard == last_seen' = "since" /\ inactive_count' = 0

\* remove_client; the times of nobody are not told apart.
Removes == slot' = "removed" /\ Heard /\ Reaches(<<>>)

\* A slot that is active again belongs to somebody else: that is no more to this
\* client than the end of the thread.
ThreadCallsRecv(k) == 
    /\ ThreadMoves(k, "loop", IF stopping = "not" /\ slot = "listed" THEN "recv" ELSE "cleanup")
    /\ UNCHANGED <<clientVars, inbox, outbox, slotVars, stopping>>

\* What is left to do: a handler that sends this client nothing ends with the step.
Handler(type) == CASE type = "LIST" -> "list" [] type = "STOP" -> "goodbye" [] OTHER -> "loop"

ThreadReceives(k) == 
    /\ outbox # <<>> /\ outbox' = Tail(outbox)
    /\ ThreadMoves(k, "recv", Handler(Head(outbox)))
    /\ Heard
    /\ UNCHANGED <<clientVars, slot, stopping>>
    /\ Reaches(<<>>)

\* handle_list_request: the mutex is given back before the list is sent.
ThreadLists(k) == 
    /\ ThreadMoves(k, "list", "loop") /\ MutexComesFree /\ Room
    /\ UNCHANGED <<clientVars, outbox, slotVars, stopping>>
    /\ Reaches(<<"DISPLAYED">>)

ThreadSaysGoodbye_GoesOn(k) == 
    /\ ThreadMoves(k, "goodbye", "loop") /\ Room
    /\ UNCHANGED <<clientVars, outbox, slotVars, stopping>>
    /\ Reaches(<<"DISPLAYED">>)

\* handle_stop_request
ThreadSaysGoodbye(k) == 
    /\ ThreadMoves(k, "goodbye", "cleanup") /\ Room
    /\ UNCHANGED <<clientVars, outbox, slotVars, stopping>>
    /\ Reaches(<<"DISPLAYED">>)

\* It removes the client in the slot, whether or not it was created for it.
ThreadCleansUp(k) == 
    /\ ThreadMoves(k, "cleanup", "done") /\ MutexComesFree
    /\ IF slot = "listed" THEN Removes ELSE UNCHANGED <<inbox, slotVars>>
    /\ UNCHANGED <<clientVars, outbox, stopping>>

ThreadNext(k) == 
    \/ ThreadCallsRecv(k) \/ ThreadReceives(k) \/ ThreadLists(k) \/ ThreadSaysGoodbye(k) \/ ThreadCleansUp(k)

\* The client that keepalive removed from the slot before sends something after
\* all, or ends: its thread goes on with the slot.
OrphanComesBack(o) == 
    /\ \E to \in {"list", "loop", "goodbye", "cleanup"} : 
         /\ ThreadMoves(o, "elsewhere", to)
         /\ IF to = "cleanup" THEN UNCHANGED <<last_seen, inactive_count>> ELSE Heard
    /\ UNCHANGED <<clientVars, inbox, outbox, slot, stopping>>

-----------------------------------------------------------------------------
(***************************************************************************)
(* The server: other clients, keepalive_monitor and the shutdown.          *)
(***************************************************************************)
\* A PRIVATE, or what an orphan of another slot sends to a descriptor that is this
\* client's by now, is displayed like a BROADCAST.
ServerRelays == 
    /\ slot = "listed" /\ Room /\ MutexComesFree
    /\ UNCHANGED <<clientVars, outbox, serverVars>>
    /\ Reaches(<<"DISPLAYED">>)

\* A client that was heard since the last scan is left in peace.
Notices == last_seen = "since" /\ last_seen' = "before" /\ UNCHANGED inactive_count

\* A bound: what the client sent has been received before the next ping; the code
\* sleeps KEEPALIVE_INTERVAL between two rounds.
Pings == 
    /\ Room /\ Len(outbox) < STREAM_CAP
    /\ inactive_count' = inactive_count + 1 
    /\ UNCHANGED <<slot, last_seen>>
    /\ Reaches(<<"ALIVE">>)

KeepaliveScans_Silently == 
    /\ stopping = "not" /\ slot = "listed"
    /\ UNCHANGED <<clientVars, outbox, thread, stopping>>
    /\ \/ Notices /\ UNCHANGED <<inbox, slot>>
       \/ /\ last_seen = "before"
          /\ IF inactive_count + 1 >= MAX_INACTIVE_COUNT THEN Removes
             ELSE inactive_count' = inactive_count + 1 /\ UNCHANGED <<inbox, slot, last_seen>>

\* One round of keepalive_monitor, which ends with is_running: what the last one
\* does when server_stop has begun it might as well have done before.
KeepaliveScans == 
    /\ stopping = "not" /\ slot = "listed"
    /\ UNCHANGED <<clientVars, outbox, thread, stopping>>
    /\ \/ Notices /\ UNCHANGED <<inbox, slot>>
       \/ /\ last_seen = "before"
          /\ \/ inactive_count + 1 >= MAX_INACTIVE_COUNT /\ Removes
             \/ inactive_count + 1 < MAX_INACTIVE_COUNT /\ Pings

\* signal_handler runs server_stop on main, which may have the mutex already.
StopBegins == 
    /\ stopping = "not" /\ stopping' \in {"begun", "stuck"}
    /\ UNCHANGED <<clientVars, inbox, outbox, slotVars, thread>>

\* The descriptor is closed, the connection goes on in the recv of the threads.
StopClosesClients == 
    /\ stopping = "begun" /\ stopping' = "closed" /\ Room
    /\ UNCHANGED <<clientVars, outbox, thread>>
    /\ IF slot = "listed" THEN slot' = "closed" /\ Heard ELSE UNCHANGED slotVars
    /\ Reaches(<<"DISPLAYED">>)

\* server_cleanup joins the threads that the slots still name; remove_client has
\* made the slot forget the others, which end with the process.
ServerExits == 
    /\ stopping = "closed"
    /\ slot = "removed" \/ thread["own"] = "done"
    /\ thread' = [k \in Serving |-> "done"]
    /\ UNCHANGED <<clientVars, outbox, slotVars, stopping>>
    /\ Reaches(<<>>)

\* The server is followed until either side lets go of the connection: from then on
\* nothing that it does gets to the client.
Connected == ClientHolds /\ ServerHolds

ServerNext == 
    \/ (\E k \in Serving : ThreadNext(k)) \/ (\E o \in Orphans : OrphanComesBack(o))
    \/ ServerRelays \/ KeepaliveScans \/ StopBegins \/ StopClosesClients \/ ServerExits

Next == 
    \/ ClientMain \/ Receiver \/ User
    \/ (\E t \in Signalled : ClientSignal(t)) \/ HandlerStops
    \/ Connected /\ ServerNext

\* The threads of the client and of the server run on, and so does a server_stop
\* that has begun; the users and the signals need not come.
Spec == 
    /\ Init /\ [][Next]_vars
    /\ WF_vars(ClientMain) /\ WF_vars(Receiver) /\ WF_vars(HandlerStops)
    /\ (\A k \in Serving : WF_vars(Connected /\ ThreadNext(k)))
    /\ WF_vars(Connected /\ KeepaliveScans) /\ WF_vars(Connected /\ StopClosesClients)

-----------------------------------------------------------------------------
\* The handler waits for the mutex of the thread that it interrupted.
HandlerDeadlock == interrupted \in Signalled /\ state_mutex = interrupted

\* main joins a receiving thread that waits for a message.
Joining == at.main = "join" /\ at.receive = "recv" /\ inbox = <<>>

OrphanMeddled == \E o \in Orphans : thread[o] # "elsewhere"

\* Who quits exits: the thread at the server that gets the STOP lets go of the
\* connection, even if the server shuts down or removes the client meanwhile.
\* Two things prevent it: the handler of the server waits for ever for the mutex, or
\* an orphan in the slot takes the STOP or closes the descriptor.
QuitterExits == 
    at.main = "quit" ~> \/ at.main = "exit" \/ HandlerDeadlock
                        \/ Joining /\ (stopping = "stuck" \/ OrphanMeddled)

\* The server says nothing more and keeps the connection, in whose recv its thread
\* sits: server_stop is stuck, or has closed the descriptor, or an orphan has.
Abandoned == 
    /\ Joining /\ ServerHolds
    /\ stopping = "stuck" \/ slot = "closed" \/ (slot = "removed" /\ OrphanMeddled)

\* Whoever leaves, by the end of his input or by a signal, exits: he tells nobody,
\* and the receiving thread that main joins is let out of its recv by the next ping,
\* unless the server has abandoned him.  That keepalive has removed him is no
\* reason: it pings first, and who is pinged gets out or answers.
LeaverExits == at.main = "cleanup" ~> at.main = "exit" \/ HandlerDeadlock \/ Abandoned

\* Whatever ends the connection or stops the client ends the program, but not
\* before the user has entered one more line, since main is in fgets.
EndIsNoticed == 
    ~ServerHolds \/ ~running ~> at.main \in {"exit", "fgets"} \/ HandlerDeadlock \/ Abandoned
=============================================================================
