---------------------------- MODULE UdpChatClient ----------------------------
(***************************************************************************)
(* The chat clients over UDP: lab11/src/client.c, a process for each       *)
(* element of Addr.                                                        *)
(*                                                                         *)
(* main reads commands, a second thread receives; a signal runs            *)
(* signal_handler on one of them.  The builds take signal() of System V:   *)
(* it interrupts recvfrom and fgets, and only a call that has begun.       *)
(* send_mutex is held for one sendto, which does not block: sending is one *)
(* step.  state_mutex is not recursive, and the handler locks it as well.  *)
(***************************************************************************)
EXTENDS Datagrams

CONSTANTS ClientId,        \* the identifier each client was started with
          Commands,        \* what the users enter
          Signalled        \* the threads that a signal may interrupt

ASSUME ClientAssumption == 
    /\ ClientId \in [Addr -> Id \ Invalid]     \* client_init refuses the others
    /\ Commands \subseteq {"list", "2all", "2one", "quit", "help", "EOF"}
    /\ Signalled \subseteq {"main", "receive"}

VARIABLES running,         \* is_running
          socket,          \* whether server_socket is open, and not -1
          state_mutex,     \* the thread that has it, or "free"
          at,              \* where both threads are
          todo,            \* the command being handled, or whether to answer
          interrupted      \* the thread that runs signal_handler, "not" before, "nobody" after

clientVars == <<running, socket, state_mutex, at, todo, interrupted>>

ClientInit == 
    /\ running = [c \in Addr |-> FALSE]
    /\ socket = [c \in Addr |-> FALSE]
    /\ state_mutex = [c \in Addr |-> "free"]
    /\ at = [c \in Addr |-> [main |-> "start", receive |-> "none"]]
    /\ todo = [c \in Addr |-> "nothing"]
    /\ interrupted = [c \in Addr |-> "not"]

Moves(c, t, from, to) == 
    /\ at[c][t] = from /\ interrupted[c] # t
    /\ at' = [at EXCEPT ![c][t] = to]

\* send_message_protocol
ClientSends(c, type, recipient) == 
    Send(IF socket[c] THEN {ToServer(c, type, ClientId[c], recipient)} ELSE {})

-----------------------------------------------------------------------------
(***************************************************************************)
(* client_stop, from main and from the receiving thread.                   *)
(***************************************************************************)
StopLocks(c, t, from, to) == 
    /\ Moves(c, t, from, to)
    /\ state_mutex[c] = "free"
    /\ state_mutex' = [state_mutex EXCEPT ![c] = t]
    /\ UNCHANGED <<running, socket, todo, interrupted, net>>

\* A seeded fault, not used.
StopUnlocks_Running(c, t, from, to) == 
    /\ Moves(c, t, from, to)
    /\ state_mutex' = [state_mutex EXCEPT ![c] = "free"]
    /\ UNCHANGED <<running, socket, todo, interrupted, net>>

StopUnlocks(c, t, from, to) == 
    /\ Moves(c, t, from, to)
    /\ running' = [running EXCEPT ![c] = FALSE]
    /\ state_mutex' = [state_mutex EXCEPT ![c] = "free"]
    /\ UNCHANGED <<socket, todo, interrupted, net>>

-----------------------------------------------------------------------------
(***************************************************************************)
(* main: client_connect, client_start, client_run_interactive and          *)
(* client_cleanup.                                                         *)
(***************************************************************************)

\* client_connect registers with a LIST; client_start creates the thread.
Connects(c) == 
    /\ at[c].main = "start"
    /\ at' = [at EXCEPT ![c] = [main |-> "prompt", receive |-> "loop"]]
    /\ socket' = [socket EXCEPT ![c] = TRUE]
    /\ running' = [running EXCEPT ![c] = TRUE]
    /\ Send({ToServer(c, "LIST", ClientId[c], NoId)})
    /\ UNCHANGED <<state_mutex, todo, interrupted>>

Prompts(c) == 
    /\ Moves(c, "main", "prompt", IF running[c] THEN "ask" ELSE "cleanup")
    /\ UNCHANGED <<running, socket, state_mutex, todo, interrupted, net>>

CallsFgets(c) == 
    /\ Moves(c, "main", "ask", "fgets")
    /\ UNCHANGED <<running, socket, state_mutex, todo, interrupted, net>>

\* fgets returns, even when the client has stopped meanwhile.
Enters(c, command) == 
    /\ Moves(c, "main", "fgets", CASE command = "EOF" -> "cleanup" 
                                   [] command = "help" -> "prompt"
                                   [] OTHER -> "send")
    /\ todo' = [todo EXCEPT ![c] = IF command \in {"EOF", "help"} THEN "nothing" ELSE command]
    /\ UNCHANGED <<running, socket, state_mutex, interrupted, net>>

MessageFor(command) == CASE command = "list" -> "LIST" [] command = "2all" -> "2ALL"
                         [] command = "2one" -> "2ONE" [] command = "quit" -> "STOP"

\* handle_user_input
SendsCommand(c) == 
    /\ Moves(c, "main", "send", IF todo[c] = "quit" THEN "quit" ELSE "prompt")
    /\ todo' = [todo EXCEPT ![c] = "nothing"]
    /\ \E id \in IF todo[c] = "2one" THEN Id ELSE {NoId} : ClientSends(c, MessageFor(todo[c]), id)
    /\ UNCHANGED <<running, socket, state_mutex, interrupted>>

\* client_disconnect; the receiving thread may be in recvfrom on this socket.
Closes(c) == 
    /\ Moves(c, "main", "close", "join")
    /\ socket' = [socket EXCEPT ![c] = FALSE]
    /\ UNCHANGED <<running, state_mutex, todo, interrupted, net>>

Joins(c) == 
    /\ at[c].receive = "done"
    /\ Moves(c, "main", "join", "exit")
    /\ UNCHANGED <<running, socket, state_mutex, todo, interrupted, net>>

ClientMain(c) == 
    \/ Connects(c) \/ Prompts(c) \/ CallsFgets(c) \/ SendsCommand(c)
    \/ StopLocks(c, "main", "quit", "quitting") \/ StopUnlocks(c, "main", "quitting", "prompt")
    \/ StopLocks(c, "main", "cleanup", "cleaning") \/ StopUnlocks(c, "main", "cleaning", "close")
    \/ Closes(c) \/ Joins(c)

User(c) == \E command \in Commands : Enters(c, command)

-----------------------------------------------------------------------------
(***************************************************************************)
(* client_receive_messages.                                                *)
(***************************************************************************)
ReceiverLoops(c) == 
    /\ Moves(c, "receive", "loop", IF running[c] THEN "call" ELSE "done")
    /\ UNCHANGED <<running, socket, state_mutex, todo, interrupted, net>>

\* recvfrom fails when main has closed the socket.
CallsRecvfrom(c) == 
    /\ Moves(c, "receive", "call", IF socket[c] THEN "recv" ELSE "stop")
    /\ UNCHANGED <<running, socket, state_mutex, todo, interrupted, net>>

\* handle_received_message: all but ALIVE is displayed, and STOP said to be unknown.
ClientReceives(c, m) == 
    /\ m.to = c
    /\ Moves(c, "receive", "recv", IF m.type = "ALIVE" THEN "answer" ELSE "loop")
    /\ Receive(m)
    /\ UNCHANGED <<running, socket, state_mutex, todo, interrupted>>

\* client_send_alive_response
Answers(c) == 
    /\ Moves(c, "receive", "answer", "loop")
    /\ ClientSends(c, "ALIVE_RESPONSE", NoId)
    /\ UNCHANGED <<running, socket, state_mutex, todo, interrupted>>

Receiver(c) == 
    \/ ReceiverLoops(c) \/ CallsRecvfrom(c) \/ (\E m \in net : ClientReceives(c, m)) \/ Answers(c)
    \/ StopLocks(c, "receive", "stop", "stopping") \/ StopUnlocks(c, "receive", "stopping", "done")

-----------------------------------------------------------------------------
(***************************************************************************)
(* signal_handler writes a byte into the pipe and calls client_stop.       *)
(***************************************************************************)
ClientSignal(c, t) == 
    /\ interrupted[c] = "not"
    /\ at[c].main \notin {"start", "exit"} /\ at[c][t] # "done"
    /\ interrupted' = [interrupted EXCEPT ![c] = t]
    /\ UNCHANGED <<running, socket, state_mutex, at, todo, net>>

\* The call that was interrupted returns: fgets to check_signal, which finds the
\* byte, recvfrom with EINTR to the loop.
HandlerStops(c) == 
    /\ interrupted[c] \in {"main", "receive"} /\ state_mutex[c] = "free"
    /\ running' = [running EXCEPT ![c] = FALSE]
    /\ interrupted' = [interrupted EXCEPT ![c] = "nobody"]
    /\ at' = [at EXCEPT ![c] = 
                [main |-> IF interrupted[c] = "main" /\ @.main = "fgets" THEN "cleanup" ELSE @.main,
                 receive |-> IF interrupted[c] = "receive" /\ @.receive = "recv" THEN "loop" ELSE @.receive]]
    /\ UNCHANGED <<socket, state_mutex, todo, net>>
=============================================================================
