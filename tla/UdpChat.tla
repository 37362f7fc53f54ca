------------------------------- MODULE UdpChat -------------------------------
(***************************************************************************)
(* The server and the clients of lab11 together, on a network that loses   *)
(* nothing and is quick: a second passes only when no datagram is on its   *)
(* way and nobody has one to handle.  What goes wrong here is not for the  *)
(* network to answer for.                                                  *)
(***************************************************************************)
EXTENDS UdpChatServer, UdpChatClient

chatVars == <<serverVars, clientVars, net>>

ChatInit == ServerInit /\ ClientInit /\ net = {}

Deaf == ~opened /\ pc["main"] # "recv"
Unheard(c) == ~socket[c] /\ at[c].receive # "recv"

\* A datagram for a socket that nobody has open any more.
Vanishes == 
    /\ \E m \in net : /\ IF m.to = "server" THEN Deaf ELSE Unheard(m.to)
                      /\ net' = net \ {m}
    /\ UNCHANGED <<serverVars, clientVars>>

\* The handler waits for the mutex of the thread that it interrupted.
HandlerDeadlock(c) == interrupted[c] \in {"main", "receive"} /\ state_mutex[c] = interrupted[c]

Quiet == 
    /\ net = {}
    /\ Deaf \/ pc["main"] = "recv"
    /\ \A c \in Addr : 
         \/ at[c].receive \in {"none", "recv", "done"} /\ at[c].main \in {"start", "fgets", "join", "exit"}
         \/ HandlerDeadlock(c)

ServerSteps == (MainNext \/ KeepaliveNext \/ (Quiet /\ Tick)) /\ UNCHANGED clientVars

ChatNext == 
    \/ ServerSteps
    \/ (\E c \in Addr : ClientMain(c) \/ Receiver(c) \/ User(c) \/ HandlerStops(c)) /\ UNCHANGED serverVars
    \/ (\E c \in Addr, t \in Signalled : ClientSignal(c, t)) /\ UNCHANGED serverVars
    \/ Vanishes

ChatSpec == 
    /\ ChatInit /\ [][ChatNext]_chatVars
    /\ WF_chatVars(MainNext /\ UNCHANGED clientVars) 
    /\ WF_chatVars(KeepaliveNext /\ UNCHANGED clientVars) 
    /\ WF_chatVars(Quiet /\ Tick /\ UNCHANGED clientVars)
    /\ \A c \in Addr : /\ WF_chatVars(ClientMain(c) /\ UNCHANGED serverVars) 
                       /\ WF_chatVars(Receiver(c) /\ UNCHANGED serverVars)
                       /\ WF_chatVars(HandlerStops(c) /\ UNCHANGED serverVars)
    /\ WF_chatVars(Vanishes)

-----------------------------------------------------------------------------
Registered(c) == \E i \in Active : clients[i].addr = c /\ clients[i].client_id = ClientId[c]

\* A client that ends without a STOP, by EOF or a signal, is found out by keepalive.
EofIsNoticed == \A c \in Addr : at[c].main = "join" ~> ~Registered(c)

\* A quitter is bidden goodbye, and may have received that before it has stopped
\* running: it then waits in join for a second datagram, from a server that its
\* own STOP has made deaf, for ever.  A signal may also leave client_stop waiting
\* for its own thread.
QuitterMayHang == 
    \A c \in Addr : at[c].main = "quit" 
        ~> \/ at[c].main = "exit" 
           \/ []HandlerDeadlock(c)
           \/ [](at[c] = [main |-> "join", receive |-> "recv"] /\ Deaf)

\* The hang without a signal: nothing is left that the thread could receive.
Hangs(c) == 
    /\ at[c] = [main |-> "join", receive |-> "recv"] /\ interrupted[c] # "receive"
    /\ Deaf /\ \A m \in net : m.to # c
=============================================================================
