----------------------------- MODULE MCTcpClient -----------------------------
(* TLC instance of TcpChatClient.                                           *)
EXTENDS TcpChatClient

\* An orphan meddles only with a client that gets no signal, at a server that is
\* not stopped.
OneTrouble == OrphanMeddled => interrupted = "not" /\ stopping = "not"
=============================================================================
