----------------------------- MODULE MCCondStack -----------------------------
(* TLC instance of CondStack.                                               *)
EXTENDS CondStack
=============================================================================
