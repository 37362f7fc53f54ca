-------------------------- MODULE MCCondRingBuffer ---------------------------
(* TLC instance of CondRingBuffer.                                          *)
EXTENDS CondRingBuffer
=============================================================================
