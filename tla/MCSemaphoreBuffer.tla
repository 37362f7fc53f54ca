-------------------------- MODULE MCSemaphoreBuffer --------------------------
(* TLC instance of SemaphoreBuffer.                                         *)
EXTENDS SemaphoreBuffer
=============================================================================
