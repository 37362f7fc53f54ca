-------------------------- MODULE MCPrintQueuePosix --------------------------
(* TLC instance of PrintQueuePosix.                                         *)
EXTENDS PrintQueuePosix

\* Bound: what follows a disturbance, which lasts and of which no property
\* says anything, is not explored.
NotYetDisturbed == ~disturbed
=============================================================================
