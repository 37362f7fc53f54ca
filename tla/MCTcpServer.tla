----------------------------- MODULE MCTcpServer -----------------------------
(* TLC instance of TcpServerProperties.                                     *)
EXTENDS TcpServerProperties, TLC

CONSTANTS c1, c2, alice, bob, digit

Symmetry == {f @@ g @@ digit :> digit : f \in Permutations(Conn), g \in Permutations(Id \ Invalid)}
=============================================================================
