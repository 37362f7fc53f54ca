------------------------------ MODULE MCUdpChat ------------------------------
(* TLC instance of UdpChat.                                                 *)
EXTENDS UdpChat

CONSTANTS a1, a2, alice, bob

ASSUME Reliable == ~Lossy

MCClientId == [c \in Addr |-> IF c = a1 THEN alice ELSE bob]
=============================================================================
