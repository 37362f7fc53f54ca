----------------------------- MODULE MCUdpServer -----------------------------
(* TLC instance of UdpServerAlone.                                          *)
EXTENDS UdpServerAlone
=============================================================================
