--------------------------- MODULE MCPatientQueue ----------------------------
(* TLC instance of PatientQueue.                                            *)
EXTENDS PatientQueue
=============================================================================
