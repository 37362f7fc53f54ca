------------------------------ MODULE MCHospital ------------------------------
(* TLC instance of Hospital: a few patients and pharmacists.                *)
EXTENDS HospitalProperties, TLC

\* clinic_init leaves medicine_status open and only pharmacists read it: where
\* there are none, one of its values stands for both.
StatusUnread == Pharmacist = {} => medicine_status = "RECEIVED"

Symmetry == Permutations(Patient) \cup Permutations(Pharmacist)
=============================================================================
