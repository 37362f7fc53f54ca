----------------------------- MODULE WaitingRoom -----------------------------
(***************************************************************************)
(* What the clinic's patient queue promises to its users (lab9).  The      *)
(* waiting room is a sequence of patients.  Until the doctor has taken the *)
(* first patient nobody is refused, and a patient who enters a room that   *)
(* holds Cycle patients makes it wrap around: only the patient at its head *)
(* can still be reached.  From the first Leave on it is a FIFO of          *)
(* Cycle - 1 places that loses nobody.                                     *)
(***************************************************************************)
EXTENDS Naturals, Sequences

CONSTANTS Patient,  \* the patients
          Cycle     \* length of the cycle the queue's indices run through

VARIABLES room,     \* the patients that will be popped, in that order
          opened    \* a patient has been popped since the queue was reset

roomVars == <<room, opened>>

RoomInit == room = <<>> /\ opened = FALSE

\* A patient finds a free place.
Enter(p) == 
    /\ Len(room) < (IF opened THEN Cycle - 1 ELSE Cycle)
    /\ room' = Append(room, p)
    /\ UNCHANGED opened

\* A patient enters the full, never served room: it and all but the head are lost.
Wrap == 
    /\ ~opened
    /\ Len(room) = Cycle
    /\ room' = <<Head(room)>>
    /\ UNCHANGED opened

Leave == 
    /\ room # <<>>
    /\ room' = Tail(room)
    /\ opened' = TRUE

Clear == room' = <<>> /\ opened' = FALSE

RoomNext == 
    \/ \E p \in Patient : Enter(p)
    \/ Wrap
    \/ Leave
    \/ Clear

RoomSpec == RoomInit /\ [][RoomNext]_roomVars
=============================================================================
