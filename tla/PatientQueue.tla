---------------------------- MODULE PatientQueue -----------------------------
(***************************************************************************)
(* The ring buffer of the clinic's waiting room, src/lab9/src/queue.c.     *)
(*                                                                         *)
(* queue.c:6 defines QUEUE_SIZE as CLINIC_QUEUE_SIZE + 1, without          *)
(* parentheses, so that x % QUEUE_SIZE means (x % CLINIC_QUEUE_SIZE) + 1.  *)
(* Every index computed from the initial 0 is therefore in                 *)
(* 1..CLINIC_QUEUE_SIZE, and an index moves two slots at a time.  The      *)
(* operators below are written with the expansion the compiler sees.       *)
(*                                                                         *)
(* Every operation runs under queue->mutex, so each is one action; the     *)
(* lock itself belongs to the module Hospital, which holds it across       *)
(* several steps.                                                          *)
(***************************************************************************)
EXTENDS Integers, Sequences

CONSTANTS CLINIC_QUEUE_SIZE,   \* common.h:20
          Patient,             \* the patients whose addresses are queued
          NULL                 \* the empty slot

ASSUME QueueAssumption == 
    /\ CLINIC_QUEUE_SIZE \in Nat \ {0}
    /\ NULL \notin Patient

VARIABLES head, tail, queue_array

queueVars == <<head, tail, queue_array>>

\* queue_array[CLINIC_QUEUE_SIZE+1]
Slots == 0 .. CLINIC_QUEUE_SIZE

\* Seeded faults, which the specification does not use: each breaks a property
\* and so shows that the property depends on the code the original models.
ModQueueSize_NoModulo(x) == x
ModQueueSize_Parenthesised(x) == x % (CLINIC_QUEUE_SIZE + 1)
queue_is_full_AtTail == head + 1 = tail
queue_count_Unbiased == ((tail - head + CLINIC_QUEUE_SIZE) % CLINIC_QUEUE_SIZE) + 1
queue_pop_SameHead == 
    /\ head # tail
    /\ queue_array' = [queue_array EXCEPT ![head] = NULL]
    /\ UNCHANGED <<head, tail>>

\* x % QUEUE_SIZE, for the x >= 0 the code computes.
ModQueueSize(x) == (x % CLINIC_QUEUE_SIZE) + 1

Advance(i) == ModQueueSize(i + 1)

queue_is_full == Advance(tail) = head

queue_is_empty == head = tail

queue_count == ModQueueSize(tail - head + CLINIC_QUEUE_SIZE + 1)

queue_init == 
    /\ head = 0
    /\ tail = 0
    /\ queue_array = [i \in Slots |-> NULL]

\* queue_add returns 0.
queue_add(p) == 
    /\ ~queue_is_full
    /\ queue_array' = [queue_array EXCEPT ![tail] = p]
    /\ tail' = Advance(tail)
    /\ UNCHANGED head

\* queue_add returns -1.
queue_add_refused == queue_is_full /\ UNCHANGED queueVars

\* queue_pop of a queue that is not empty; it returns queue_array[head].
queue_pop == 
    /\ ~queue_is_empty
    /\ queue_array' = [queue_array EXCEPT ![head] = NULL]
    /\ head' = Advance(head)
    /\ UNCHANGED tail

\* queue_pop returns NULL.
queue_pop_empty == queue_is_empty /\ UNCHANGED queueVars

clear_queue == 
    /\ head' = 0
    /\ tail' = 0
    /\ queue_array' = [i \in Slots |-> NULL]

QueueNext == 
    \/ \E p \in Patient : queue_add(p)
    \/ queue_add_refused
    \/ queue_pop
    \/ queue_pop_empty
    \/ clear_queue

QueueSpec == queue_init /\ [][QueueNext]_queueVars

-----------------------------------------------------------------------------
(***************************************************************************)
(* Derived notions.  IndexAfter[h][k] is the index k pops after h, and    *)
(* Window[h][t] are the slots popped when head goes from h to t.           *)
(***************************************************************************)
IndexAfter == 
    [h \in Slots |-> 
        LET index[k \in 0 .. CLINIC_QUEUE_SIZE] == IF k = 0 THEN h ELSE Advance(index[k - 1])
        IN  index]

Window == 
    [h \in Slots |-> [t \in Slots |-> 
        LET sizes == {k \in 0 .. CLINIC_QUEUE_SIZE : 
                        /\ IndexAfter[h][k] = t
                        /\ \A j \in 0 .. k - 1 : IndexAfter[h][j] # t}
        IN  IF sizes = {} THEN <<>>
            ELSE [k \in 1 .. (CHOOSE k \in sizes : TRUE) |-> IndexAfter[h][k - 1]]]]

\* The patients who will be popped, in that order.
Waiting == [k \in DOMAIN Window[head][tail] |-> queue_array[Window[head][tail][k]]]

\* Advance by two modulo an even size runs through every second slot only.
IndexCycle == 
    IF CLINIC_QUEUE_SIZE % 2 = 1 THEN CLINIC_QUEUE_SIZE ELSE CLINIC_QUEUE_SIZE \div 2

-----------------------------------------------------------------------------
(***************************************************************************)
(* Properties.                                                             *)
(***************************************************************************)

\* Memory safety: whatever is added and popped, both indices stay inside
\* queue_array[CLINIC_QUEUE_SIZE+1] although the modulus is not its length.
QueueTypeOK == 
    /\ head \in Slots
    /\ tail \in Slots
    /\ queue_array \in [Slots -> Patient \cup {NULL}]

\* queue_count does not return the number of waiting patients n but
\* (2n + 1) % CLINIC_QUEUE_SIZE + 1: 2, 1, 3 for n = 0, 1, 2 in the clinic.
CountOfWaiting == 
    queue_count = ModQueueSize(2 * Len(Waiting) + 1)

\* The value that wakes the doctor, queue_count = CLINIC_QUEUE_SIZE, is
\* returned exactly when the queue is full, once a patient has been popped.
\* Before that the queue is never full and the value comes and goes.
FullIsCounted == 
    IF head # 0 THEN queue_count = CLINIC_QUEUE_SIZE <=> queue_is_full
                ELSE ~queue_is_full

Room == INSTANCE WaitingRoom WITH room <- Waiting, opened <- head # 0, Cycle <- IndexCycle

\* The ring buffer implements the waiting room: a FIFO that, once a patient
\* has been popped, loses and reorders nobody, and that before the first pop
\* overwrites its slots instead of refusing (queue_is_full cannot hold).
ImplementsWaitingRoom == Room!RoomSpec
=============================================================================
