----------------------------- MODULE PrintRing ------------------------------
(***************************************************************************)
(* The print queue of lab7, without its semaphores: clients copy jobs into *)
(* a ring in shared memory and printers copy them out, each in several     *)
(* steps (load the index, copy, read the index, write the index) that      *)
(* nothing makes atomic.  PrintQueuePosix says who may take these steps.   *)
(***************************************************************************)
EXTENDS Integers, FiniteSets

CONSTANTS Clients, Printers,   \* the processes forked by the two programs
          MAX_MESSAGES,        \* slots of the ring
          MAX_JOBS             \* bound: the jobs that are sent

ASSUME RingAssumption == 
    /\ MAX_MESSAGES \in Nat \ {0} /\ MAX_JOBS \in Nat
    /\ Clients \cap Printers = {}

VARIABLES jobs, in, out,   \* the shared memory
          index,           \* the index that a process has read, until it is done with it
          filled, taken,   \* history: how many jobs were copied in and out
          misprinted,      \* history: a printer took a job out of its turn
          disturbed,       \* history: two processes were at one index together, or one
                           \* acted on an index that was no longer current
          pc

ringVars == <<jobs, in, out, index, filled, taken, misprinted, disturbed>>

Slots == 0..MAX_MESSAGES - 1
\* Jobs are numbered as they are copied in; 0 is a slot that was never filled.
Job == 0..MAX_JOBS

RingInit == 
    /\ jobs = [s \in Slots |-> 0] /\ in = 0 /\ out = 0
    /\ index = [p \in Clients \cup Printers |-> 0]
    /\ filled = 0 /\ taken = 0
    /\ misprinted = FALSE /\ disturbed = FALSE

Goes(p, label) == pc' = [pc EXCEPT ![p] = label]
At(p, labels) == pc[p] \in labels

\* Someone else of the group has come to the index and not yet advanced it.
BetweenSteps(p, group) == \E q \in group \ {p} : At(q, {"fill", "read", "write"})

\* strcpy(jobs[in], doc) loads `in', and then writes to the slot it has found.
LoadsIn(c) == 
    /\ At(c, {"copy"})
    /\ Goes(c, "fill")
    /\ index' = [index EXCEPT ![c] = in]
    /\ disturbed' = (disturbed \/ BetweenSteps(c, Clients))
    /\ UNCHANGED <<jobs, in, out, filled, taken, misprinted>>

CopiesIn(c) == 
    /\ At(c, {"fill"})
    /\ Goes(c, "read")
    /\ filled' = filled + 1
    /\ jobs' = [jobs EXCEPT ![index[c]] = filled']
    /\ UNCHANGED <<in, out, index, taken, misprinted, disturbed>>

ReadsIn(c) == 
    /\ At(c, {"read"})
    /\ Goes(c, "write")
    /\ index' = [index EXCEPT ![c] = in]
    /\ UNCHANGED <<jobs, in, out, filled, taken, misprinted, disturbed>>

WritesIn(c, label) == 
    /\ At(c, {"write"})
    /\ Goes(c, label)
    /\ in' = (index[c] + 1) % MAX_MESSAGES
    /\ index' = [index EXCEPT ![c] = 0]
    /\ UNCHANGED <<jobs, out, filled, taken, misprinted, disturbed>>

\* Here `out' is loaded and the job copied in one step: whoever could advance
\* `out' in between has disturbed the queue when it came to the index.
CopiesOut(p) == 
    /\ At(p, {"copy"})
    /\ Goes(p, "read")
    /\ taken' = taken + 1
    /\ misprinted' = (misprinted \/ jobs[out] # taken')
    /\ disturbed' = (disturbed \/ BetweenSteps(p, Printers))
    /\ UNCHANGED <<jobs, in, out, index, filled>>

ReadsOut(p) == 
    /\ At(p, {"read"})
    /\ Goes(p, "write")
    /\ index' = [index EXCEPT ![p] = out]
    /\ UNCHANGED <<jobs, in, out, filled, taken, misprinted, disturbed>>

\* Seeded faults, here and before other definitions, are not used.
WritesOut_Fault(p, label) == 
    /\ At(p, {"write"})
    /\ Goes(p, label)
    /\ out' = index[p]
    /\ index' = [index EXCEPT ![p] = 0]
    /\ UNCHANGED <<jobs, in, filled, taken, misprinted, disturbed>>

WritesOut(p, label) == 
    /\ At(p, {"write"})
    /\ Goes(p, label)
    /\ out' = (index[p] + 1) % MAX_MESSAGES
    /\ index' = [index EXCEPT ![p] = 0]
    /\ UNCHANGED <<jobs, in, filled, taken, misprinted, disturbed>>

-----------------------------------------------------------------------------
RingTypeOK == 
    /\ jobs \in [Slots -> Job] /\ in \in Slots /\ out \in Slots
    /\ index \in [Clients \cup Printers -> Slots]
    /\ filled \in Job /\ taken \in Nat
    /\ misprinted \in BOOLEAN /\ disturbed \in BOOLEAN
=============================================================================
