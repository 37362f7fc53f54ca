-------------------------- MODULE PrintQueuePosix ---------------------------
(***************************************************************************)
(* lab7 with POSIX shared memory: printers_posix.c and clients_posix.c.    *)
(* One semaphore counts the free slots; that there is a job is seen only   *)
(* from in # out, which printers poll.  `printing' and `sending' are the   *)
(* parents that fork the printers and the clients.                         *)
(***************************************************************************)
EXTENDS PrintRing

CONSTANT MAX_PRINTS   \* bound: the jobs that are printed

ASSUME PosixAssumption == 
    /\ MAX_PRINTS \in Nat
    /\ {"printing", "sending"} \cap (Clients \cup Printers) = {}

VARIABLES sem,      \* free slots, or slots whose job is not printed yet
          names     \* the names of the shared objects exist

vars == <<ringVars, sem, names, pc>>

Parents == {"printing", "sending"}

Init == 
    /\ RingInit
    /\ sem = MAX_MESSAGES
    /\ names = FALSE
    /\ pc = [p \in Clients \cup Printers \cup Parents |-> IF p \in Parents THEN "start" ELSE "unborn"]

\* The program of the printers creates the shared objects and forks.
PrintersStart == 
    /\ At("printing", {"start"})
    /\ names' = TRUE
    /\ pc' = [p \in DOMAIN pc |-> IF p \in Printers THEN "born" 
                                   ELSE IF p = "printing" THEN "wait" ELSE pc[p]]
    /\ UNCHANGED <<ringVars, sem>>

\* The program of the clients opens them, and fails where they do not exist.
ClientsStart == 
    /\ At("sending", {"start"})
    /\ \/ names /\ pc' = [p \in DOMAIN pc |-> IF p \in Clients THEN "idle"
                                               ELSE IF p = "sending" THEN "wait" ELSE pc[p]]
       \/ ~names /\ Goes("sending", "ended")
    /\ UNCHANGED <<ringVars, sem, names>>

-----------------------------------------------------------------------------
\* sem_wait, while there are jobs left to send.
ClientWaits(c) == 
    /\ At(c, {"idle"})
    /\ filled + Cardinality({d \in Clients : At(d, {"copy", "fill"})}) < MAX_JOBS
    /\ sem > 0
    /\ sem' = sem - 1
    /\ Goes(c, "copy")
    /\ UNCHANGED <<ringVars, names>>

ClientFills(c) == 
    /\ LoadsIn(c) \/ CopiesIn(c) \/ ReadsIn(c) \/ WritesIn(c, "idle")
    /\ UNCHANGED <<sem, names>>

-----------------------------------------------------------------------------
\* A child sets the handlers back to the default of the signal.
PrinterUnregisters(p) == 
    /\ At(p, {"born"})
    /\ Goes(p, "poll")
    /\ UNCHANGED <<ringVars, sem, names>>

\* The test of `out' and `in' are two loads of shared memory, in the order in
\* which gcc makes them.
PrinterLoadsOut(p) == 
    /\ At(p, {"poll"}) /\ taken < MAX_PRINTS
    /\ Goes(p, "test")
    /\ index' = [index EXCEPT ![p] = out]
    /\ UNCHANGED <<jobs, in, out, filled, taken, misprinted, disturbed, sem, names>>

\* Another printer may have passed the test for the same job, or have taken it
\* since `out' was loaded, in which case there may be none.
PrinterTests(p) == 
    /\ At(p, {"test"})
    /\ \/ /\ index[p] # in
          /\ Goes(p, "copy")
          /\ disturbed' = \/ disturbed \/ out = in
                          \/ \E q \in Printers \ {p} : At(q, {"copy", "read", "write"})
       \/ /\ index[p] = in
          /\ Goes(p, "poll")
          /\ UNCHANGED disturbed
    /\ index' = [index EXCEPT ![p] = 0]
    /\ UNCHANGED <<jobs, in, out, filled, taken, misprinted, sem, names>>

PrinterTakes(p) == 
    /\ CopiesOut(p) \/ ReadsOut(p) \/ WritesOut(p, "print")
    /\ UNCHANGED <<sem, names>>

PrinterPosts_Fault(p) == 
    /\ At(p, {"print"})
    /\ Goes(p, "poll")
    /\ UNCHANGED <<ringVars, sem, names>>

\* sem_post, after the job has been printed.
PrinterPosts(p) == 
    /\ At(p, {"print"})
    /\ sem' = sem + 1
    /\ Goes(p, "poll")
    /\ UNCHANGED <<ringVars, names>>

-----------------------------------------------------------------------------
\* SIGINT or SIGTERM ends a client in its handler and a printer where it is;
\* a printer that has not unregistered the handlers yet unlinks the names.
Killed(p) == 
    /\ p \in Clients \cup Printers /\ ~At(p, {"unborn", "ended"})
    /\ Goes(p, "ended")
    /\ names' = (names /\ ~At(p, {"born"}))
    /\ disturbed' = (disturbed \/ At(p, {"copy", "fill", "read", "write", "print"}))
    /\ index' = [index EXCEPT ![p] = 0]
    /\ UNCHANGED <<jobs, in, out, filled, taken, misprinted, sem>>

\* The signal ends the parent of the clients.  That of the printers first waits
\* for its children; a second signal finds the default again, and ends it.
ParentKilled(p) == 
    /\ \/ p = "sending" /\ At(p, {"wait"}) /\ Goes(p, "ended")
       \/ p = "printing" /\ At(p, {"wait"}) /\ Goes(p, "cleanup")
       \/ p = "printing" /\ At(p, {"cleanup"}) /\ Goes(p, "killed")
    /\ UNCHANGED <<ringVars, sem, names>>

ClientsParentEnds == 
    /\ At("sending", {"wait"}) /\ \A c \in Clients : At(c, {"ended"})
    /\ Goes("sending", "ended")
    /\ UNCHANGED <<ringVars, sem, names>>

PrintersParentEnds == 
    /\ At("printing", {"wait", "cleanup"}) /\ \A p \in Printers : At(p, {"ended"})
    /\ names' = FALSE
    /\ Goes("printing", "ended")
    /\ UNCHANGED <<ringVars, sem>>

ProcessActs == 
    \/ PrintersStart \/ ClientsStart \/ ClientsParentEnds \/ PrintersParentEnds
    \/ \E c \in Clients : ClientWaits(c) \/ ClientFills(c)
    \/ \E p \in Printers : 
         \/ PrinterUnregisters(p) \/ PrinterLoadsOut(p) \/ PrinterTests(p) 
         \/ PrinterTakes(p) \/ PrinterPosts(p)

Next == ProcessActs \/ \E p \in DOMAIN pc : Killed(p) \/ ParentKilled(p)

Spec == Init /\ [][Next]_vars

\* The scheduler runs every process; the semaphore serves a client in the end.
FairSpec == 
    /\ Spec
    /\ WF_vars(PrintersStart) /\ WF_vars(ClientsStart)
    /\ WF_vars(ClientsParentEnds) /\ WF_vars(PrintersParentEnds)
    /\ \A c \in Clients : SF_vars(ClientWaits(c)) /\ WF_vars(ClientFills(c))
    /\ \A p \in Printers : 
         /\ WF_vars(PrinterUnregisters(p)) /\ WF_vars(PrinterLoadsOut(p)) 
         /\ WF_vars(PrinterTests(p)) /\ WF_vars(PrinterTakes(p)) /\ WF_vars(PrinterPosts(p))

-----------------------------------------------------------------------------
TypeOK == 
    /\ RingTypeOK
    /\ sem \in Nat
    /\ names \in BOOLEAN
    /\ \A p \in Clients : At(p, {"unborn", "idle", "copy", "fill", "read", "write", "ended"})
    /\ \A p \in Printers : 
         At(p, {"unborn", "born", "poll", "test", "copy", "read", "write", "print", "ended"})
    /\ At("sending", {"start", "wait", "ended"})
    /\ At("printing", {"start", "wait", "cleanup", "ended", "killed"})

\* The queue is a FIFO as long as no two clients, and no two printers, are at
\* their index together, no printer passes the test with an outdated `out' while
\* in = out, and nobody is killed at work: the jobs are printed once each, in the
\* order in which they were sent, and none is overwritten before.
FifoUnlessDisturbed == 
    /\ TypeOK
    /\ ~disturbed => ~misprinted /\ taken <= filled /\ filled <= taken + MAX_MESSAGES

Resting == /\ \A c \in Clients : At(c, {"unborn", "idle", "ended"})
           /\ \A p \in Printers : At(p, {"unborn", "born", "poll", "test", "ended"})

\* Nobody can fill or take a job: no slot is free and the ring looks empty, to
\* the printers that are testing it as well.
Stalled == /\ sem = 0 /\ in = out /\ Resting
           /\ \A p \in Printers : At(p, {"test"}) => index[p] = out

\* When nobody is at work and in = out, the queue is empty and all slots are
\* free, or all of its slots hold unprinted jobs, which no printer will see.
EmptyOrFull == 
    ~disturbed /\ Resting /\ in = out
        => \/ filled = taken /\ sem = MAX_MESSAGES
           \/ filled = taken + MAX_MESSAGES /\ sem = 0

\* Every job is printed, unless the queue was once full with no printer at
\* work, the queue was disturbed, or all printers were killed.
JobsArePrinted == 
    \A n \in 1..MAX_JOBS : 
        filled >= n 
            ~> taken >= n \/ Stalled \/ disturbed \/ \A p \in Printers : At(p, {"ended"})
=============================================================================
