-------------------------- MODULE PrintQueueProofs ---------------------------
(***************************************************************************)
(* Proofs about the print queue over POSIX shared memory, for any number   *)
(* of clients, printers, slots and jobs.                                   *)
(***************************************************************************)
EXTENDS PrintQueuePosix, FiniteSetTheorems, TLAPS

-----------------------------------------------------------------------------
(***************************************************************************)
(* Remainders modulo the number of slots.  The provers do not divide by an *)
(* unknown number on their own: what they need is said here.               *)
(***************************************************************************)
LEMMA Division == 
    ASSUME NEW x \in Nat
    PROVE  /\ x = MAX_MESSAGES * (x \div MAX_MESSAGES) + (x % MAX_MESSAGES)
           /\ x % MAX_MESSAGES \in Slots
           /\ x \div MAX_MESSAGES \in Nat
BY RingAssumption DEF Slots

LEMMA Multiples == 
    ASSUME NEW a \in Int, NEW b \in Int, a > b
    PROVE  MAX_MESSAGES * a >= MAX_MESSAGES * b + MAX_MESSAGES
<1>1. MAX_MESSAGES * (a - b) >= MAX_MESSAGES
  BY RingAssumption
<1>2. QED
  BY <1>1, RingAssumption

\* Quotient and remainder are the only ones.
LEMMA DivisionUnique == 
    ASSUME NEW x \in Nat, NEW q \in Int, NEW r \in Slots, x = MAX_MESSAGES * q + r
    PROVE  x % MAX_MESSAGES = r
<1> DEFINE p == x \div MAX_MESSAGES
           s == x % MAX_MESSAGES
<1>1. MAX_MESSAGES * q + r = MAX_MESSAGES * p + s /\ s \in Slots /\ p \in Int
  BY Division
<1> HIDE DEF p, s
<1>2. q = p
  BY <1>1, Multiples, RingAssumption DEF Slots
<1>3. QED
  BY <1>1, <1>2, RingAssumption DEF s, Slots

\* One step of an index that has come to x modulo the number of slots.
LEMMA IndexNext == 
    ASSUME NEW x \in Nat, NEW i, i = x % MAX_MESSAGES
    PROVE  (i + 1) % MAX_MESSAGES = (x + 1) % MAX_MESSAGES
<1> DEFINE q == x \div MAX_MESSAGES
           s == (i + 1) % MAX_MESSAGES
           p == (i + 1) \div MAX_MESSAGES
<1>1. x = MAX_MESSAGES * q + i /\ q \in Nat /\ i \in Slots
  BY Division
<1>2. i + 1 \in Nat
  BY <1>1 DEF Slots
<1>3. i + 1 = MAX_MESSAGES * p + s /\ s \in Slots /\ p \in Nat
  BY <1>2, Division
<1> HIDE DEF q, s, p
<1>4. x + 1 = MAX_MESSAGES * (q + p) + s /\ q + p \in Int
  BY <1>1, <1>3, RingAssumption DEF Slots
<1>5. (x + 1) % MAX_MESSAGES = s
  BY <1>3, <1>4, DivisionUnique
<1>6. QED
  BY <1>5 DEF s

\* Less than a round apart is in different slots.
LEMMA SlotsDiffer == 
    ASSUME NEW a \in Nat, NEW b \in Nat, a < b, b < a + MAX_MESSAGES
    PROVE  a % MAX_MESSAGES # b % MAX_MESSAGES
<1> DEFINE p == a \div MAX_MESSAGES
           q == b \div MAX_MESSAGES
           r == a % MAX_MESSAGES
<1>1. SUFFICES ASSUME r = b % MAX_MESSAGES
               PROVE  FALSE
  OBVIOUS
<1>2. /\ a = MAX_MESSAGES * p + r /\ b = MAX_MESSAGES * q + r
      /\ p \in Int /\ q \in Int /\ r \in Int
  BY <1>1, Division DEF Slots
<1> HIDE DEF p, q, r
<1>3. CASE q > p
  BY <1>2, <1>3, Multiples, RingAssumption
<1>4. CASE p > q
  BY <1>2, <1>4, Multiples, RingAssumption
<1>5. CASE p = q
  BY <1>2, <1>5
<1>6. QED
  BY <1>2, <1>3, <1>4, <1>5

-----------------------------------------------------------------------------
(***************************************************************************)
(* The inductive invariant.                                                *)
(***************************************************************************)
Process == Clients \cup Printers \cup Parents

\* Clients that may fill a slot, those that have come to the index, and those
\* among them that have filled one.
Claiming == {c \in Clients : At(c, {"copy", "fill"})}
Placing == {c \in Clients : At(c, {"fill", "read", "write"})}
Filling == {c \in Clients : At(c, {"read", "write"})}

\* Printers that found a job, those that take it, and those that owe a sem_post.
Serving == {p \in Printers : At(p, {"copy", "read", "write"})}
Fetching == {p \in Printers : At(p, {"read", "write"})}
Owing == {p \in Printers : At(p, {"read", "write", "print"})}

\* The jobs that `in' and `out' have gone past.
Entered == IF Filling = {} THEN filled ELSE filled - 1
Passed == IF Fetching = {} THEN taken ELSE taken - 1

ProcessesOK == 
    /\ pc = [p \in Process |-> pc[p]]
    /\ At("printing", {"start"}) => \A p \in Printers : At(p, {"unborn"})
    /\ At("sending", {"start"}) => \A c \in Clients : At(c, {"unborn"})

\* No more jobs than the bound says.
JobsBounded == IsFiniteSet(Claiming) /\ filled + Cardinality(Claiming) <= MAX_JOBS

\* One at a time at each index.
OneEach == 
    /\ \A c, d \in Placing : c = d
    /\ \A p, q \in Serving : p = q

\* Both indices are where they are to be, or will be, and a job is seen no
\* earlier than the index says.
IndicesOK == 
    /\ Entered \in Nat /\ in = Entered % MAX_MESSAGES
    /\ Passed \in Nat /\ out = Passed % MAX_MESSAGES
    /\ \A c \in Clients : At(c, {"fill", "write"}) => index[c] = in
    /\ \A p \in Printers : At(p, {"write"}) => index[p] = out
    /\ taken <= Entered
    /\ \A p \in Printers : At(p, {"copy"}) => taken < Entered

\* Every slot is free, claimed, filled, or its job is being printed.
SlotsCounted == 
    /\ IsFiniteSet(Owing)
    /\ sem + Cardinality(Claiming) + (filled - taken) + Cardinality(Owing) = MAX_MESSAGES

\* The ring holds the jobs that are not taken.
JobsHeld == 
    /\ \A n \in taken + 1 .. filled : jobs[(n - 1) % MAX_MESSAGES] = n
    /\ ~misprinted

Undisturbed == OneEach /\ IndicesOK /\ SlotsCounted /\ JobsHeld

Inv == TypeOK /\ ProcessesOK /\ JobsBounded /\ (~disturbed => Undisturbed)

LEMMA InvInit == Init => Inv
<1> SUFFICES ASSUME Init PROVE Inv
  OBVIOUS
<1>1. /\ \A p \in Clients \cup Printers : pc[p] = "unborn"
      /\ \A p \in Parents : pc[p] = "start"
      /\ pc = [p \in Process |-> pc[p]]
  BY PosixAssumption DEF Init, Process, Parents
<1>2. TypeOK
  <2>1. 0 \in Slots /\ 0 \in Job
    BY RingAssumption DEF Slots, Job
  <2>2. RingTypeOK /\ sem \in Nat /\ names \in BOOLEAN
    BY <2>1, RingAssumption DEF Init, RingInit, RingTypeOK
  <2>3. QED
    BY <1>1, <2>2 DEF TypeOK, At, Parents
<1>3. ProcessesOK
  BY <1>1, RingAssumption DEF ProcessesOK, At
<1>4. Claiming = {} /\ Placing = {} /\ Filling = {} /\ Serving = {} /\ Fetching = {} /\ Owing = {}
  BY <1>1 DEF Claiming, Placing, Filling, Serving, Fetching, Owing, At
<1>5. Cardinality({}) = 0 /\ IsFiniteSet({})
  BY FS_EmptySet
<1>6. 0 % MAX_MESSAGES = 0
  BY RingAssumption
<1>7. filled = 0 /\ taken = 0 /\ in = 0 /\ out = 0 /\ ~misprinted /\ sem = MAX_MESSAGES
  BY DEF Init, RingInit
<1>8. JobsBounded /\ OneEach
  BY <1>4, <1>5, <1>7, RingAssumption DEF JobsBounded, OneEach
<1>9. IndicesOK
  BY <1>1, <1>4, <1>6, <1>7 DEF IndicesOK, Entered, Passed, At
<1>10. SlotsCounted /\ JobsHeld
  BY <1>4, <1>5, <1>7, RingAssumption DEF SlotsCounted, JobsHeld
<1>11. QED
  BY <1>2, <1>3, <1>8, <1>9, <1>10 DEF Inv, Undisturbed

-----------------------------------------------------------------------------
(***************************************************************************)
(* Who is where after a process has moved.                                 *)
(***************************************************************************)
LEMMA Moves == 
    ASSUME ProcessesOK, NEW p \in Process, NEW label, Goes(p, label)
    PROVE  /\ pc' = [q \in Process |-> pc'[q]]
           /\ \A q \in Process : pc'[q] = IF q = p THEN label ELSE pc[q]
BY DEF ProcessesOK, Goes

\* No process is both a client and a printer, or one of the parents.
LEMMA Kinds == 
    /\ \A c \in Clients : c \in Process /\ c \notin Printers /\ c # "printing" /\ c # "sending"
    /\ \A p \in Printers : p \in Process /\ p \notin Clients /\ p # "printing" /\ p # "sending"
    /\ "printing" \in Process /\ "sending" \in Process /\ "printing" # "sending"
BY RingAssumption, PosixAssumption DEF Process, Parents

Quiet == {"unborn", "idle", "born", "poll", "test", "ended"}

Groups == <<Claiming, Placing, Filling, Serving, Fetching, Owing>>

LEMMA GroupsUnchanged == 
    ASSUME \A p \in Clients \cup Printers : pc'[p] # pc[p] => 
             {pc[p], pc'[p]} \subseteq Quiet
    PROVE  UNCHANGED Groups
<1>1. \A p \in Clients \cup Printers : 
        /\ At(p, {"copy"})' <=> At(p, {"copy"})
        /\ At(p, {"copy", "fill"})' <=> At(p, {"copy", "fill"})
        /\ At(p, {"fill", "read", "write"})' <=> At(p, {"fill", "read", "write"})
        /\ At(p, {"read", "write"})' <=> At(p, {"read", "write"})
        /\ At(p, {"copy", "read", "write"})' <=> At(p, {"copy", "read", "write"})
        /\ At(p, {"read", "write", "print"})' <=> At(p, {"read", "write", "print"})
  BY DEF At, Quiet
<1>2. /\ Claiming' = Claiming /\ Placing' = Placing /\ Filling' = Filling 
      /\ Serving' = Serving /\ Fetching' = Fetching /\ Owing' = Owing
  BY <1>1 DEF Claiming, Placing, Filling, Serving, Fetching, Owing
<1>3. QED
  BY <1>2 DEF Groups

-----------------------------------------------------------------------------
(***************************************************************************)
(* Types and the bound of the jobs.                                        *)
(***************************************************************************)
LabelsOK == 
    /\ \A p \in Clients : At(p, {"unborn", "idle", "copy", "fill", "read", "write", "ended"})
    /\ \A p \in Printers : 
         At(p, {"unborn", "born", "poll", "test", "copy", "read", "write", "print", "ended"})
    /\ At("sending", {"start", "wait", "ended"})
    /\ At("printing", {"start", "wait", "cleanup", "ended", "killed"})

LEMMA LabelsStep == 
    ASSUME Inv, [Next]_vars
    PROVE  LabelsOK' /\ ProcessesOK'
<1>0. LabelsOK /\ ProcessesOK
  BY DEF Inv, TypeOK, LabelsOK
<1> USE <1>0, Kinds
<1>1. CASE PrintersStart
  <2>1. \A q \in Process : pc'[q] = IF q \in Printers THEN "born" ELSE IF q = "printing" THEN "wait" ELSE pc[q]
    BY <1>1 DEF PrintersStart, ProcessesOK
  <2>2. pc' = [q \in Process |-> pc'[q]]
    BY <1>1 DEF PrintersStart, ProcessesOK
  <2>3. QED
    BY <2>1, <2>2 DEF LabelsOK, ProcessesOK, At
<1>2. CASE ClientsStart /\ names
  <2>1. \A q \in Process : pc'[q] = IF q \in Clients THEN "idle" ELSE IF q = "sending" THEN "wait" ELSE pc[q]
    BY <1>2 DEF ClientsStart, ProcessesOK
  <2>2. pc' = [q \in Process |-> pc'[q]]
    BY <1>2 DEF ClientsStart, ProcessesOK
  <2>3. QED
    BY <2>1, <2>2 DEF LabelsOK, ProcessesOK, At
<1>3. CASE \/ (ClientsStart /\ ~names) \/ ClientsParentEnds
           \/ \E p \in DOMAIN pc : ParentKilled(p) /\ p = "sending"
  <2>1. Goes("sending", "ended")
    BY <1>3 DEF ClientsStart, ClientsParentEnds, ParentKilled
  <2>2. QED
    BY <2>1, Moves DEF LabelsOK, ProcessesOK, At
<1>4. CASE PrintersParentEnds \/ \E p \in DOMAIN pc : ParentKilled(p) /\ p = "printing"
  <2>1. PICK label \in {"cleanup", "killed", "ended"} : Goes("printing", label)
    BY <1>4 DEF PrintersParentEnds, ParentKilled
  <2>2. QED
    BY <2>1, Moves DEF LabelsOK, ProcessesOK, At
<1>5. ASSUME NEW c \in Clients, ClientWaits(c) \/ ClientFills(c) \/ Killed(c)
      PROVE  LabelsOK' /\ ProcessesOK'
  <2>1. /\ ~At(c, {"unborn"})
        /\ \E label \in {"idle", "copy", "fill", "read", "write", "ended"} : Goes(c, label)
    BY <1>5 DEF ClientWaits, ClientFills, Killed, LoadsIn, CopiesIn, ReadsIn, WritesIn, At
  <2>2. QED
    BY <2>1, Moves DEF LabelsOK, ProcessesOK, At
<1>6. ASSUME NEW p \in Printers, 
             \/ PrinterUnregisters(p) \/ PrinterLoadsOut(p) \/ PrinterTests(p) 
             \/ PrinterTakes(p) \/ PrinterPosts(p) \/ Killed(p)
      PROVE  LabelsOK' /\ ProcessesOK'
  <2>1. /\ ~At(p, {"unborn"})
        /\ \E label \in {"poll", "test", "copy", "read", "write", "print", "ended"} : Goes(p, label)
    BY <1>6 DEF PrinterUnregisters, PrinterLoadsOut, PrinterTests, PrinterTakes, PrinterPosts, Killed, 
       CopiesOut, ReadsOut, WritesOut, At
  <2>2. QED
    BY <2>1, Moves DEF LabelsOK, ProcessesOK, At
<1>7. CASE UNCHANGED vars
  BY <1>7 DEF vars, LabelsOK, ProcessesOK, At
<1>8. \A p : Killed(p) => p \in Clients \cup Printers
  BY DEF Killed
<1>9. \A p : ParentKilled(p) => p = "sending" \/ p = "printing"
  BY DEF ParentKilled
<1>10. QED
  BY <1>1, <1>2, <1>3, <1>4, <1>5, <1>6, <1>7, <1>8, <1>9 DEF Next, ProcessActs, ClientsStart

\* Steps that neither claim nor fill.
LEMMA ClaimsStep == 
    ASSUME Inv, [Next]_vars
    PROVE  JobsBounded' /\ filled' \in Job
<1> DEFINE n == Cardinality(Claiming)
<1>0. /\ IsFiniteSet(Claiming) /\ n \in Nat /\ filled \in Nat /\ filled + n <= MAX_JOBS
      /\ ProcessesOK /\ MAX_JOBS \in Nat
  BY FS_CardinalityType, RingAssumption DEF Inv, JobsBounded, TypeOK, RingTypeOK, Job
<1>1. SUFFICES IsFiniteSet(Claiming') /\ filled' \in Nat /\ filled' + Cardinality(Claiming') <= MAX_JOBS
  <2>1. Cardinality(Claiming') \in Nat
    BY <1>1, FS_CardinalityType
  <2>2. QED
    BY <1>0, <1>1, <2>1 DEF JobsBounded, Job
<1>2. ASSUME NEW c \in Clients, ClientWaits(c)
      PROVE  IsFiniteSet(Claiming') /\ filled' \in Nat /\ filled' + Cardinality(Claiming') <= MAX_JOBS
  <2>1. Claiming' = Claiming \cup {c}
    BY <1>0, <1>2, Moves, Kinds DEF ClientWaits, Claiming, At
  <2>2. filled' = filled /\ filled + n < MAX_JOBS
    BY <1>2 DEF ClientWaits, ringVars, Claiming
  <2>3. c \notin Claiming
    BY <1>2 DEF ClientWaits, Claiming, At
  <2>4. Cardinality(Claiming') = n + 1 /\ IsFiniteSet(Claiming')
    BY <1>0, <2>1, <2>3, FS_AddElement
  <2> HIDE DEF n
  <2>5. QED
    BY <1>0, <2>2, <2>4
<1>3. ASSUME NEW c \in Clients, CopiesIn(c)
      PROVE  IsFiniteSet(Claiming') /\ filled' \in Nat /\ filled' + Cardinality(Claiming') <= MAX_JOBS
  <2>1. Claiming' = Claiming \ {c} /\ c \in Claiming
    BY <1>0, <1>3, Moves, Kinds DEF CopiesIn, Claiming, At
  <2>2. filled' = filled + 1
    BY <1>3 DEF CopiesIn
  <2>3. Cardinality(Claiming') = n - 1 /\ IsFiniteSet(Claiming')
    BY <1>0, <2>1, FS_RemoveElement
  <2> HIDE DEF n
  <2>4. QED
    BY <1>0, <2>2, <2>3
<1>4. CASE filled' = filled /\ Claiming' \subseteq Claiming
  <2>1. IsFiniteSet(Claiming') /\ Cardinality(Claiming') <= n /\ Cardinality(Claiming') \in Nat
    BY <1>0, <1>4, FS_Subset, FS_CardinalityType
  <2> HIDE DEF n
  <2>2. QED
    BY <1>0, <1>4, <2>1
<1>5. ASSUME NEW p \in Process, NEW label \in {"idle", "read", "write", "ended", "wait", "cleanup", "killed"}, 
             Goes(p, label), filled' = filled
      PROVE  filled' = filled /\ Claiming' \subseteq Claiming
  BY <1>0, <1>5, Moves, Kinds DEF Claiming, At
<1>6. ASSUME NEW p \in Printers, NEW label, Goes(p, label), filled' = filled
      PROVE  filled' = filled /\ Claiming' \subseteq Claiming
  BY <1>0, <1>6, Moves, Kinds DEF Claiming, At
<1>7. CASE PrintersStart \/ (ClientsStart /\ names)
  <2>1. \A c \in Clients : pc'[c] \in {"copy", "fill"} => pc[c] = pc'[c]
    BY <1>0, <1>7, Kinds DEF PrintersStart, ClientsStart, ProcessesOK
  <2>2. QED
    BY <1>4, <1>7, <2>1 DEF PrintersStart, ClientsStart, ringVars, Claiming, At
<1>8. CASE (ClientsStart /\ ~names) \/ ClientsParentEnds \/ PrintersParentEnds
  BY <1>4, <1>5, <1>8, Kinds DEF ClientsStart, ClientsParentEnds, PrintersParentEnds, ringVars
<1>9. CASE \E c \in Clients : LoadsIn(c) \/ ReadsIn(c) \/ WritesIn(c, "idle")
  <2>1. ASSUME NEW c \in Clients, LoadsIn(c)
        PROVE  filled' = filled /\ Claiming' \subseteq Claiming
    BY <1>0, <2>1, Moves, Kinds DEF LoadsIn, Claiming, At
  <2>2. QED
    BY <1>4, <1>5, <1>9, <2>1, Kinds DEF ReadsIn, WritesIn
<1>10. CASE \E p \in Printers : 
              \/ PrinterUnregisters(p) \/ PrinterLoadsOut(p) \/ PrinterTests(p) 
              \/ PrinterTakes(p) \/ PrinterPosts(p)
  BY <1>4, <1>6, <1>10 DEF PrinterUnregisters, PrinterLoadsOut, PrinterTests, PrinterTakes, PrinterPosts,
     CopiesOut, ReadsOut, WritesOut, ringVars
<1>11. CASE \E p \in DOMAIN pc : Killed(p) \/ ParentKilled(p)
  BY <1>4, <1>5, <1>11, Kinds DEF Killed, ParentKilled, ringVars
<1>12. CASE UNCHANGED vars
  BY <1>4, <1>12 DEF vars, ringVars, Claiming, At
<1>13. QED
  BY <1>2, <1>3, <1>7, <1>8, <1>9, <1>10, <1>11, <1>12 DEF Next, ProcessActs, ClientFills, ClientsStart

LEMMA TypesStep == 
    ASSUME Inv, [Next]_vars
    PROVE  TypeOK'
<1>0. TypeOK /\ RingTypeOK
  BY DEF Inv, TypeOK
<1>1. SUFFICES RingTypeOK' /\ sem' \in Nat /\ names' \in BOOLEAN
  BY LabelsStep, <1>1 DEF TypeOK, LabelsOK
<1>2. filled' \in Job
  BY ClaimsStep
<1>3. \A i \in Slots : (i + 1) % MAX_MESSAGES \in Slots
  <2>1. \A i \in Slots : i + 1 \in Nat
    BY DEF Slots
  <2>2. QED
    BY <2>1, Division
<1>4. 0 \in Slots
  BY RingAssumption DEF Slots
<1> USE <1>0, <1>2, <1>3, <1>4 DEF TypeOK, RingTypeOK
<1>5. CASE \E c \in Clients : ClientFills(c)
  <2>1. PICK c \in Clients : ClientFills(c)
    BY <1>5
  <2>2. CASE CopiesIn(c)
    BY <2>1, <2>2 DEF ClientFills, CopiesIn
  <2>6. CASE LoadsIn(c)
    BY <2>1, <2>6 DEF ClientFills, LoadsIn
  <2>3. CASE ReadsIn(c)
    BY <2>1, <2>3 DEF ClientFills, ReadsIn
  <2>4. CASE WritesIn(c, "idle")
    <3>1. in' = (index[c] + 1) % MAX_MESSAGES /\ index[c] \in Slots
      BY <2>4 DEF WritesIn
    <3>2. in' \in Slots
      BY <3>1
    <3>3. QED
      BY <2>1, <2>4, <3>2 DEF ClientFills, WritesIn
  <2>5. QED
    BY <2>1, <2>2, <2>3, <2>4, <2>6 DEF ClientFills
<1>6. CASE \E p \in Printers : PrinterTakes(p)
  <2>1. PICK p \in Printers : PrinterTakes(p)
    BY <1>6
  <2>2. CASE CopiesOut(p)
    BY <2>1, <2>2 DEF PrinterTakes, CopiesOut
  <2>3. CASE ReadsOut(p)
    BY <2>1, <2>3 DEF PrinterTakes, ReadsOut
  <2>4. CASE WritesOut(p, "print")
    <3>1. out' = (index[p] + 1) % MAX_MESSAGES /\ index[p] \in Slots
      BY <2>4 DEF WritesOut
    <3>2. out' \in Slots
      BY <3>1
    <3>3. QED
      BY <2>1, <2>4, <3>2 DEF PrinterTakes, WritesOut
  <2>5. QED
    BY <2>1, <2>2, <2>3, <2>4 DEF PrinterTakes
<1>7. CASE \E p \in Printers : 
             PrinterUnregisters(p) \/ PrinterLoadsOut(p) \/ PrinterTests(p) \/ PrinterPosts(p)
  <2>1. CASE \E p \in Printers : PrinterUnregisters(p)
    BY <2>1 DEF PrinterUnregisters, ringVars
  <2>2. CASE \E p \in Printers : PrinterLoadsOut(p) \/ PrinterTests(p)
    BY <2>2 DEF PrinterLoadsOut, PrinterTests
  <2>3. CASE \E p \in Printers : PrinterPosts(p)
    BY <2>3 DEF PrinterPosts, ringVars
  <2>4. QED
    BY <1>7, <2>1, <2>2, <2>3
<1>8. CASE \E c \in Clients : ClientWaits(c)
  BY <1>8 DEF ClientWaits, ringVars
<1>9. CASE \E p \in DOMAIN pc : Killed(p) \/ ParentKilled(p)
  BY <1>9 DEF Killed, ParentKilled, ringVars
<1>10. CASE PrintersStart \/ ClientsStart \/ ClientsParentEnds \/ PrintersParentEnds \/ UNCHANGED vars
  BY <1>10 DEF PrintersStart, ClientsStart, ClientsParentEnds, PrintersParentEnds, ringVars, vars
<1>11. QED
  BY <1>5, <1>6, <1>7, <1>8, <1>9, <1>10 DEF Next, ProcessActs

-----------------------------------------------------------------------------
(***************************************************************************)
(* An undisturbed queue stays in order.                                    *)
(***************************************************************************)
Steady == UNCHANGED <<jobs, in, out, filled, taken, misprinted, sem>> 
            /\ \A p \in Clients \cup Printers : 
                 /\ At(p, {"write"})' => At(p, {"write"}) /\ index'[p] = index[p]
                 /\ At(p, {"fill"})' => At(p, {"fill"}) /\ index'[p] = index[p]

LEMMA SteadyKeeps == 
    ASSUME Inv, ~disturbed, UNCHANGED Groups, Steady,
           \A p \in Clients \cup Printers : At(p, {"copy"})' => At(p, {"copy"})
    PROVE  Undisturbed'
<1>1. Undisturbed
  BY DEF Inv
<1>2. /\ Claiming' = Claiming /\ Placing' = Placing /\ Filling' = Filling 
      /\ Serving' = Serving /\ Fetching' = Fetching /\ Owing' = Owing
  BY DEF Groups
<1>3. Entered' = Entered /\ Passed' = Passed
  BY <1>2 DEF Entered, Passed, Steady
<1>4. OneEach' /\ SlotsCounted' /\ JobsHeld'
  BY <1>1, <1>2 DEF Undisturbed, OneEach, SlotsCounted, JobsHeld, Steady
<1>5. IndicesOK'
  BY <1>1, <1>3 DEF Undisturbed, IndicesOK, Steady, At
<1>6. QED
  BY <1>4, <1>5 DEF Undisturbed

LEMMA OthersKeep == 
    ASSUME Inv, ~disturbed, ~disturbed', 
           \/ PrintersStart \/ ClientsStart \/ ClientsParentEnds \/ PrintersParentEnds
           \/ \E p \in Printers : PrinterUnregisters(p) \/ PrinterLoadsOut(p)
           \/ \E p \in DOMAIN pc : Killed(p) \/ ParentKilled(p)
           \/ UNCHANGED vars
    PROVE  Undisturbed'
<1>0. ProcessesOK /\ LabelsOK /\ index \in [Clients \cup Printers -> Slots]
  BY DEF Inv, TypeOK, RingTypeOK, LabelsOK
<1>1. \A p \in Clients \cup Printers : 
        pc'[p] # pc[p] => {pc[p], pc'[p]} \subseteq Quiet
  <2> USE DEF Quiet
  <2>1. CASE PrintersStart
    BY <1>0, <2>1, Kinds DEF PrintersStart, ProcessesOK, At
  <2>2. CASE ClientsStart /\ names
    BY <1>0, <2>2, Kinds DEF ClientsStart, ProcessesOK, At
  <2>3. CASE (ClientsStart /\ ~names) \/ ClientsParentEnds \/ PrintersParentEnds
    <3>1. \E p \in Parents : \E label : Goes(p, label)
      BY <2>3 DEF ClientsStart, ClientsParentEnds, PrintersParentEnds, Parents
    <3>2. QED
      BY <1>0, <3>1, Moves, Kinds DEF Parents
  <2>4. CASE \E p \in Printers : PrinterUnregisters(p) \/ PrinterLoadsOut(p)
    BY <1>0, <2>4, Moves, Kinds DEF PrinterUnregisters, PrinterLoadsOut, At
  <2>5. CASE \E p \in DOMAIN pc : Killed(p)
    <3>1. PICK p \in Clients \cup Printers : Killed(p)
      BY <2>5 DEF Killed
    <3>2. ~At(p, {"copy", "fill", "read", "write", "print"}) /\ Goes(p, "ended")
      BY <3>1 DEF Killed
    <3>3. \A q \in Process : pc'[q] = IF q = p THEN "ended" ELSE pc[q]
      BY <1>0, <3>1, <3>2, Moves, Kinds
    <3>4. pc[p] \in Quiet
      BY <1>0, <3>2 DEF LabelsOK, At
    <3>5. QED
      BY <3>3, <3>4, Kinds
  <2>6. CASE \E p \in DOMAIN pc : ParentKilled(p)
    <3>1. \E p \in Parents : \E label : Goes(p, label)
      BY <2>6 DEF ParentKilled, Parents
    <3>2. QED
      BY <1>0, <3>1, Moves, Kinds DEF Parents
  <2>7. CASE UNCHANGED vars
    BY <2>7 DEF vars
  <2>8. QED
    BY <2>1, <2>2, <2>3, <2>4, <2>5, <2>6, <2>7 DEF ClientsStart
<1>2. UNCHANGED Groups
  BY <1>1, GroupsUnchanged
<1>3. /\ UNCHANGED <<jobs, in, out, filled, taken, misprinted, sem>>
      /\ \A p \in Clients \cup Printers : index'[p] = index[p] \/ pc'[p] \in {"test", "ended"}
  <2>1. CASE \E p \in DOMAIN pc : Killed(p)
    <3>1. PICK p \in Clients \cup Printers : Killed(p)
      BY <2>1 DEF Killed
    <3>2. pc'[p] = "ended"
      BY <1>0, <3>1, Moves, Kinds DEF Killed
    <3>3. QED
      BY <1>0, <3>1, <3>2 DEF Killed
  <2>2. CASE \E p \in Printers : PrinterLoadsOut(p)
    <3>1. PICK p \in Printers : PrinterLoadsOut(p)
      BY <2>2
    <3>2. pc'[p] = "test"
      BY <1>0, <3>1, Moves, Kinds DEF PrinterLoadsOut
    <3>3. QED
      BY <1>0, <3>1, <3>2 DEF PrinterLoadsOut
  <2>3. CASE /\ ~\E p \in DOMAIN pc : Killed(p) 
             /\ ~\E p \in Printers : PrinterLoadsOut(p)
    BY <2>3 DEF PrintersStart, ClientsStart, ClientsParentEnds, PrintersParentEnds, PrinterUnregisters,
       ParentKilled, ringVars, vars
  <2>4. QED
    BY <2>1, <2>2, <2>3
<1>4. Steady /\ \A p \in Clients \cup Printers : At(p, {"copy"})' => At(p, {"copy"})
  BY <1>1, <1>3 DEF Steady, At, Quiet
<1>5. QED
  BY <1>2, <1>4, SteadyKeeps

\* Where the processes of a step are, before and after it.
LEMMA ClientMoves == 
    ASSUME Inv, NEW c \in Clients, NEW label, Goes(c, label)
    PROVE  /\ \A d \in Clients : pc'[d] = IF d = c THEN label ELSE pc[d]
           /\ \A p \in Printers : pc'[p] = pc[p]
           /\ UNCHANGED <<Serving, Fetching, Owing>>
<1>1. /\ \A d \in Clients : pc'[d] = IF d = c THEN label ELSE pc[d]
      /\ \A p \in Printers : pc'[p] = pc[p]
  BY Moves, Kinds DEF Inv
<1>2. QED
  BY <1>1 DEF Serving, Fetching, Owing, At

LEMMA PrinterMoves == 
    ASSUME Inv, NEW p \in Printers, NEW label, Goes(p, label)
    PROVE  /\ \A q \in Printers : pc'[q] = IF q = p THEN label ELSE pc[q]
           /\ \A c \in Clients : pc'[c] = pc[c]
           /\ UNCHANGED <<Claiming, Placing, Filling>>
<1>1. /\ \A q \in Printers : pc'[q] = IF q = p THEN label ELSE pc[q]
      /\ \A c \in Clients : pc'[c] = pc[c]
  BY Moves, Kinds DEF Inv
<1>2. QED
  BY <1>1 DEF Claiming, Placing, Filling, At

\* The numbers of the invariant.
LEMMA Numbers == 
    ASSUME Inv, ~disturbed
    PROVE  /\ Cardinality(Claiming) \in Nat /\ Cardinality(Owing) \in Nat
           /\ filled \in Nat /\ taken \in Nat /\ sem \in Nat /\ MAX_MESSAGES \in Nat \ {0}
           /\ IsFiniteSet(Claiming) /\ IsFiniteSet(Owing)
           /\ taken <= Entered /\ Entered \in Nat /\ Passed \in Nat /\ Entered <= filled
           /\ sem + Cardinality(Claiming) + (filled - taken) + Cardinality(Owing) = MAX_MESSAGES
<1>1. filled \in Nat /\ taken \in Nat /\ sem \in Nat
  BY RingAssumption DEF Inv, TypeOK, RingTypeOK, Job
<1>2. Undisturbed /\ IsFiniteSet(Claiming)
  BY DEF Inv, JobsBounded
<1>3. QED
  BY <1>1, <1>2, FS_CardinalityType, RingAssumption DEF Undisturbed, SlotsCounted, IndicesOK, Entered

LEMMA WaitKeeps == 
    ASSUME Inv, ~disturbed, NEW c \in Clients, ClientWaits(c)
    PROVE  Undisturbed'
<1>1. /\ pc'[c] = "copy" /\ pc[c] = "idle"
      /\ \A d \in Clients : pc'[d] = IF d = c THEN "copy" ELSE pc[d]
      /\ \A p \in Printers : pc'[p] = pc[p]
      /\ UNCHANGED <<Serving, Fetching, Owing>>
      /\ UNCHANGED ringVars /\ sem' = sem - 1
  BY ClientMoves DEF ClientWaits, At
<1>2. /\ Filling' = Filling /\ Placing' = Placing 
      /\ Claiming' = Claiming \cup {c} /\ c \notin Claiming
  BY <1>1 DEF Filling, Placing, Claiming, At
<1>3. Cardinality(Claiming') = Cardinality(Claiming) + 1
  BY <1>2, Numbers, FS_AddElement
<1>4. Undisturbed /\ Entered' = Entered /\ Passed' = Passed
  BY <1>1, <1>2 DEF Entered, Passed, ringVars, Inv
<1>5. SlotsCounted'
  <2> DEFINE a == Cardinality(Claiming)
             o == Cardinality(Owing)
  <2>1. /\ a' = a + 1 /\ o' = o /\ sem' = sem - 1 /\ filled' = filled /\ taken' = taken
        /\ a \in Nat /\ o \in Nat /\ sem \in Nat /\ filled \in Nat /\ taken \in Nat
        /\ sem + a + (filled - taken) + o = MAX_MESSAGES
        /\ MAX_MESSAGES \in Nat
    BY <1>1, <1>3, Numbers DEF ringVars
  <2>2. IsFiniteSet(Owing)'
    BY <1>1, Numbers
  <2> SUFFICES sem' + a' + (filled' - taken') + o' = MAX_MESSAGES
    BY <2>2 DEF SlotsCounted
  <2> HIDE DEF a, o
  <2>3. QED
    BY <2>1
<1>6. OneEach' /\ JobsHeld'
  BY <1>1, <1>2, <1>4 DEF Undisturbed, OneEach, JobsHeld, ringVars
<1>7. IndicesOK'
  BY <1>1, <1>4 DEF Undisturbed, IndicesOK, ringVars, At
<1>8. QED
  BY <1>5, <1>6, <1>7 DEF Undisturbed

\* Nobody else has come to the index.
LEMMA LoadInKeeps == 
    ASSUME Inv, ~disturbed, ~disturbed', NEW c \in Clients, LoadsIn(c), UNCHANGED sem
    PROVE  Undisturbed'
<1>1. /\ pc[c] = "copy"
      /\ \A d \in Clients : pc'[d] = IF d = c THEN "fill" ELSE pc[d]
      /\ \A p \in Printers : pc'[p] = pc[p]
      /\ UNCHANGED <<Serving, Fetching, Owing>>
      /\ UNCHANGED <<jobs, in, out, filled, taken, misprinted, sem>>
      /\ index' = [index EXCEPT ![c] = in] /\ index \in [Clients \cup Printers -> Slots]
      /\ ~BetweenSteps(c, Clients)
  BY ClientMoves DEF LoadsIn, At, Inv, TypeOK, RingTypeOK
<1>2. Filling' = Filling /\ Claiming' = Claiming /\ Placing' = {c}
  BY <1>1 DEF Filling, Claiming, Placing, BetweenSteps, At
<1>3. Undisturbed /\ Entered' = Entered /\ Passed' = Passed
  BY <1>1, <1>2 DEF Entered, Passed, Inv
<1>4. OneEach' /\ SlotsCounted' /\ JobsHeld'
  BY <1>1, <1>2, <1>3 DEF Undisturbed, OneEach, SlotsCounted, JobsHeld
<1>5. \A p \in Printers : index'[p] = index[p]
  BY <1>1, Kinds
<1>6. \A d \in Clients : index'[d] = IF d = c THEN in ELSE index[d]
  BY <1>1
<1>7. IndicesOK'
  BY <1>1, <1>3, <1>5, <1>6 DEF Undisturbed, IndicesOK, At
<1>8. QED
  BY <1>4, <1>7 DEF Undisturbed

\* The slot at `in' is free, and no other slot is touched.
LEMMA CopyInKeeps == 
    ASSUME Inv, ~disturbed, NEW c \in Clients, CopiesIn(c), UNCHANGED sem
    PROVE  Undisturbed'
<1>1. /\ pc[c] = "fill"
      /\ \A d \in Clients : pc'[d] = IF d = c THEN "read" ELSE pc[d]
      /\ \A p \in Printers : pc'[p] = pc[p]
      /\ UNCHANGED <<Serving, Fetching, Owing>>
      /\ UNCHANGED <<in, out, index, taken, misprinted, sem>>
      /\ filled' = filled + 1 /\ jobs' = [jobs EXCEPT ![in] = filled + 1]
      /\ \A d \in Placing : d = c
  <2>1. pc[c] = "fill" /\ Undisturbed
    BY DEF CopiesIn, At, Inv
  <2>2. index[c] = in /\ \A d \in Placing : d = c
    BY <2>1 DEF Undisturbed, OneEach, IndicesOK, Placing, At
  <2>3. QED
    BY <2>1, <2>2, ClientMoves DEF CopiesIn
<1>2. /\ Filling = {} /\ Filling' = {c} /\ Placing' = Placing
      /\ Claiming' = Claiming \ {c} /\ c \in Claiming
  BY <1>1 DEF Filling, Placing, Claiming, At
<1>3. /\ Cardinality(Claiming') = Cardinality(Claiming) - 1
      /\ Cardinality(Claiming) >= 1
  <2>1. Cardinality(Claiming') = Cardinality(Claiming) - 1 /\ IsFiniteSet(Claiming')
    BY <1>2, Numbers, FS_RemoveElement
  <2>2. Cardinality(Claiming') \in Nat
    BY <2>1, FS_CardinalityType
  <2>3. QED
    BY <2>1, <2>2, Numbers
<1>4. Undisturbed /\ Entered = filled /\ Entered' = Entered /\ Passed' = Passed
  <2>1. Entered' = (filled + 1) - 1 /\ Entered = filled
    BY <1>1, <1>2 DEF Entered
  <2>2. QED
    BY <1>1, <2>1, Numbers DEF Passed, Inv
<1>5. SlotsCounted' /\ filled < taken + MAX_MESSAGES
  <2> DEFINE a == Cardinality(Claiming)
             o == Cardinality(Owing)
  <2>1. /\ a' = a - 1 /\ a >= 1 /\ o' = o /\ sem' = sem /\ filled' = filled + 1 /\ taken' = taken
        /\ a \in Nat /\ o \in Nat /\ sem \in Nat /\ filled \in Nat /\ taken \in Nat
        /\ sem + a + (filled - taken) + o = MAX_MESSAGES
        /\ MAX_MESSAGES \in Nat
    BY <1>1, <1>3, Numbers
  <2>2. IsFiniteSet(Owing)'
    BY <1>1, Numbers
  <2> SUFFICES sem' + a' + (filled' - taken') + o' = MAX_MESSAGES /\ filled < taken + MAX_MESSAGES
    BY <2>2 DEF SlotsCounted
  <2> HIDE DEF a, o
  <2>3. QED
    BY <2>1
<1>6. OneEach'
  BY <1>1, <1>2, <1>4 DEF Undisturbed, OneEach
<1>7. JobsHeld'
  <2>1. in = filled % MAX_MESSAGES /\ in \in Slots /\ jobs \in [Slots -> Job]
    BY <1>4 DEF Undisturbed, IndicesOK, Inv, TypeOK, RingTypeOK
  <2>2. ASSUME NEW n \in taken' + 1 .. filled'
        PROVE  jobs'[(n - 1) % MAX_MESSAGES] = n
    <3>0. n - 1 \in Nat
      BY <1>1, Numbers
    <3>1. n - 1 \in Nat /\ (n - 1) % MAX_MESSAGES \in Slots
      BY <3>0, Division
    <3>2. CASE n = filled + 1
      BY <1>1, <2>1, <3>2, Numbers
    <3>3. CASE n # filled + 1
      <4>1. n - 1 < filled /\ filled < n - 1 + MAX_MESSAGES /\ n \in taken + 1 .. filled
        BY <1>1, <1>5, <3>3, Numbers
      <4>2. (n - 1) % MAX_MESSAGES # in
        BY <2>1, <3>1, <4>1, Numbers, SlotsDiffer
      <4>3. jobs'[(n - 1) % MAX_MESSAGES] = jobs[(n - 1) % MAX_MESSAGES]
        BY <1>1, <2>1, <3>1, <4>2
      <4>4. QED
        BY <1>4, <4>1, <4>3 DEF Undisturbed, JobsHeld
    <3>4. QED
      BY <3>2, <3>3
  <2>3. QED
    BY <1>1, <1>4, <2>2 DEF Undisturbed, JobsHeld
<1>8. IndicesOK'
  BY <1>1, <1>4 DEF Undisturbed, IndicesOK, At
<1>9. QED
  BY <1>5, <1>6, <1>7, <1>8 DEF Undisturbed

LEMMA ReadInKeeps == 
    ASSUME Inv, ~disturbed, NEW c \in Clients, ReadsIn(c), UNCHANGED sem
    PROVE  Undisturbed'
<1>1. /\ pc[c] = "read"
      /\ \A d \in Clients : pc'[d] = IF d = c THEN "write" ELSE pc[d]
      /\ \A p \in Printers : pc'[p] = pc[p]
      /\ UNCHANGED <<Serving, Fetching, Owing>>
      /\ UNCHANGED <<jobs, in, out, filled, taken, misprinted, sem>>
      /\ index' = [index EXCEPT ![c] = in] /\ index \in [Clients \cup Printers -> Slots]
  BY ClientMoves DEF ReadsIn, At, Inv, TypeOK, RingTypeOK
<1>2. Filling' = Filling /\ Placing' = Placing /\ Claiming' = Claiming
  BY <1>1 DEF Filling, Placing, Claiming, At
<1>3. Undisturbed /\ Entered' = Entered /\ Passed' = Passed
  BY <1>1, <1>2 DEF Entered, Passed, Inv
<1>4. OneEach' /\ SlotsCounted' /\ JobsHeld'
  BY <1>1, <1>2, <1>3 DEF Undisturbed, OneEach, SlotsCounted, JobsHeld
<1>5. \A p \in Printers : index'[p] = index[p]
  BY <1>1, Kinds
<1>6. \A d \in Clients : index'[d] = IF d = c THEN in ELSE index[d]
  BY <1>1
<1>7. IndicesOK'
  BY <1>1, <1>3, <1>5, <1>6 DEF Undisturbed, IndicesOK, At
<1>8. QED
  BY <1>4, <1>7 DEF Undisturbed

\* The index moves on, past the job that was filled.
LEMMA WriteInKeeps == 
    ASSUME Inv, ~disturbed, NEW c \in Clients, WritesIn(c, "idle"), UNCHANGED sem
    PROVE  Undisturbed'
<1>1. /\ pc[c] = "write"
      /\ \A d \in Clients : pc'[d] = IF d = c THEN "idle" ELSE pc[d]
      /\ \A p \in Printers : pc'[p] = pc[p]
      /\ UNCHANGED <<Serving, Fetching, Owing>>
      /\ UNCHANGED <<jobs, out, filled, taken, misprinted, sem>>
      /\ in' = (index[c] + 1) % MAX_MESSAGES
      /\ index' = [index EXCEPT ![c] = 0] /\ index \in [Clients \cup Printers -> Slots]
  BY ClientMoves DEF WritesIn, At, Inv, TypeOK, RingTypeOK
<1>2. /\ Undisturbed /\ \A d \in Placing : d = c
      /\ Filling = {c} /\ Filling' = {} /\ Placing' = {} /\ Claiming' = Claiming
  BY <1>1 DEF Filling, Placing, Claiming, At, Undisturbed, OneEach, Inv
<1>3. Entered' = Entered + 1 /\ Entered = filled - 1 /\ Passed' = Passed
  <2>1. Entered' = filled /\ Entered = filled - 1 /\ Passed' = Passed
    BY <1>1, <1>2 DEF Entered, Passed
  <2>2. QED
    BY <2>1, Numbers
<1>4. OneEach' /\ SlotsCounted' /\ JobsHeld'
  BY <1>1, <1>2 DEF Undisturbed, OneEach, SlotsCounted, JobsHeld
<1>5. \A p \in Printers : index'[p] = index[p]
  BY <1>1, Kinds
<1>6. in' = Entered' % MAX_MESSAGES
  <2>1. index[c] = Entered % MAX_MESSAGES
    BY <1>1, <1>2 DEF Undisturbed, IndicesOK, At
  <2>2. QED
    BY <1>1, <1>3, <2>1, Numbers, IndexNext
<1>7. \A d \in Clients : ~At(d, {"fill", "write"})'
  BY <1>1, <1>2 DEF At, Placing
<1>8. /\ Entered' \in Nat /\ taken' <= Entered'
      /\ \A p \in Printers : At(p, {"copy"})' => taken' < Entered'
  BY <1>1, <1>2, <1>3, Numbers DEF Undisturbed, IndicesOK, At
<1>9. IndicesOK'
  BY <1>1, <1>2, <1>3, <1>5, <1>6, <1>7, <1>8 DEF Undisturbed, IndicesOK, At
<1>10. QED
  BY <1>4, <1>9 DEF Undisturbed

\* A printer passes the test undisturbed only if a job is there.
LEMMA PassKeeps == 
    ASSUME Inv, ~disturbed, ~disturbed', NEW p \in Printers, PrinterTests(p), index[p] # in
    PROVE  Undisturbed'
<1>1. /\ pc[p] = "test" /\ out # in
      /\ \A q \in Printers : pc'[q] = IF q = p THEN "copy" ELSE pc[q]
      /\ \A c \in Clients : pc'[c] = pc[c]
      /\ UNCHANGED <<Claiming, Placing, Filling>>
      /\ UNCHANGED <<jobs, in, out, filled, taken, misprinted, sem>>
      /\ index' = [index EXCEPT ![p] = 0] /\ index \in [Clients \cup Printers -> Slots]
      /\ \A q \in Printers \ {p} : ~At(q, {"copy", "read", "write"})
  BY PrinterMoves DEF PrinterTests, At, Inv, TypeOK, RingTypeOK
<1>2. Serving' = {p} /\ Fetching = {} /\ Fetching' = {} /\ Owing' = Owing
  BY <1>1 DEF Serving, Fetching, Owing, At
<1>3. Undisturbed /\ Entered' = Entered /\ Passed' = Passed /\ Passed = taken
  BY <1>1, <1>2 DEF Entered, Passed, Inv
<1>4. OneEach' /\ SlotsCounted' /\ JobsHeld'
  BY <1>1, <1>2, <1>3 DEF Undisturbed, OneEach, SlotsCounted, JobsHeld
<1>5. taken < Entered
  <2>1. taken # Entered
    BY <1>1, <1>3 DEF Undisturbed, IndicesOK
  <2>2. QED
    BY <2>1, Numbers
<1>6. IndicesOK'
  <2>1. \A q \in (Clients \cup Printers) \ {p} : index'[q] = index[q]
    BY <1>1
  <2>2. QED
    BY <1>1, <1>3, <1>5, <2>1, Kinds DEF Undisturbed, IndicesOK, At
<1>7. QED
  BY <1>4, <1>6 DEF Undisturbed

LEMMA FailKeeps == 
    ASSUME Inv, ~disturbed, NEW p \in Printers, PrinterTests(p), index[p] = in
    PROVE  Undisturbed'
<1>1. /\ pc[p] = "test"
      /\ \A q \in Printers : pc'[q] = IF q = p THEN "poll" ELSE pc[q]
      /\ \A c \in Clients : pc'[c] = pc[c]
      /\ UNCHANGED <<jobs, in, out, filled, taken, misprinted, sem>>
      /\ index' = [index EXCEPT ![p] = 0] /\ index \in [Clients \cup Printers -> Slots]
  BY PrinterMoves DEF PrinterTests, At, Inv, TypeOK, RingTypeOK
<1>2. UNCHANGED Groups
  BY <1>1, GroupsUnchanged DEF Quiet
<1>3. Steady /\ \A q \in Clients \cup Printers : At(q, {"copy"})' => At(q, {"copy"})
  BY <1>1, Kinds DEF Steady, At
<1>4. QED
  BY <1>2, <1>3, SteadyKeeps

\* The job at `out' is the next one.
LEMMA CopyOutKeeps == 
    ASSUME Inv, ~disturbed, NEW p \in Printers, CopiesOut(p), UNCHANGED sem
    PROVE  Undisturbed'
<1>1. /\ pc[p] = "copy"
      /\ \A q \in Printers : pc'[q] = IF q = p THEN "read" ELSE pc[q]
      /\ \A c \in Clients : pc'[c] = pc[c]
      /\ UNCHANGED <<Claiming, Placing, Filling>>
      /\ UNCHANGED <<jobs, in, out, index, filled, sem>>
      /\ taken' = taken + 1
      /\ misprinted' = (misprinted \/ jobs[out] # taken')
  BY PrinterMoves DEF CopiesOut, At
<1>2. /\ Undisturbed
      /\ \A q \in Serving : q = p
      /\ taken < Entered
  BY <1>1 DEF Undisturbed, OneEach, IndicesOK, Serving, At, Inv
<1>3. Fetching = {} /\ Fetching' = {p} /\ Serving' = Serving
  BY <1>1, <1>2 DEF Serving, Fetching, At
<1>4. Owing' = Owing \cup {p} /\ p \notin Owing
  BY <1>1 DEF Owing, At
<1>5. Cardinality(Owing') = Cardinality(Owing) + 1 /\ IsFiniteSet(Owing')
  BY <1>4, Numbers, FS_AddElement
<1>6. Entered' = Entered /\ Passed = taken /\ Passed' = Passed
  <2>1. Entered' = Entered /\ Passed = taken /\ Passed' = (taken + 1) - 1
    BY <1>1, <1>3 DEF Entered, Passed
  <2>2. QED
    BY <2>1, Numbers
<1>7. SlotsCounted'
  <2> DEFINE a == Cardinality(Claiming)
             o == Cardinality(Owing)
  <2>1. /\ a' = a /\ o' = o + 1 /\ sem' = sem /\ filled' = filled /\ taken' = taken + 1
        /\ a \in Nat /\ o \in Nat /\ sem \in Nat /\ filled \in Nat /\ taken \in Nat
        /\ sem + a + (filled - taken) + o = MAX_MESSAGES
        /\ MAX_MESSAGES \in Nat
    BY <1>1, <1>5, Numbers
  <2> SUFFICES sem' + a' + (filled' - taken') + o' = MAX_MESSAGES
    BY <1>5 DEF SlotsCounted
  <2> HIDE DEF a, o
  <2>2. QED
    BY <2>1
<1>8. JobsHeld'
  <2>1. taken + 1 \in taken + 1 .. filled /\ (taken + 1) - 1 = taken
    BY <1>2, Numbers
  <2>2. jobs[taken % MAX_MESSAGES] = taken + 1
    BY <1>2, <2>1 DEF Undisturbed, JobsHeld
  <2>3. out = taken % MAX_MESSAGES
    BY <1>2, <1>6 DEF Undisturbed, IndicesOK
  <2>4. ~misprinted'
    BY <1>1, <1>2, <2>2, <2>3 DEF Undisturbed, JobsHeld
  <2>5. taken' + 1 .. filled' \subseteq taken + 1 .. filled
    BY <1>1, Numbers
  <2>6. QED
    BY <1>1, <1>2, <2>4, <2>5 DEF Undisturbed, JobsHeld
<1>9. OneEach'
  BY <1>1, <1>2, <1>3 DEF Undisturbed, OneEach
<1>10. taken' <= Entered'
  BY <1>1, <1>2, <1>6, Numbers
<1>11. \A q \in Printers : ~At(q, {"copy"})'
  BY <1>1, <1>2 DEF At, Serving
<1>12. IndicesOK'
  BY <1>1, <1>2, <1>6, <1>10, <1>11 DEF Undisturbed, IndicesOK, At
<1>13. QED
  BY <1>7, <1>8, <1>9, <1>12 DEF Undisturbed

LEMMA ReadOutKeeps == 
    ASSUME Inv, ~disturbed, NEW p \in Printers, ReadsOut(p), UNCHANGED sem
    PROVE  Undisturbed'
<1>1. /\ pc[p] = "read"
      /\ \A q \in Printers : pc'[q] = IF q = p THEN "write" ELSE pc[q]
      /\ \A c \in Clients : pc'[c] = pc[c]
      /\ UNCHANGED <<Claiming, Placing, Filling>>
      /\ UNCHANGED <<jobs, in, out, filled, taken, misprinted, sem>>
      /\ index' = [index EXCEPT ![p] = out] /\ index \in [Clients \cup Printers -> Slots]
  BY PrinterMoves DEF ReadsOut, At, Inv, TypeOK, RingTypeOK
<1>2. Serving' = Serving /\ Fetching' = Fetching /\ Owing' = Owing
  BY <1>1 DEF Serving, Fetching, Owing, At
<1>3. Undisturbed /\ Entered' = Entered /\ Passed' = Passed
  BY <1>1, <1>2 DEF Entered, Passed, Inv
<1>4. OneEach' /\ SlotsCounted' /\ JobsHeld'
  BY <1>1, <1>2, <1>3 DEF Undisturbed, OneEach, SlotsCounted, JobsHeld
<1>5. \A c \in Clients : index'[c] = index[c]
  BY <1>1, Kinds
<1>6. \A q \in Printers : index'[q] = IF q = p THEN out ELSE index[q]
  BY <1>1
<1>7. IndicesOK'
  BY <1>1, <1>3, <1>5, <1>6 DEF Undisturbed, IndicesOK, At
<1>8. QED
  BY <1>4, <1>7 DEF Undisturbed

LEMMA WriteOutKeeps == 
    ASSUME Inv, ~disturbed, NEW p \in Printers, WritesOut(p, "print"), UNCHANGED sem
    PROVE  Undisturbed'
<1>1. /\ pc[p] = "write"
      /\ \A q \in Printers : pc'[q] = IF q = p THEN "print" ELSE pc[q]
      /\ \A c \in Clients : pc'[c] = pc[c]
      /\ UNCHANGED <<Claiming, Placing, Filling>>
      /\ UNCHANGED <<jobs, in, filled, taken, misprinted, sem>>
      /\ out' = (index[p] + 1) % MAX_MESSAGES
      /\ index' = [index EXCEPT ![p] = 0] /\ index \in [Clients \cup Printers -> Slots]
  BY PrinterMoves DEF WritesOut, At, Inv, TypeOK, RingTypeOK
<1>2. Undisturbed /\ \A q \in Serving : q = p
  BY <1>1 DEF Serving, At, Undisturbed, OneEach, Inv
<1>3. Serving' = {} /\ Fetching = {p} /\ Fetching' = {} /\ Owing' = Owing
  BY <1>1, <1>2 DEF Serving, Fetching, Owing, At
<1>4. Entered' = Entered /\ Passed = taken - 1 /\ Passed' = Passed + 1
  <2>1. Entered' = Entered /\ Passed = taken - 1 /\ Passed' = taken
    BY <1>1, <1>3 DEF Entered, Passed
  <2>2. QED
    BY <2>1, Numbers
<1>5. OneEach' /\ SlotsCounted' /\ JobsHeld'
  BY <1>1, <1>2, <1>3 DEF Undisturbed, OneEach, SlotsCounted, JobsHeld
<1>6. \A c \in Clients : index'[c] = index[c]
  BY <1>1, Kinds
<1>7. out' = Passed' % MAX_MESSAGES /\ Passed' \in Nat
  <2>1. index[p] = Passed % MAX_MESSAGES
    BY <1>1, <1>2 DEF Undisturbed, IndicesOK, At
  <2>2. QED
    BY <1>1, <1>4, <2>1, Numbers, IndexNext
<1>8. \A q \in Printers : ~At(q, {"write"})' /\ ~At(q, {"copy"})'
  BY <1>1, <1>2 DEF At, Serving
<1>9. IndicesOK'
  BY <1>1, <1>2, <1>4, <1>6, <1>7, <1>8 DEF Undisturbed, IndicesOK, At
<1>10. QED
  BY <1>5, <1>9 DEF Undisturbed

\* sem_post: the slot of the printed job is free.
LEMMA PostKeeps == 
    ASSUME Inv, ~disturbed, NEW p \in Printers, PrinterPosts(p)
    PROVE  Undisturbed'
<1>1. /\ pc[p] = "print"
      /\ \A q \in Printers : pc'[q] = IF q = p THEN "poll" ELSE pc[q]
      /\ \A c \in Clients : pc'[c] = pc[c]
      /\ UNCHANGED <<Claiming, Placing, Filling>>
      /\ UNCHANGED ringVars /\ sem' = sem + 1
  BY PrinterMoves DEF PrinterPosts, At
<1>2. Serving' = Serving /\ Fetching' = Fetching /\ Owing' = Owing \ {p} /\ p \in Owing
  BY <1>1 DEF Serving, Fetching, Owing, At
<1>3. Cardinality(Owing') = Cardinality(Owing) - 1 /\ IsFiniteSet(Owing')
  BY <1>2, Numbers, FS_RemoveElement
<1>4. Undisturbed /\ Entered' = Entered /\ Passed' = Passed
  BY <1>1, <1>2 DEF Entered, Passed, ringVars, Inv
<1>5. SlotsCounted'
  <2> DEFINE a == Cardinality(Claiming)
             o == Cardinality(Owing)
  <2>1. /\ a' = a /\ o' = o - 1 /\ sem' = sem + 1 /\ filled' = filled /\ taken' = taken
        /\ a \in Nat /\ o \in Nat /\ sem \in Nat /\ filled \in Nat /\ taken \in Nat
        /\ sem + a + (filled - taken) + o = MAX_MESSAGES
        /\ MAX_MESSAGES \in Nat
    BY <1>1, <1>3, Numbers DEF ringVars
  <2> SUFFICES sem' + a' + (filled' - taken') + o' = MAX_MESSAGES
    BY <1>3 DEF SlotsCounted
  <2> HIDE DEF a, o
  <2>2. QED
    BY <2>1
<1>6. OneEach' /\ JobsHeld'
  BY <1>1, <1>2, <1>4 DEF Undisturbed, OneEach, JobsHeld, ringVars
<1>7. IndicesOK'
  BY <1>1, <1>4 DEF Undisturbed, IndicesOK, ringVars, At
<1>8. QED
  BY <1>5, <1>6, <1>7 DEF Undisturbed

-----------------------------------------------------------------------------
(***************************************************************************)
(* The theorems.                                                           *)
(***************************************************************************)
LEMMA DisturbedForever == 
    ASSUME [Next]_vars, disturbed
    PROVE  disturbed'
BY DEF Next, ProcessActs, PrintersStart, ClientsStart, ClientsParentEnds, PrintersParentEnds, ClientWaits,
   ClientFills, LoadsIn, CopiesIn, ReadsIn, WritesIn, PrinterUnregisters, PrinterLoadsOut, PrinterTests, PrinterTakes, CopiesOut, 
   ReadsOut, WritesOut, PrinterPosts, Killed, ParentKilled, ringVars, vars

LEMMA InvStep == Inv /\ [Next]_vars => Inv'
<1> SUFFICES ASSUME Inv, [Next]_vars PROVE Inv'
  OBVIOUS
<1>1. TypeOK' /\ ProcessesOK' /\ JobsBounded'
  BY TypesStep, LabelsStep, ClaimsStep
<1>2. ASSUME ~disturbed'
      PROVE  Undisturbed'
  <2>1. ~disturbed
    BY <1>2, DisturbedForever
  <2>2. CASE \E c \in Clients : ClientWaits(c) \/ ClientFills(c)
    BY <1>2, <2>1, <2>2, WaitKeeps, LoadInKeeps, CopyInKeeps, ReadInKeeps, WriteInKeeps DEF ClientFills
  <2>3. CASE \E p \in Printers : PrinterTests(p) \/ PrinterTakes(p) \/ PrinterPosts(p)
    BY <1>2, <2>1, <2>3, PassKeeps, FailKeeps, CopyOutKeeps, ReadOutKeeps, WriteOutKeeps, PostKeeps DEF PrinterTakes
  <2>4. QED
    BY <1>2, <2>1, <2>2, <2>3, OthersKeep DEF Next, ProcessActs
<1>3. QED
  BY <1>1, <1>2 DEF Inv

LEMMA Invariance == Spec => []Inv
BY InvInit, InvStep, PTL DEF Spec

\* The jobs are printed once each and in their order, and none is overwritten
\* before, unless two clients or two printers are at their index at once, a
\* printer finds a job that is gone, or a process is killed at work.
THEOREM QueueIsFifoUnlessDisturbed == Spec => []FifoUnlessDisturbed
<1>1. ASSUME Inv
      PROVE  FifoUnlessDisturbed
  <2>1. ASSUME ~disturbed
        PROVE  ~misprinted /\ taken <= filled /\ filled <= taken + MAX_MESSAGES
    <3> DEFINE a == Cardinality(Claiming)
               o == Cardinality(Owing)
    <3>1. /\ a \in Nat /\ o \in Nat /\ sem \in Nat /\ filled \in Nat /\ taken \in Nat /\ Entered \in Nat
          /\ sem + a + (filled - taken) + o = MAX_MESSAGES /\ MAX_MESSAGES \in Nat
          /\ taken <= Entered /\ Entered <= filled
      BY <1>1, <2>1, Numbers
    <3>2. ~misprinted
      BY <1>1, <2>1 DEF Inv, Undisturbed, JobsHeld
    <3> HIDE DEF a, o
    <3>3. QED
      BY <3>1, <3>2
  <2>2. QED
    BY <1>1, <2>1 DEF Inv, FifoUnlessDisturbed
<1>2. QED
  BY <1>1, Invariance, PTL

\* The semaphore counts the free slots right, but in = out means an empty queue
\* as well as one whose slots are all filled with jobs that nobody will see.
THEOREM LooksEmptyIsEmptyOrFull == Spec => []EmptyOrFull
<1>1. ASSUME Inv
      PROVE  EmptyOrFull
  <2>1. SUFFICES ASSUME ~disturbed, Resting, in = out
                 PROVE  \/ filled = taken /\ sem = MAX_MESSAGES
                        \/ filled = taken + MAX_MESSAGES /\ sem = 0
    BY DEF EmptyOrFull
  <2>2. Claiming = {} /\ Filling = {} /\ Fetching = {} /\ Owing = {}
    BY <2>1 DEF Resting, Claiming, Filling, Fetching, Owing, At
  <2>3. Cardinality(Claiming) = 0 /\ Cardinality(Owing) = 0
    BY <2>2, FS_EmptySet
  <2>4. /\ sem \in Nat /\ filled \in Nat /\ taken \in Nat /\ MAX_MESSAGES \in Nat /\ taken <= filled
        /\ sem + (filled - taken) = MAX_MESSAGES
    <3> HIDE DEF Claiming, Owing
    <3>1. /\ sem \in Nat /\ filled \in Nat /\ taken \in Nat /\ MAX_MESSAGES \in Nat 
          /\ sem + 0 + (filled - taken) + 0 = MAX_MESSAGES
          /\ taken <= Entered /\ Entered <= filled /\ Entered \in Nat
      BY <1>1, <2>1, <2>3, Numbers
    <3>2. QED
      BY <3>1
  <2>5. filled % MAX_MESSAGES = taken % MAX_MESSAGES
    BY <1>1, <2>1, <2>2 DEF Inv, Undisturbed, IndicesOK, Entered, Passed
  <2>6. filled = taken \/ filled >= taken + MAX_MESSAGES
    <3>1. ASSUME taken < filled, filled < taken + MAX_MESSAGES
          PROVE  FALSE
      BY <2>4, <2>5, <3>1, SlotsDiffer
    <3>2. QED
      BY <2>4, <3>1
  <2>7. QED
    BY <2>4, <2>6
<1>2. QED
  BY <1>1, Invariance, PTL
=============================================================================
