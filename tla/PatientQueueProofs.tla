-------------------------- MODULE PatientQueueProofs --------------------------
(***************************************************************************)
(* Proofs about the ring buffer of the waiting room, for every             *)
(* CLINIC_QUEUE_SIZE and every set of patients.                            *)
(***************************************************************************)
EXTENDS PatientQueue, NaturalsInduction, WellFoundedInduction, TLAPS

-----------------------------------------------------------------------------
(***************************************************************************)
(* Arithmetic of the expanded macro.                                       *)
(***************************************************************************)

\* The expanded modulus always yields an index of 1..CLINIC_QUEUE_SIZE.
LEMMA ModRange == 
    ASSUME NEW x \in Int
    PROVE  ModQueueSize(x) \in 1 .. CLINIC_QUEUE_SIZE
BY QueueAssumption DEF ModQueueSize

\* Advance moves an index by two slots, cyclically through 1..CLINIC_QUEUE_SIZE.
LEMMA AdvanceUnfolded == 
    ASSUME NEW i \in 1 .. CLINIC_QUEUE_SIZE
    PROVE  Advance(i) = IF i = CLINIC_QUEUE_SIZE 
                          THEN IF CLINIC_QUEUE_SIZE = 1 THEN 1 ELSE 2
                          ELSE IF i = CLINIC_QUEUE_SIZE - 1 THEN 1 ELSE i + 2
BY QueueAssumption DEF Advance, ModQueueSize

\* For two indices the code has computed, queue_count returns
\* CLINIC_QUEUE_SIZE exactly when tail is one Advance behind head.
LEMMA CountWhenFull == 
    ASSUME NEW h \in 1 .. CLINIC_QUEUE_SIZE, NEW t \in 1 .. CLINIC_QUEUE_SIZE
    PROVE  ModQueueSize(t - h + CLINIC_QUEUE_SIZE + 1) = CLINIC_QUEUE_SIZE
             <=> Advance(t) = h
<1> DEFINE d == t - h + CLINIC_QUEUE_SIZE + 1
<1>1. CASE CLINIC_QUEUE_SIZE = 1
  BY <1>1 DEF ModQueueSize, Advance
<1>2. CASE CLINIC_QUEUE_SIZE > 1
  <2>1. d \in 2 .. 2 * CLINIC_QUEUE_SIZE
    BY QueueAssumption
  <2>2. d % CLINIC_QUEUE_SIZE = IF d < CLINIC_QUEUE_SIZE THEN d
                                ELSE IF d < 2 * CLINIC_QUEUE_SIZE THEN d - CLINIC_QUEUE_SIZE
                                ELSE 0
    BY <2>1, QueueAssumption
  <2>3. ModQueueSize(d) = CLINIC_QUEUE_SIZE 
          <=> d = CLINIC_QUEUE_SIZE - 1 \/ d = 2 * CLINIC_QUEUE_SIZE - 1
    BY <1>2, <2>1, <2>2, QueueAssumption DEF ModQueueSize
  <2>4. Advance(t) = IF t = CLINIC_QUEUE_SIZE THEN 2
                     ELSE IF t = CLINIC_QUEUE_SIZE - 1 THEN 1 ELSE t + 2
    BY <1>2, AdvanceUnfolded
  <2>5. Advance(t) = h <=> t - h = -2 \/ t - h = CLINIC_QUEUE_SIZE - 2
    BY <1>2, <2>4, QueueAssumption
  <2>6. QED
    BY <2>3, <2>5, QueueAssumption
<1>3. QED
  BY <1>1, <1>2, QueueAssumption

-----------------------------------------------------------------------------
(***************************************************************************)
(* Remainders modulo CLINIC_QUEUE_SIZE.  The provers do not divide by an   *)
(* unknown number on their own: what they need is said here.               *)
(***************************************************************************)
Remainders == 0 .. CLINIC_QUEUE_SIZE - 1

LEMMA Division == 
    ASSUME NEW x \in Nat
    PROVE  /\ x = CLINIC_QUEUE_SIZE * (x \div CLINIC_QUEUE_SIZE) + (x % CLINIC_QUEUE_SIZE)
           /\ x % CLINIC_QUEUE_SIZE \in Remainders
           /\ x \div CLINIC_QUEUE_SIZE \in Nat
BY QueueAssumption DEF Remainders

LEMMA Multiples == 
    ASSUME NEW a \in Int, NEW b \in Int, a > b
    PROVE  CLINIC_QUEUE_SIZE * a >= CLINIC_QUEUE_SIZE * b + CLINIC_QUEUE_SIZE
<1>1. CLINIC_QUEUE_SIZE * (a - b) >= CLINIC_QUEUE_SIZE
  BY QueueAssumption
<1>2. QED
  BY <1>1, QueueAssumption

LEMMA DivisionUnique == 
    ASSUME NEW x \in Nat, NEW q \in Int, NEW r \in Remainders, x = CLINIC_QUEUE_SIZE * q + r
    PROVE  x % CLINIC_QUEUE_SIZE = r
<1> DEFINE p == x \div CLINIC_QUEUE_SIZE
           s == x % CLINIC_QUEUE_SIZE
<1>1. CLINIC_QUEUE_SIZE * q + r = CLINIC_QUEUE_SIZE * p + s /\ s \in Remainders /\ p \in Int
  BY Division
<1> HIDE DEF p, s
<1>2. q = p
  BY <1>1, Multiples, QueueAssumption DEF Remainders
<1>3. QED
  BY <1>1, <1>2, QueueAssumption DEF s, Remainders

\* A remainder can be taken before adding as well as after.
LEMMA ModPlus == 
    ASSUME NEW x \in Nat, NEW y \in Nat
    PROVE  ((x % CLINIC_QUEUE_SIZE) + y) % CLINIC_QUEUE_SIZE = (x + y) % CLINIC_QUEUE_SIZE
<1> DEFINE q == x \div CLINIC_QUEUE_SIZE
           r == x % CLINIC_QUEUE_SIZE
           z == r + y
           p == z \div CLINIC_QUEUE_SIZE
           s == z % CLINIC_QUEUE_SIZE
<1>1. x = CLINIC_QUEUE_SIZE * q + r /\ r \in Remainders /\ q \in Nat
  BY Division
<1> HIDE DEF q, r
<1>2. z \in Nat
  BY <1>1, QueueAssumption DEF Remainders
<1>3. z = CLINIC_QUEUE_SIZE * p + s /\ s \in Remainders /\ p \in Nat
  BY <1>2, Division
<1> HIDE DEF p, s
<1>4. CLINIC_QUEUE_SIZE * (q + p) = CLINIC_QUEUE_SIZE * q + CLINIC_QUEUE_SIZE * p
  BY <1>1, <1>3, QueueAssumption
<1>5. x + y = CLINIC_QUEUE_SIZE * (q + p) + s
  BY <1>1, <1>3, <1>4, QueueAssumption DEF Remainders
<1>6. (x + y) % CLINIC_QUEUE_SIZE = s
  <2>1. x + y \in Nat /\ q + p \in Int
    BY <1>1, <1>3
  <2>2. QED
    BY <1>3, <1>5, <2>1, DivisionUnique
<1>7. QED
  BY <1>6 DEF s, r

\* Numbers with the same remainder differ by a multiple.
LEMMA SameRemainder == 
    ASSUME NEW x \in Nat, NEW d \in Nat, x % CLINIC_QUEUE_SIZE = (x + d) % CLINIC_QUEUE_SIZE
    PROVE  \E c \in Int : d = CLINIC_QUEUE_SIZE * c
<1> DEFINE q == x \div CLINIC_QUEUE_SIZE
           p == (x + d) \div CLINIC_QUEUE_SIZE
           r == x % CLINIC_QUEUE_SIZE
<1>1. x = CLINIC_QUEUE_SIZE * q + r /\ r \in Remainders /\ q \in Nat
  BY Division
<1>2. x + d = CLINIC_QUEUE_SIZE * p + r /\ p \in Nat
  <2>1. x + d \in Nat
    OBVIOUS
  <2>2. QED
    BY <2>1, Division
<1> HIDE DEF q, p, r
<1>3. CLINIC_QUEUE_SIZE * (p - q) = CLINIC_QUEUE_SIZE * p - CLINIC_QUEUE_SIZE * q
  BY <1>1, <1>2, QueueAssumption
<1>4. d = CLINIC_QUEUE_SIZE * (p - q)
  BY <1>1, <1>2, <1>3, QueueAssumption DEF Remainders
<1>5. QED
  BY <1>1, <1>2, <1>4

-----------------------------------------------------------------------------
(***************************************************************************)
(* The cycle of the indices.                                               *)
(***************************************************************************)
LEMMA CycleFacts == 
    /\ IndexCycle \in 1 .. CLINIC_QUEUE_SIZE
    /\ 2 * IndexCycle = CLINIC_QUEUE_SIZE \/ 2 * IndexCycle = 2 * CLINIC_QUEUE_SIZE
    /\ \A d \in 1 .. IndexCycle - 1, c \in Int : 2 * d # CLINIC_QUEUE_SIZE * c
<1> DEFINE half == CLINIC_QUEUE_SIZE \div 2
           odd == CLINIC_QUEUE_SIZE % 2
<1>1. CLINIC_QUEUE_SIZE = 2 * half + odd /\ odd \in {0, 1} /\ half \in Nat
  BY QueueAssumption
<1>2. IndexCycle = IF odd = 1 THEN CLINIC_QUEUE_SIZE ELSE half
  BY DEF IndexCycle
<1> HIDE DEF half, odd
<1>3. ASSUME NEW d \in 1 .. IndexCycle - 1, NEW c \in Int, 2 * d = CLINIC_QUEUE_SIZE * c
      PROVE  FALSE
  <2>1. 2 * d < 2 * CLINIC_QUEUE_SIZE /\ 2 * d > 0
    BY <1>1, <1>2, QueueAssumption
  <2>2. c = 1
    <3>1. c > 0
      BY <1>3, <2>1, Multiples, QueueAssumption
    <3>2. c < 2
      BY <1>3, <2>1, Multiples, QueueAssumption
    <3>3. QED
      BY <3>1, <3>2
  <2>3. 2 * d = CLINIC_QUEUE_SIZE
    BY <1>3, <2>2, QueueAssumption
  <2>4. QED
    BY <1>1, <1>2, <2>3, QueueAssumption
<1>4. IndexCycle \in 1 .. CLINIC_QUEUE_SIZE /\ 2 * IndexCycle \in {CLINIC_QUEUE_SIZE, 2 * CLINIC_QUEUE_SIZE}
  BY <1>1, <1>2, QueueAssumption
<1>5. QED
  BY <1>3, <1>4

\* Where an index gets to by k calls of Advance: the closed form of IndexAfter.
At(h, k) == IF k = 0 THEN h ELSE ModQueueSize(h - 1 + 2 * k)

LEMMA AtInSlots == 
    ASSUME NEW h \in Slots, NEW k \in Nat
    PROVE  At(h, k) \in Slots /\ (k # 0 => At(h, k) # 0)
BY ModRange, QueueAssumption DEF At, Slots

\* From the first Advance on the form is the same with and without steps.
LEMMA AtIsMod == 
    ASSUME NEW h \in Slots, NEW k \in Nat, h # 0 \/ k # 0
    PROVE  /\ h - 1 + 2 * k \in Nat
           /\ At(h, k) = ((h - 1 + 2 * k) % CLINIC_QUEUE_SIZE) + 1
<1>1. h - 1 + 2 * k \in Nat /\ h \in Nat
  BY QueueAssumption DEF Slots
<1>2. CASE k = 0
  <2>1. h - 1 \in Remainders /\ h - 1 = CLINIC_QUEUE_SIZE * 0 + (h - 1)
    BY <1>2, QueueAssumption DEF Slots, Remainders
  <2>2. (h - 1) % CLINIC_QUEUE_SIZE = h - 1
    BY <1>1, <1>2, <2>1, DivisionUnique
  <2>3. h - 1 + 2 * k = h - 1 /\ (h - 1) + 1 = h
    BY <1>1, <1>2
  <2>4. QED
    BY <1>1, <1>2, <2>2, <2>3 DEF At
<1>3. CASE k # 0
  BY <1>1, <1>3 DEF At, ModQueueSize
<1>4. QED
  BY <1>2, <1>3

LEMMA AtAt == 
    ASSUME NEW h \in Slots, NEW j \in Nat, NEW k \in Nat
    PROVE  At(At(h, j), k) = At(h, j + k)
<1>1. CASE k = 0
  BY <1>1 DEF At
<1>2. CASE j = 0
  BY <1>2 DEF At
<1>3. CASE j # 0 /\ k # 0
  <2> DEFINE x == h - 1 + 2 * j
             r == x % CLINIC_QUEUE_SIZE
  <2>1. x \in Nat /\ At(h, j) = r + 1
    BY <1>3, AtIsMod
  <2>2. At(h, j) \in Slots /\ At(h, j) # 0 /\ r \in Nat
    <3>1. r \in Nat
      BY <2>1, Division DEF Remainders
    <3>2. QED
      BY <1>3, <3>1, AtInSlots
  <2>3. At(At(h, j), k) = ((At(h, j) - 1 + 2 * k) % CLINIC_QUEUE_SIZE) + 1
    BY <2>2, AtIsMod
  <2>4. At(h, j) - 1 + 2 * k = r + 2 * k
    <3> HIDE DEF r
    <3>1. QED
      BY <2>1, <2>2
  <2>5. At(h, j + k) = ((x + 2 * k) % CLINIC_QUEUE_SIZE) + 1
    <3>1. j + k \in Nat /\ j + k # 0 /\ h - 1 + 2 * (j + k) = x + 2 * k
      BY <1>3, QueueAssumption DEF Slots
    <3>2. QED
      BY <3>1, AtIsMod
  <2>6. (r + 2 * k) % CLINIC_QUEUE_SIZE = (x + 2 * k) % CLINIC_QUEUE_SIZE
    BY <2>1, ModPlus
  <2>7. QED
    BY <2>3, <2>4, <2>5, <2>6
<1>4. QED
  BY <1>1, <1>2, <1>3

LEMMA AtNext == 
    ASSUME NEW h \in Slots
    PROVE  Advance(h) = At(h, 1)
<1>1. h - 1 + 2 * 1 = h + 1
  BY QueueAssumption DEF Slots
<1>2. QED
  BY <1>1 DEF Advance, At

\* The most patients the queue can hold.
Limit(h) == IF h = 0 THEN IndexCycle ELSE IndexCycle - 1

\* Until the queue is full an index comes to no slot twice, ...
LEMMA AtDistinct == 
    ASSUME NEW h \in Slots, NEW k \in 0 .. Limit(h), NEW j \in 0 .. k - 1
    PROVE  At(h, j) # At(h, k)
<1>1. k \in Nat /\ j \in Nat /\ k - j \in 1 .. k /\ k # 0
  BY CycleFacts, QueueAssumption DEF Limit
<1>2. CASE h = 0 /\ j = 0
  BY <1>1, <1>2, AtInSlots DEF At
<1>3. CASE h # 0 \/ j # 0
  <2> DEFINE x == h - 1 + 2 * j
             d == k - j
  <2>1. SUFFICES ASSUME At(h, j) = At(h, k)
                 PROVE  FALSE
    OBVIOUS
  <2>2. x \in Nat /\ At(h, j) = (x % CLINIC_QUEUE_SIZE) + 1
    BY <1>1, <1>3, AtIsMod
  <2>3. At(h, k) = ((x + 2 * d) % CLINIC_QUEUE_SIZE) + 1
    <3>1. h - 1 + 2 * k = x + 2 * d
      BY <1>1, QueueAssumption DEF Slots
    <3>2. QED
      BY <1>1, <3>1, AtIsMod
  <2>4. d \in 1 .. IndexCycle - 1
    BY <1>1, <1>3, CycleFacts DEF Limit
  <2>5. x % CLINIC_QUEUE_SIZE = (x + 2 * d) % CLINIC_QUEUE_SIZE
    <3> DEFINE a == x % CLINIC_QUEUE_SIZE
               b == (x + 2 * d) % CLINIC_QUEUE_SIZE
    <3>1. 2 * d \in Nat /\ x + 2 * d \in Nat
      BY <2>2, <2>4, CycleFacts
    <3>2. a \in Int /\ b \in Int
      BY <2>2, <3>1, Division DEF Remainders
    <3>3. a + 1 = b + 1
      BY <2>1, <2>2, <2>3
    <3> HIDE DEF a, b
    <3>4. a = b
      BY <3>2, <3>3
    <3>5. QED
      BY <3>4 DEF a, b
  <2>6. 2 * d \in Nat
    BY <2>4, CycleFacts
  <2>7. \E c \in Int : 2 * d = CLINIC_QUEUE_SIZE * c
    BY <2>2, <2>5, <2>6, SameRemainder
  <2>8. QED
    BY <2>4, <2>7, CycleFacts
<1>4. QED
  BY <1>2, <1>3

\* ... and one more Advance leads back to the head, or to the slot behind it.
LEMMA AtCycle == 
    /\ \A h \in Slots : h # 0 => At(h, IndexCycle) = h
    /\ At(0, IndexCycle + 1) = At(0, 1)
<1>1. PICK c \in {1, 2} : 2 * IndexCycle = CLINIC_QUEUE_SIZE * c
  BY CycleFacts, QueueAssumption
<1>2. IndexCycle \in Nat /\ 0 \in Slots
  BY CycleFacts, QueueAssumption DEF Slots
<1>3. ASSUME NEW h \in Slots, h # 0
      PROVE  At(h, IndexCycle) = h
  <2>1. /\ h - 1 + 2 * IndexCycle = CLINIC_QUEUE_SIZE * c + (h - 1)
        /\ h - 1 \in Remainders /\ c \in Int
    BY <1>1, <1>2, <1>3, QueueAssumption DEF Slots, Remainders
  <2>2. h - 1 + 2 * IndexCycle \in Nat /\ At(h, IndexCycle) = ((h - 1 + 2 * IndexCycle) % CLINIC_QUEUE_SIZE) + 1
    BY <1>2, <1>3, AtIsMod
  <2>3. (h - 1 + 2 * IndexCycle) % CLINIC_QUEUE_SIZE = h - 1
    BY <2>1, <2>2, DivisionUnique
  <2>4. QED
    BY <2>2, <2>3, QueueAssumption DEF Slots
<1>4. At(0, IndexCycle + 1) = At(0, 1)
  <2> DEFINE p == 1 \div CLINIC_QUEUE_SIZE
             r == 1 % CLINIC_QUEUE_SIZE
             x == 2 * IndexCycle + 1
  <2>1. 1 = CLINIC_QUEUE_SIZE * p + r /\ r \in Remainders /\ p \in Nat
    BY Division
  <2>2. At(0, 1) = r + 1 /\ At(0, IndexCycle + 1) = (x % CLINIC_QUEUE_SIZE) + 1
    <3>1. 0 - 1 + 2 * 1 = 1 /\ 0 - 1 + 2 * (IndexCycle + 1) = x /\ IndexCycle + 1 # 0
      BY <1>2
    <3>2. QED
      BY <1>2, <3>1 DEF At, ModQueueSize
  <2> HIDE DEF p, r
  <2>3. CLINIC_QUEUE_SIZE * (c + p) = CLINIC_QUEUE_SIZE * c + CLINIC_QUEUE_SIZE * p
    BY <2>1, QueueAssumption
  <2>4. x = CLINIC_QUEUE_SIZE * (c + p) + r /\ x \in Nat /\ c + p \in Int
    BY <1>1, <1>2, <2>1, <2>3, QueueAssumption DEF Remainders
  <2> HIDE DEF x
  <2>5. x % CLINIC_QUEUE_SIZE = r
    BY <2>1, <2>4, DivisionUnique
  <2>6. QED
    BY <2>2, <2>5
<1>5. QED
  BY <1>3, <1>4

-----------------------------------------------------------------------------
(***************************************************************************)
(* IndexAfter and Window.  That the recursive function exists is shown by  *)
(* its closed form, and that it is the closed form by the least argument   *)
(* for which it would not be.                                              *)
(***************************************************************************)
LEMMA LeastNumber == 
    ASSUME NEW S, S \subseteq Nat, S # {}
    PROVE  \E x \in S : \A y \in S : x <= y
<1> DEFINE R == OpToRel(<, Nat)
<1>1. IsWellFoundedOn(R, Nat)
  BY NatLessThanWellFounded
<1> HIDE DEF R
<1>2. PICK x \in S : \A y \in S : ~ (<<y, x>> \in R)
  BY <1>1, WFMin
<1>3. ASSUME NEW y \in S
      PROVE  x <= y
  <2>1. y < x => <<y, x>> \in R
    BY DEF R, OpToRel
  <2>2. QED
    BY <1>2, <2>1
<1>4. QED
  BY <1>3

LEMMA AtStep == 
    ASSUME NEW h \in Slots, NEW k \in Nat, k # 0
    PROVE  At(h, k) = Advance(At(h, k - 1))
<1>1. k - 1 \in Nat /\ (k - 1) + 1 = k
  OBVIOUS
<1>2. At(h, k - 1) \in Slots
  BY <1>1, AtInSlots
<1>3. At(At(h, k - 1), 1) = At(h, (k - 1) + 1)
  BY <1>1, AtAt
<1>4. QED
  BY <1>1, <1>2, <1>3, AtNext

LEMMA IndexAfterUnfolds == 
    ASSUME NEW h \in Slots
    PROVE  IndexAfter[h] = [k \in 0 .. CLINIC_QUEUE_SIZE |-> 
                              IF k = 0 THEN h ELSE Advance(IndexAfter[h][k - 1])]
<1> DEFINE closed == [k \in 0 .. CLINIC_QUEUE_SIZE |-> At(h, k)]
           Step(f) == [k \in 0 .. CLINIC_QUEUE_SIZE |-> IF k = 0 THEN h ELSE Advance(f[k - 1])]
<1>1. closed = Step(closed)
  <2>1. ASSUME NEW k \in 0 .. CLINIC_QUEUE_SIZE
        PROVE  At(h, k) = IF k = 0 THEN h ELSE Advance(closed[k - 1])
    <3>1. CASE k = 0
      BY <3>1 DEF At
    <3>2. CASE k # 0
      BY <3>2, AtStep, QueueAssumption
    <3>3. QED
      BY <3>1, <3>2
  <2>2. QED
    BY <2>1
<1>2. IndexAfter[h] = CHOOSE f : f = Step(f)
  BY DEF IndexAfter
<1> HIDE DEF closed, Step
<1>3. IndexAfter[h] = Step(IndexAfter[h])
  BY <1>1, <1>2
<1>4. QED
  BY <1>3 DEF Step

LEMMA IndexAfterIs == 
    ASSUME NEW h \in Slots, NEW k \in 0 .. CLINIC_QUEUE_SIZE
    PROVE  IndexAfter[h][k] = At(h, k)
<1> DEFINE wrong == {j \in 0 .. CLINIC_QUEUE_SIZE : IndexAfter[h][j] # At(h, j)}
<1>1. SUFFICES ASSUME wrong # {}
               PROVE  FALSE
  OBVIOUS
<1>2. wrong \subseteq Nat
  BY QueueAssumption
<1>3. PICK j \in wrong : \A i \in wrong : j <= i
  <2> HIDE DEF wrong
  <2>1. QED
    BY <1>1, <1>2, LeastNumber
<1>4. j \in 0 .. CLINIC_QUEUE_SIZE /\ IndexAfter[h][j] # At(h, j)
  BY <1>3
<1>5. IndexAfter[h][j] = IF j = 0 THEN h ELSE Advance(IndexAfter[h][j - 1])
  BY <1>4, IndexAfterUnfolds
<1>6. CASE j = 0
  BY <1>4, <1>5, <1>6 DEF At
<1>7. CASE j # 0
  <2>1. j - 1 \in 0 .. CLINIC_QUEUE_SIZE /\ ~(j <= j - 1)
    BY <1>4, <1>7, QueueAssumption
  <2>2. IndexAfter[h][j - 1] = At(h, j - 1)
    BY <1>3, <2>1
  <2>3. QED
    BY <1>4, <1>5, <1>7, <2>2, AtStep, QueueAssumption
<1>8. QED
  BY <1>6, <1>7

LEMMA WindowIs == 
    ASSUME NEW h \in Slots, NEW k \in 0 .. Limit(h)
    PROVE  Window[h][At(h, k)] = [n \in 1 .. k |-> At(h, n - 1)]
<1> DEFINE t == At(h, k)
           sizes == {m \in 0 .. CLINIC_QUEUE_SIZE : 
                       /\ IndexAfter[h][m] = t
                       /\ \A j \in 0 .. m - 1 : IndexAfter[h][j] # t}
<1>1. /\ k \in 0 .. CLINIC_QUEUE_SIZE /\ k \in Nat
      /\ \A m \in 0 .. CLINIC_QUEUE_SIZE : m \in Nat /\ 0 .. m - 1 \subseteq 0 .. CLINIC_QUEUE_SIZE
  BY CycleFacts, QueueAssumption DEF Limit
<1>2. t \in Slots
  BY <1>1, AtInSlots
<1>3. k \in sizes
  <2>1. ASSUME NEW j \in 0 .. k - 1
        PROVE  IndexAfter[h][j] # t
    BY <1>1, AtDistinct, IndexAfterIs
  <2>2. QED
    BY <1>1, <2>1, IndexAfterIs
<1>4. ASSUME NEW m \in sizes
      PROVE  m = k
  <2>1. m \in 0 .. CLINIC_QUEUE_SIZE /\ IndexAfter[h][m] = t
    OBVIOUS
  <2>2. ~(m < k)
    <3>1. m < k => m \in 0 .. k - 1
      BY <1>1, <2>1
    <3>2. QED
      BY <1>3, <2>1, <3>1
  <2>3. ~(k < m)
    <3>1. k < m => k \in 0 .. m - 1
      BY <1>1, <2>1
    <3>2. QED
      BY <1>3, <3>1
  <2>4. QED
    BY <1>1, <2>1, <2>2, <2>3
<1>5. sizes # {} /\ (CHOOSE m \in sizes : TRUE) = k
  <2> HIDE DEF sizes
  <2>1. QED
    BY <1>3, <1>4
<1>6. Window[h][t] = IF sizes = {} THEN <<>>
                     ELSE [n \in 1 .. (CHOOSE m \in sizes : TRUE) |-> IndexAfter[h][n - 1]]
  BY <1>2 DEF Window
<1>7. Window[h][t] = [n \in 1 .. k |-> IndexAfter[h][n - 1]]
  <2> HIDE DEF sizes
  <2>1. QED
    BY <1>5, <1>6
<1>8. \A n \in 1 .. k : n - 1 \in 0 .. CLINIC_QUEUE_SIZE
  BY <1>1
<1>9. QED
  BY <1>7, <1>8, IndexAfterIs

-----------------------------------------------------------------------------
(***************************************************************************)
(* The patients who wait.                                                  *)
(***************************************************************************)

\* k patients are queued from slot h to slot t of the array.
Holds(h, t, array, k) == 
    /\ k \in 0 .. Limit(h)
    /\ t = At(h, k)
    /\ \A n \in 1 .. k : array[At(h, n - 1)] \in Patient

\* Waiting, for any head, tail and queue_array.
WaitingIn(h, t, array) == [k \in DOMAIN Window[h][t] |-> array[Window[h][t][k]]]

LEMMA WaitingInIs == 
    ASSUME NEW h \in Slots, NEW t, NEW array, NEW k, Holds(h, t, array, k)
    PROVE  /\ WaitingIn(h, t, array) \in Seq(Patient)
           /\ Len(WaitingIn(h, t, array)) = k
           /\ \A n \in 1 .. k : WaitingIn(h, t, array)[n] = array[At(h, n - 1)]
<1>1. k \in 0 .. Limit(h) /\ k \in Nat
  BY CycleFacts, QueueAssumption DEF Holds, Limit
<1>2. Window[h][t] = [n \in 1 .. k |-> At(h, n - 1)]
  BY <1>1, WindowIs DEF Holds
<1>3. WaitingIn(h, t, array) = [n \in 1 .. k |-> array[At(h, n - 1)]]
  BY <1>2 DEF WaitingIn
<1>4. WaitingIn(h, t, array) \in [1 .. k -> Patient]
  BY <1>3 DEF Holds
<1>5. QED
  BY <1>1, <1>3, <1>4

-----------------------------------------------------------------------------
(***************************************************************************)
(* The inductive invariant: types, and a tail that the head can get to by  *)
(* fewer calls of Advance than the cycle has, passing patients only.       *)
(***************************************************************************)
QueueInv == QueueTypeOK /\ \E k \in 0 .. CLINIC_QUEUE_SIZE : Holds(head, tail, queue_array, k)

LEMMA LimitInRange == 
    ASSUME NEW h \in Slots
    PROVE  Limit(h) \in 0 .. CLINIC_QUEUE_SIZE
BY CycleFacts, QueueAssumption DEF Limit

LEMMA InvWaiting == 
    ASSUME QueueInv
    PROVE  /\ Waiting \in Seq(Patient)
           /\ Holds(head, tail, queue_array, Len(Waiting))
           /\ \A n \in 1 .. Len(Waiting) : Waiting[n] = queue_array[At(head, n - 1)]
<1>1. PICK k : Holds(head, tail, queue_array, k)
  BY DEF QueueInv
<1>2. Waiting = WaitingIn(head, tail, queue_array)
  BY DEF Waiting, WaitingIn
<1>3. head \in Slots
  BY DEF QueueInv, QueueTypeOK
<1>4. QED
  BY <1>1, <1>2, <1>3, WaitingInIs

\* The same of the next state, where it is to be shown.
LEMMA NextWaiting == 
    ASSUME QueueTypeOK', NEW k, Holds(head', tail', queue_array', k)
    PROVE  /\ QueueInv'
           /\ Waiting' \in Seq(Patient)
           /\ Len(Waiting') = k
           /\ \A n \in 1 .. k : Waiting'[n] = queue_array'[At(head', n - 1)]
<1>1. Waiting' = WaitingIn(head', tail', queue_array')
  BY DEF Waiting, WaitingIn
<1>2. head' \in Slots
  BY DEF QueueTypeOK
<1>3. k \in 0 .. CLINIC_QUEUE_SIZE
  BY <1>2, LimitInRange, QueueAssumption DEF Holds
<1>4. QueueInv'
  BY <1>3 DEF QueueInv
<1>5. QED
  BY <1>1, <1>2, <1>4, WaitingInIs

\* An index that is not full or empty differs from the head, and the other way round.
LEMMA EmptyIsEmpty == 
    ASSUME QueueInv
    PROVE  queue_is_empty <=> Waiting = <<>>
<1>1. /\ head \in Slots /\ Waiting \in Seq(Patient)
      /\ Len(Waiting) \in 0 .. Limit(head) /\ tail = At(head, Len(Waiting))
  BY InvWaiting DEF QueueInv, QueueTypeOK, Holds
<1>2. CASE Len(Waiting) = 0
  BY <1>1, <1>2 DEF At, queue_is_empty
<1>3. CASE Len(Waiting) # 0
  <2>1. 0 \in 0 .. Len(Waiting) - 1
    BY <1>1, <1>3
  <2>2. At(head, 0) # At(head, Len(Waiting))
    BY <1>1, <2>1, AtDistinct
  <2>3. QED
    BY <1>1, <1>3, <2>2 DEF At, queue_is_empty
<1>4. QED
  BY <1>2, <1>3

-----------------------------------------------------------------------------
(***************************************************************************)
(* What the operations of the queue do to those who wait.                  *)
(***************************************************************************)
LEMMA AddStep == 
    ASSUME QueueInv, NEW p \in Patient, queue_add(p)
    PROVE  /\ QueueInv'
           /\ \/ /\ Len(Waiting) < Limit(head)
                 /\ Waiting' = Append(Waiting, p)
              \/ /\ head = 0 /\ Len(Waiting) = IndexCycle
                 /\ Waiting' = <<Head(Waiting)>>
<1> DEFINE k == Len(Waiting)
<1>1. /\ head \in Slots /\ tail \in Slots /\ queue_array \in [Slots -> Patient \cup {NULL}]
      /\ Waiting \in Seq(Patient) /\ k \in 0 .. Limit(head) /\ k \in Nat /\ tail = At(head, k)
      /\ \A n \in 1 .. k : Waiting[n] = queue_array[At(head, n - 1)]
  BY InvWaiting DEF QueueInv, QueueTypeOK, Holds
<1>2. /\ head' = head /\ tail' = At(head, k + 1)
      /\ queue_array' = [queue_array EXCEPT ![tail] = p]
  <2>1. Advance(tail) = At(At(head, k), 1)
    BY <1>1, AtNext
  <2>2. QED
    BY <1>1, <2>1, AtAt DEF queue_add
<1>3. QueueTypeOK'
  <2>1. k + 1 \in Nat
    BY <1>1
  <2>2. tail' \in Slots
    BY <1>1, <1>2, <2>1, AtInSlots
  <2>3. QED
    BY <1>1, <1>2, <2>2 DEF QueueTypeOK
<1>4. queue_array'[tail] = p
  BY <1>1, <1>2
<1>5. ASSUME NEW n \in 1 .. k
      PROVE  queue_array'[At(head, n - 1)] = Waiting[n]
  <2>1. n - 1 \in 0 .. k - 1 /\ n - 1 \in Nat
    BY <1>1
  <2>2. At(head, n - 1) # tail /\ At(head, n - 1) \in Slots
    BY <1>1, <2>1, AtDistinct, AtInSlots
  <2>3. QED
    BY <1>1, <1>2, <2>2
<1> HIDE DEF k
<1>6. CASE k < Limit(head)
  <2>1. Holds(head', tail', queue_array', k + 1)
    <3>1. k + 1 \in 0 .. Limit(head')
      BY <1>1, <1>2, <1>6, LimitInRange, QueueAssumption
    <3>2. ASSUME NEW n \in 1 .. k + 1
          PROVE  queue_array'[At(head', n - 1)] \in Patient
      <4>1. CASE n = k + 1
        BY <1>1, <1>2, <1>4, <4>1
      <4>2. CASE n # k + 1
        <5>1. n \in 1 .. k /\ n \in 1 .. Len(Waiting)
          BY <1>1, <4>2 DEF k
        <5>2. QED
          BY <1>1, <1>2, <1>5, <5>1
      <4>3. QED
        BY <4>1, <4>2
    <3>3. QED
      BY <1>2, <3>1, <3>2 DEF Holds
  <2>2. /\ QueueInv' /\ Waiting' \in Seq(Patient) /\ Len(Waiting') = k + 1
        /\ \A n \in 1 .. k + 1 : Waiting'[n] = queue_array'[At(head', n - 1)]
    BY <1>3, <2>1, NextWaiting
  <2>3. Waiting' = Append(Waiting, p)
    <3>1. Append(Waiting, p) \in Seq(Patient) /\ Len(Append(Waiting, p)) = k + 1
      BY <1>1 DEF k
    <3>2. ASSUME NEW n \in 1 .. k + 1
          PROVE  Waiting'[n] = Append(Waiting, p)[n]
      <4>1. CASE n = k + 1
        BY <1>1, <1>2, <1>4, <2>2, <4>1 DEF k
      <4>2. CASE n # k + 1
        <5>1. n \in 1 .. k /\ n \in 1 .. Len(Waiting)
          BY <1>1, <4>2 DEF k
        <5>2. Append(Waiting, p)[n] = Waiting[n]
          BY <1>1, <5>1
        <5>3. QED
          BY <1>2, <1>5, <2>2, <5>1, <5>2
      <4>3. QED
        BY <4>1, <4>2
    <3>3. QED
      BY <2>2, <3>1, <3>2
  <2>4. QED
    BY <1>6, <2>2, <2>3 DEF k
<1>7. CASE ~(k < Limit(head))
  <2>1. k = Limit(head)
    BY <1>1, <1>7, LimitInRange, QueueAssumption
  <2>2. head = 0
    <3>1. SUFFICES ASSUME head # 0
                   PROVE  FALSE
      OBVIOUS
    <3>2. k + 1 = IndexCycle
      BY <2>1, <3>1, CycleFacts DEF Limit
    <3>3. tail' = head
      BY <1>1, <1>2, <3>1, <3>2, AtCycle
    <3>4. QED
      BY <3>3 DEF queue_add, queue_is_full
  <2>3. k = IndexCycle /\ k # 0 /\ tail' = At(head', 1)
    BY <1>2, <2>1, <2>2, CycleFacts, AtCycle DEF Limit
  <2>4. queue_array'[At(head', 0)] = Waiting[1] /\ Waiting[1] \in Patient
    <3>1. 1 \in 1 .. k /\ 1 \in 1 .. Len(Waiting) /\ 1 - 1 = 0
      BY <1>1, <2>3 DEF k
    <3>2. QED
      BY <1>1, <1>2, <1>5, <3>1
  <2>5. Holds(head', tail', queue_array', 1)
    <3>1. 1 \in 0 .. Limit(head')
      BY <1>2, <2>2, CycleFacts DEF Limit
    <3>2. \A n \in 1 .. 1 : n - 1 = 0
      OBVIOUS
    <3>3. QED
      BY <2>3, <2>4, <3>1, <3>2 DEF Holds
  <2>6. /\ QueueInv' /\ Waiting' \in Seq(Patient) /\ Len(Waiting') = 1
        /\ \A n \in 1 .. 1 : Waiting'[n] = queue_array'[At(head', n - 1)]
    BY <1>3, <2>5, NextWaiting
  <2>7. Waiting' = <<Waiting'[1]>> /\ Waiting'[1] = queue_array'[At(head', 0)]
    <3>1. 1 \in 1 .. 1 /\ 1 - 1 = 0
      OBVIOUS
    <3>2. QED
      BY <2>6, <3>1
  <2>8. QED
    BY <1>1, <2>2, <2>3, <2>4, <2>6, <2>7 DEF k
<1>8. QED
  BY <1>6, <1>7

LEMMA PopStep == 
    ASSUME QueueInv, queue_pop
    PROVE  /\ QueueInv'
           /\ Waiting \in Seq(Patient) /\ Waiting # <<>>
           /\ Waiting' = Tail(Waiting)
           /\ queue_array[head] = Head(Waiting)
           /\ head' # 0
<1> DEFINE k == Len(Waiting)
<1>1. /\ head \in Slots /\ tail \in Slots /\ queue_array \in [Slots -> Patient \cup {NULL}]
      /\ Waiting \in Seq(Patient) /\ k \in 0 .. Limit(head) /\ k \in Nat /\ tail = At(head, k)
      /\ \A n \in 1 .. k : Waiting[n] = queue_array[At(head, n - 1)]
      /\ \A n \in 1 .. k : Waiting[n] \in Patient
  BY InvWaiting DEF QueueInv, QueueTypeOK, Holds
<1>2. Waiting # <<>> /\ k # 0
  BY <1>1, EmptyIsEmpty DEF queue_pop
<1>3. /\ head' = At(head, 1) /\ tail' = tail
      /\ queue_array' = [queue_array EXCEPT ![head] = NULL]
  BY <1>1, AtNext DEF queue_pop
<1>4. head' \in Slots /\ head' # 0
  BY <1>1, <1>3, AtInSlots
<1>5. QueueTypeOK'
  BY <1>1, <1>3, <1>4 DEF QueueTypeOK
<1>6. queue_array[head] = Head(Waiting)
  <2>1. 1 \in 1 .. k /\ 1 - 1 = 0 /\ Head(Waiting) = Waiting[1]
    BY <1>1, <1>2
  <2>2. QED
    BY <1>1, <2>1 DEF At
<1>7. ASSUME NEW n \in 1 .. k - 1
      PROVE  queue_array'[At(head', n - 1)] = Waiting[n + 1]
  <2>1. n - 1 \in Nat /\ n \in Nat /\ n + 1 \in 1 .. k /\ (n + 1) - 1 = n /\ 1 + (n - 1) = n
    BY <1>1
  <2>2. At(head', n - 1) = At(head, n) /\ At(head, n) \in Slots
    BY <1>1, <1>3, <2>1, AtAt, AtInSlots
  <2>3. At(head, n) # head
    <3>1. n \in 0 .. Limit(head) /\ 0 \in 0 .. n - 1
      BY <1>1, LimitInRange, QueueAssumption
    <3>2. At(head, 0) # At(head, n)
      BY <1>1, <3>1, AtDistinct
    <3>3. QED
      BY <3>2 DEF At
  <2>4. Waiting[n + 1] = queue_array[At(head, n)]
    BY <1>1, <2>1
  <2>5. QED
    BY <1>1, <1>3, <2>2, <2>3, <2>4
<1> HIDE DEF k
<1>8. Holds(head', tail', queue_array', k - 1)
  <2>1. k - 1 \in 0 .. Limit(head')
    BY <1>1, <1>2, <1>4, CycleFacts, QueueAssumption DEF Limit
  <2>2. tail' = At(head', k - 1)
    <3>1. k - 1 \in Nat /\ 1 + (k - 1) = k
      BY <1>1, <1>2
    <3>2. QED
      BY <1>1, <1>3, <3>1, AtAt
  <2>3. ASSUME NEW n \in 1 .. k - 1
        PROVE  queue_array'[At(head', n - 1)] \in Patient
    <3>1. n + 1 \in 1 .. k
      BY <1>1
    <3>2. QED
      BY <1>1, <1>7, <3>1
  <2>4. QED
    BY <2>1, <2>2, <2>3 DEF Holds
<1>9. /\ QueueInv' /\ Waiting' \in Seq(Patient) /\ Len(Waiting') = k - 1
      /\ \A n \in 1 .. k - 1 : Waiting'[n] = queue_array'[At(head', n - 1)]
  BY <1>5, <1>8, NextWaiting
<1>10. Waiting' = Tail(Waiting)
  <2>1. Tail(Waiting) \in Seq(Patient) /\ Len(Tail(Waiting)) = k - 1
    BY <1>1, <1>2 DEF k
  <2>2. ASSUME NEW n \in 1 .. k - 1
        PROVE  Waiting'[n] = Tail(Waiting)[n]
    <3>1. Tail(Waiting)[n] = Waiting[n + 1]
      BY <1>1, <1>2 DEF k
    <3>2. QED
      BY <1>7, <1>9, <3>1
  <2>3. QED
    BY <1>9, <2>1, <2>2
<1>11. QED
  BY <1>1, <1>2, <1>4, <1>6, <1>9, <1>10

LEMMA EmptyHolds == 
    ASSUME QueueTypeOK', head' = 0, tail' = 0
    PROVE  QueueInv' /\ Waiting' = <<>>
<1>1. Holds(head', tail', queue_array', 0)
  BY CycleFacts, QueueAssumption DEF Holds, Limit, At
<1>2. QueueInv' /\ Waiting' \in Seq(Patient) /\ Len(Waiting') = 0
  BY <1>1, NextWaiting
<1>3. QED
  BY <1>2

LEMMA InitStep == queue_init => QueueInv
<1> SUFFICES ASSUME queue_init
             PROVE  QueueInv
  OBVIOUS
<1>1. QueueTypeOK
  BY QueueAssumption DEF queue_init, QueueTypeOK, Slots
<1>2. Holds(head, tail, queue_array, 0)
  BY CycleFacts, QueueAssumption DEF queue_init, Holds, Limit, At
<1>3. QED
  BY <1>1, <1>2, QueueAssumption DEF QueueInv

LEMMA ClearStep == 
    ASSUME QueueInv, clear_queue
    PROVE  QueueInv' /\ Waiting' = <<>>
<1>1. QueueTypeOK'
  BY QueueAssumption DEF clear_queue, QueueTypeOK, Slots
<1>2. QED
  BY <1>1, EmptyHolds DEF clear_queue

LEMMA StutterStep == 
    ASSUME QueueInv, UNCHANGED queueVars
    PROVE  QueueInv' /\ Waiting' = Waiting
BY DEF queueVars, QueueInv, QueueTypeOK, Waiting

LEMMA QueueInvStep == QueueInv /\ [QueueNext]_queueVars => QueueInv'
<1> SUFFICES ASSUME QueueInv, [QueueNext]_queueVars
             PROVE  QueueInv'
  OBVIOUS
<1>1. CASE UNCHANGED queueVars \/ queue_add_refused \/ queue_pop_empty
  BY <1>1, StutterStep DEF queue_add_refused, queue_pop_empty
<1>2. QED
  BY <1>1, AddStep, PopStep, ClearStep DEF QueueNext

LEMMA QueueInvariant == QueueSpec => []QueueInv
BY InitStep, QueueInvStep, PTL DEF QueueSpec

-----------------------------------------------------------------------------
(***************************************************************************)
(* What follows from the invariant.                                        *)
(***************************************************************************)

\* Memory safety of queue.c for every CLINIC_QUEUE_SIZE: head and tail never
\* leave queue_array, whatever sequence of adds, pops and clears is made.
THEOREM IndicesInBounds == QueueSpec => []QueueTypeOK
<1>1. QueueInv => QueueTypeOK
  BY DEF QueueInv
<1>2. QED
  BY <1>1, QueueInvariant, PTL

\* The count that wakes the doctor (doctor.c:122, patient.c:118) is returned
\* exactly by a full queue once a patient has been popped, and before that
\* queue_add never refuses.
THEOREM WakingCountIsFull == QueueSpec => []FullIsCounted
<1>1. QueueInv => FullIsCounted
  <2> SUFFICES ASSUME QueueInv
               PROVE  FullIsCounted
    OBVIOUS
  <2>1. CASE head = 0
    <3>1. Advance(tail) # 0
      BY ModRange, QueueAssumption DEF Advance, QueueInv, QueueTypeOK, Slots
    <3>2. QED
      BY <2>1, <3>1 DEF FullIsCounted, queue_is_full
  <2>2. CASE head # 0
    <3>1. head \in Slots /\ tail \in Slots /\ Len(Waiting) \in Nat /\ tail = At(head, Len(Waiting))
      BY InvWaiting DEF QueueInv, QueueTypeOK, Holds
    <3>2. tail # 0
      BY <2>2, <3>1, AtInSlots DEF At
    <3>3. head \in 1 .. CLINIC_QUEUE_SIZE /\ tail \in 1 .. CLINIC_QUEUE_SIZE
      BY <2>2, <3>1, <3>2, QueueAssumption DEF Slots
    <3>4. QED
      BY <2>2, <3>3, CountWhenFull DEF FullIsCounted, queue_is_full, queue_count
  <2>3. QED
    BY <2>1, <2>2
<1>2. QED
  BY <1>1, QueueInvariant, PTL

LEMMA InvCount == 
    ASSUME QueueInv
    PROVE  CountOfWaiting
<1> DEFINE k == Len(Waiting)
           x == head - 1 + 2 * k
           d == tail - head + CLINIC_QUEUE_SIZE + 1
<1>1. head \in Slots /\ tail \in Slots /\ k \in Nat /\ tail = At(head, k)
  BY InvWaiting DEF QueueInv, QueueTypeOK, Holds
<1> HIDE DEF k
<1>2. d \in Nat
  BY <1>1, QueueAssumption DEF Slots
<1>3. d % CLINIC_QUEUE_SIZE = (2 * k + 1) % CLINIC_QUEUE_SIZE
  <2>1. CASE head = 0 /\ k = 0
    <3>1. d = CLINIC_QUEUE_SIZE + 1 /\ 2 * k + 1 = 1
      BY <1>1, <2>1, QueueAssumption DEF At
    <3>2. (CLINIC_QUEUE_SIZE + 1) % CLINIC_QUEUE_SIZE = 1 % CLINIC_QUEUE_SIZE
      <4>1. CLINIC_QUEUE_SIZE % CLINIC_QUEUE_SIZE = 0 /\ 1 \in Nat /\ 0 + 1 = 1
        BY QueueAssumption
      <4>2. ((CLINIC_QUEUE_SIZE % CLINIC_QUEUE_SIZE) + 1) % CLINIC_QUEUE_SIZE = (CLINIC_QUEUE_SIZE + 1) % CLINIC_QUEUE_SIZE
        BY <4>1, ModPlus, QueueAssumption
      <4>3. QED
        BY <4>1, <4>2
    <3>3. QED
      BY <3>1, <3>2
  <2>2. CASE head # 0 \/ k # 0
    <3> DEFINE q == x \div CLINIC_QUEUE_SIZE
               r == x % CLINIC_QUEUE_SIZE
               p == (2 * k + 1) \div CLINIC_QUEUE_SIZE
               s == (2 * k + 1) % CLINIC_QUEUE_SIZE
    <3>1. x \in Nat /\ tail = r + 1
      BY <1>1, <2>2, AtIsMod
    <3>2. x = CLINIC_QUEUE_SIZE * q + r /\ r \in Remainders /\ q \in Nat
      BY <3>1, Division
    <3>3. 2 * k + 1 = CLINIC_QUEUE_SIZE * p + s /\ s \in Remainders /\ p \in Nat
      <4>1. 2 * k + 1 \in Nat
        BY <1>1
      <4>2. QED
        BY <4>1, Division
    <3> HIDE DEF q, r, p, s
    <3>4. CLINIC_QUEUE_SIZE * ((p - q) + 1) = CLINIC_QUEUE_SIZE * p - CLINIC_QUEUE_SIZE * q + CLINIC_QUEUE_SIZE
      BY <3>2, <3>3, QueueAssumption
    <3>5. d = CLINIC_QUEUE_SIZE * ((p - q) + 1) + s
      BY <1>1, <3>1, <3>2, <3>3, <3>4, QueueAssumption DEF Slots, Remainders
    <3>6. d % CLINIC_QUEUE_SIZE = s
      <4> HIDE DEF d
      <4>1. QED
        BY <1>2, <3>2, <3>3, <3>5, DivisionUnique
    <3>7. QED
      BY <3>6 DEF s
  <2>3. QED
    BY <2>1, <2>2
<1>4. QED
  BY <1>3 DEF CountOfWaiting, queue_count, ModQueueSize, k, d

\* What queue_count returns for n patients is (2n + 1) % QUEUE_SIZE, with the
\* macro expanded (queue.c:6), whatever was added and popped before.
THEOREM CountIsOfWaiting == QueueSpec => []CountOfWaiting
BY InvCount, QueueInvariant, PTL

\* Seen from its users the ring buffer is the waiting room: patients are popped
\* in the order in which they were added, nobody is lost once somebody has been
\* popped, and before that the queue wraps around rather than refuse.
THEOREM QueueImplementsWaitingRoom == QueueSpec => ImplementsWaitingRoom
<1>1. queue_init => Room!RoomInit
  <2> SUFFICES ASSUME queue_init
               PROVE  Waiting = <<>> /\ (head # 0) = FALSE
    BY DEF Room!RoomInit
  <2>1. QueueInv /\ queue_is_empty
    BY InitStep DEF queue_init, queue_is_empty
  <2>2. QED
    BY <2>1, EmptyIsEmpty DEF queue_init
<1>2. ASSUME QueueInv, [QueueNext]_queueVars
      PROVE  [Room!RoomNext]_(Room!roomVars)
  <2>1. ASSUME NEW p \in Patient, queue_add(p)
        PROVE  Room!RoomNext
    <3>1. head' = head
      BY <2>1 DEF queue_add
    <3>2. CASE Len(Waiting) < Limit(head) /\ Waiting' = Append(Waiting, p)
      BY <2>1, <3>1, <3>2 DEF Room!RoomNext, Room!Enter, Limit
    <3>3. CASE head = 0 /\ Len(Waiting) = IndexCycle /\ Waiting' = <<Head(Waiting)>>
      BY <3>1, <3>3 DEF Room!RoomNext, Room!Wrap
    <3>4. QED
      BY <1>2, <2>1, <3>2, <3>3, AddStep
  <2>2. CASE queue_pop
    BY <1>2, <2>2, PopStep DEF Room!RoomNext, Room!Leave
  <2>3. CASE clear_queue
    <3>1. Waiting' = <<>> /\ head' = 0
      BY <1>2, <2>3, ClearStep DEF clear_queue
    <3>2. QED
      BY <3>1 DEF Room!RoomNext, Room!Clear
  <2>4. CASE UNCHANGED queueVars \/ queue_add_refused \/ queue_pop_empty
    <3>1. Waiting' = Waiting /\ head' = head
      BY <1>2, <2>4, StutterStep DEF queue_add_refused, queue_pop_empty, queueVars
    <3>2. QED
      BY <3>1 DEF Room!roomVars
  <2>5. QED
    BY <1>2, <2>1, <2>2, <2>3, <2>4 DEF QueueNext
<1>3. QED
  BY <1>1, <1>2, QueueInvariant, PTL DEF QueueSpec, ImplementsWaitingRoom, Room!RoomSpec
=============================================================================
