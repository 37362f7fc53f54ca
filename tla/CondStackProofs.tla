--------------------------- MODULE CondStackProofs ---------------------------
(***************************************************************************)
(* Proofs about the stack with two condition variables, for every size of  *)
(* the stack and every even number of values.                              *)
(***************************************************************************)
EXTENDS CondStack, FiniteSetTheorems, TLAPS

-----------------------------------------------------------------------------
(***************************************************************************)
(* The sum of a sequence.  It is a fold, and so a recursive function on    *)
(* the sets of indices: that there is one is proved first.                 *)
(***************************************************************************)
LEMMA LeastNumber == 
    ASSUME NEW S, S \subseteq Nat, S # {}
    PROVE  \E x \in S : \A y \in S : x <= y
<1> DEFINE R == OpToRel(<, Nat)
<1>1. IsWellFoundedOn(R, Nat)
  BY NatLessThanWellFounded
<1> HIDE DEF R
<1>2. PICK x \in S : \A y \in S : ~ (<<y, x>> \in R)
  BY <1>1, WFMin
<1>3. ASSUME NEW y \in S
      PROVE  x <= y
  <2>1. y < x => <<y, x>> \in R
    BY DEF R, OpToRel
  <2>2. QED
    BY <1>2, <2>1
<1>4. QED
  BY <1>3

Folds(iter, seq, n) == 
    iter = [s \in SUBSET (1 .. n) |-> IF s = {} THEN 0 ELSE iter[s \ {Max(s)}] + seq[Max(s)]]

LEMMA MaxIs == 
    ASSUME NEW s \in SUBSET Int, NEW k \in s, \A x \in s : x <= k
    PROVE  Max(s) = k
<1>1. k \in s /\ \A y \in s : k >= y
  OBVIOUS
<1>2. Max(s) \in s /\ \A y \in s : Max(s) >= y
  BY <1>1 DEF Max
<1>3. k >= Max(s) /\ Max(s) >= k /\ k \in Int /\ Max(s) \in Int
  BY <1>1, <1>2
<1>4. \A x, y \in Int : x >= y /\ y >= x => x = y
  OBVIOUS
<1>5. QED
  BY <1>3, <1>4

LEMMA SumUnfolds == 
    ASSUME NEW n \in Nat, NEW seq, DOMAIN seq = 1 .. n
    PROVE  SumOf(seq) = (CHOOSE iter : Folds(iter, seq, n))[1 .. n]
BY DEF SumOf, FoldLeft, MapThenFoldSet, Folds

LEMMA FoldExtends == 
    ASSUME NEW m \in Nat, NEW seq, NEW iter, Folds(iter, seq, m)
    PROVE  \E longer : Folds(longer, seq, m + 1)
<1> DEFINE longer == [s \in SUBSET (1 .. m + 1) |-> IF m + 1 \in s THEN iter[s \ {m + 1}] + seq[m + 1] ELSE iter[s]]
<1>1. ASSUME NEW s \in SUBSET (1 .. m + 1)
      PROVE  longer[s] = IF s = {} THEN 0 ELSE longer[s \ {Max(s)}] + seq[Max(s)]
  <2>1. CASE m + 1 \in s
    <3>1. Max(s) = m + 1
      BY <2>1, MaxIs
    <3>2. s \ {m + 1} \in SUBSET (1 .. m + 1) /\ m + 1 \notin s \ {m + 1}
      OBVIOUS
    <3>3. longer[s \ {m + 1}] = iter[s \ {m + 1}]
      BY <3>2
    <3>4. QED
      BY <2>1, <3>1, <3>3
  <2>2. CASE m + 1 \notin s
    <3>0. \A x \in 1 .. m + 1 : x # m + 1 => x \in 1 .. m
      OBVIOUS
    <3>1. s \in SUBSET (1 .. m) /\ s \ {Max(s)} \in SUBSET (1 .. m + 1) /\ m + 1 \notin s \ {Max(s)}
      BY <2>2, <3>0
    <3>2. iter[s] = IF s = {} THEN 0 ELSE iter[s \ {Max(s)}] + seq[Max(s)]
      BY <3>1 DEF Folds
    <3>3. longer[s \ {Max(s)}] = iter[s \ {Max(s)}] /\ longer[s] = iter[s]
      BY <2>2, <3>1
    <3>4. QED
      BY <3>2, <3>3
  <2>3. QED
    BY <2>1, <2>2
<1>2. longer = [s \in SUBSET (1 .. m + 1) |-> longer[s]]
  OBVIOUS
<1> HIDE DEF longer
<1>3. Folds(longer, seq, m + 1)
  BY <1>1, <1>2 DEF Folds
<1>4. QED
  BY <1>3

LEMMA FoldExists == 
    ASSUME NEW n \in Nat, NEW seq
    PROVE  \E iter : Folds(iter, seq, n)
<1> DEFINE Bad == {m \in Nat : ~\E iter : Folds(iter, seq, m)}
<1>1. SUFFICES ASSUME Bad # {} PROVE FALSE
  OBVIOUS
<1>2. Bad \subseteq Nat
  OBVIOUS
<1>3. PICK least \in Bad : \A m \in Bad : least <= m
  <2> HIDE DEF Bad
  <2>1. QED
    BY <1>1, <1>2, LeastNumber
<1>4. CASE least = 0
  <2> DEFINE empty == [s \in SUBSET (1 .. 0) |-> 0]
  <2>1. SUBSET (1 .. 0) = {{}}
    OBVIOUS
  <2>2. Folds(empty, seq, 0)
    BY <2>1 DEF Folds
  <2> HIDE DEF empty
  <2>3. QED
    BY <1>3, <1>4, <2>2
<1>5. CASE least # 0
  <2>1. least - 1 \in Nat /\ least - 1 + 1 = least /\ least - 1 \notin Bad
    BY <1>3, <1>5
  <2>2. QED
    BY <1>3, <2>1, FoldExtends
<1>6. QED
  BY <1>4, <1>5

\* All sums of a sequence from its beginning.
Sums(partial, seq) == 
    /\ partial \in [0 .. Len(seq) -> Int]
    /\ partial[0] = 0
    /\ \A k \in 1 .. Len(seq) : partial[k] = partial[k - 1] + seq[k]

LEMMA SumIs == 
    ASSUME NEW seq \in Seq(Int), NEW partial, Sums(partial, seq)
    PROVE  SumOf(seq) = partial[Len(seq)]
<1> DEFINE n == Len(seq)
           iter == CHOOSE f : Folds(f, seq, n)
           Bad == {m \in 0 .. n : iter[1 .. m] # partial[m]}
<1>1. n \in Nat /\ DOMAIN seq = 1 .. n
  OBVIOUS
<1>2. Folds(iter, seq, n)
  BY <1>1, FoldExists
<1>3. SumOf(seq) = iter[1 .. n]
  BY <1>1, SumUnfolds
<1>4. ASSUME NEW m \in 1 .. n
      PROVE  iter[1 .. m] = iter[1 .. m - 1] + seq[m]
  <2>1. Max(1 .. m) = m
    <3>1. m \in 1 .. m /\ 1 .. m \in SUBSET Int /\ \A x \in 1 .. m : x <= m
      BY <1>1
    <3>2. QED
      BY <3>1, MaxIs
  <2> HIDE DEF n, iter
  <2>2. (1 .. m) \ {m} = 1 .. m - 1 /\ 1 .. m \in SUBSET (1 .. n) /\ 1 .. m # {}
    <3>0. m \in Int /\ 1 <= m /\ m <= n /\ n \in Int
      BY <1>1
    <3>1. \A x : x \in 1 .. m /\ x # m <=> x \in 1 .. m - 1
      BY <3>0
    <3>2. \A x \in 1 .. m : x \in 1 .. n
      BY <3>0
    <3>3. m \in 1 .. m
      BY <3>0
    <3>4. QED
      BY <3>1, <3>2, <3>3
  <2>3. QED
    BY <1>2, <2>1, <2>2 DEF Folds
<1>5. iter[1 .. 0] = 0
  <2>1. 1 .. 0 = {} /\ {} \in SUBSET (1 .. n)
    OBVIOUS
  <2> HIDE DEF n, iter
  <2>2. QED
    BY <1>2, <2>1 DEF Folds
<1>6. partial[0] = 0 /\ \A m \in 1 .. n : partial[m] = partial[m - 1] + seq[m]
  BY DEF Sums
<1> HIDE DEF iter, n
<1>7. ASSUME NEW least \in Bad, \A m \in Bad : least <= m
      PROVE  FALSE
  <2>1. CASE least = 0
    BY <1>5, <1>6, <1>7, <2>1
  <2>2. CASE least # 0
    <3>1. least - 1 \in 0 .. n /\ least - 1 \notin Bad /\ least \in 1 .. n
      BY <1>1, <1>7, <2>2
    <3>2. iter[1 .. least] = partial[least]
      BY <1>4, <1>6, <3>1
    <3>3. QED
      BY <1>7, <3>2
  <2>3. QED
    BY <2>1, <2>2
<1>8. Bad = {}
  <2>1. Bad \subseteq Nat
    BY <1>1
  <2> HIDE DEF Bad
  <2>2. QED
    BY <1>7, <2>1, LeastNumber
<1>9. n \in 0 .. n
  BY <1>1
<1>10. QED
  BY <1>3, <1>8, <1>9 DEF n

LEMMA SumsExist == 
    ASSUME NEW seq \in Seq(Int)
    PROVE  \E partial : Sums(partial, seq)
<1> DEFINE n == Len(seq)
           Some(m) == \E p \in [0 .. m -> Int] : 
                        p[0] = 0 /\ \A k \in 1 .. m : p[k] = p[k - 1] + seq[k]
           Bad == {m \in 0 .. n : ~Some(m)}
<1>1. n \in Nat /\ \A k \in 1 .. n : seq[k] \in Int
  OBVIOUS
<1> HIDE DEF n
<1>2. Some(0)
  <2> DEFINE p == [k \in 0 .. 0 |-> 0]
  <2>1. p \in [0 .. 0 -> Int] /\ p[0] = 0 /\ 1 .. 0 = {}
    OBVIOUS
  <2> HIDE DEF p
  <2>2. QED
    BY <2>1
<1>3. ASSUME NEW m \in 1 .. n, Some(m - 1)
      PROVE  Some(m)
  <2>1. PICK p \in [0 .. m - 1 -> Int] : p[0] = 0 /\ \A k \in 1 .. m - 1 : p[k] = p[k - 1] + seq[k]
    BY <1>3
  <2> DEFINE q == [k \in 0 .. m |-> IF k = m THEN p[m - 1] + seq[m] ELSE p[k]]
  <2>2. m - 1 \in 0 .. m - 1 /\ p[m - 1] \in Int /\ seq[m] \in Int /\ m \in Nat
    BY <1>1, <2>1
  <2>3. q \in [0 .. m -> Int]
    BY <2>1, <2>2
  <2>4. q[0] = 0 /\ \A k \in 1 .. m : q[k] = q[k - 1] + seq[k]
    BY <2>1, <2>2
  <2> HIDE DEF q
  <2>5. QED
    BY <2>3, <2>4
<1> HIDE DEF Some
<1>4. ASSUME NEW least \in Bad, \A m \in Bad : least <= m
      PROVE  FALSE
  <2>1. least # 0
    BY <1>2
  <2>2. least \in 1 .. n /\ least - 1 \in 0 .. n /\ least - 1 \notin Bad
    BY <1>1, <1>4, <2>1
  <2>3. QED
    BY <1>3, <1>4, <2>2
<1>5. Bad = {}
  <2>1. Bad \subseteq Nat
    BY <1>1
  <2> HIDE DEF Bad
  <2>2. QED
    BY <1>4, <2>1, LeastNumber
<1>6. Some(n)
  BY <1>1, <1>5
<1>7. QED
  BY <1>6 DEF Some, Sums, n

LEMMA SumIsNumber == 
    ASSUME NEW seq \in Seq(Int)
    PROVE  SumOf(seq) \in Int
BY SumIs, SumsExist DEF Sums

LEMMA SumOfEmpty == SumOf(<<>>) = 0
<1>1. <<>> \in Seq(Int) /\ Len(<<>>) = 0
  OBVIOUS
<1>2. QED
  BY <1>1, SumIs, SumsExist DEF Sums

LEMMA SumOfAppend == 
    ASSUME NEW seq \in Seq(Int), NEW x \in Int
    PROVE  SumOf(Append(seq, x)) = SumOf(seq) + x
<1> DEFINE n == Len(seq)
<1>1. PICK partial : Sums(partial, seq)
  BY SumsExist
<1> DEFINE longer == [k \in 0 .. n + 1 |-> IF k = n + 1 THEN partial[n] + x ELSE partial[k]]
<1>2. /\ Append(seq, x) \in Seq(Int) /\ Len(Append(seq, x)) = n + 1 /\ n \in Nat
      /\ \A k \in 1 .. n : Append(seq, x)[k] = seq[k]
      /\ Append(seq, x)[n + 1] = x
  OBVIOUS
<1>3. /\ partial \in [0 .. n -> Int] /\ partial[0] = 0
      /\ \A k \in 1 .. n : partial[k] = partial[k - 1] + seq[k]
  BY <1>1 DEF Sums
<1> HIDE DEF n
<1>4. longer \in [0 .. n + 1 -> Int]
  BY <1>2, <1>3
<1>5. longer[0] = 0 /\ \A k \in 1 .. n + 1 : longer[k] = longer[k - 1] + Append(seq, x)[k]
  BY <1>2, <1>3
<1>6. longer[n + 1] = partial[n] + x
  BY <1>2
<1> HIDE DEF longer
<1>7. Sums(longer, Append(seq, x))
  BY <1>2, <1>4, <1>5 DEF Sums
<1>8. SumOf(Append(seq, x)) = longer[n + 1] /\ SumOf(seq) = partial[n]
  BY <1>1, <1>2, <1>7, SumIs DEF n
<1>9. QED
  BY <1>6, <1>8

LEMMA FrontTyped == 
    ASSUME NEW S, NEW seq \in Seq(S), seq # <<>>
    PROVE  /\ Front(seq) \in Seq(S) /\ Len(Front(seq)) = Len(seq) - 1
           /\ Last(seq) \in S /\ Len(seq) \in Nat
<1>1. Len(seq) \in Nat /\ Len(seq) >= 1 /\ \A k \in 1 .. Len(seq) : seq[k] \in S
  OBVIOUS
<1>2. Front(seq) \in Seq(S) /\ Len(Front(seq)) = Len(seq) - 1
  <2>1. \A k \in 1 .. Len(seq) - 1 : seq[k] \in S
    BY <1>1
  <2> DEFINE n == Len(seq) - 1
             all == [k \in 1 .. n |-> seq[k]]
  <2>2. n \in Nat /\ Front(seq) = all
    BY <1>1 DEF Front
  <2>3. all \in [1 .. n -> S]
    BY <2>1
  <2> HIDE DEF n, all
  <2>4. Front(seq) \in Seq(S) /\ Len(Front(seq)) = n
    BY <2>2, <2>3
  <2>5. QED
    BY <2>4 DEF n
<1>3. Last(seq) \in S
  BY <1>1 DEF Last
<1>4. QED
  BY <1>1, <1>2, <1>3

\* What is on the top of the stack is the difference.
LEMMA SumOfFront == 
    ASSUME NEW seq \in Seq(Int), seq # <<>>
    PROVE  /\ Front(seq) \in Seq(Int) /\ Last(seq) \in Int /\ Len(Front(seq)) = Len(seq) - 1
           /\ SumOf(seq) = SumOf(Front(seq)) + Last(seq)
<1>1. Front(seq) \in Seq(Int) /\ Last(seq) \in Int /\ Len(Front(seq)) = Len(seq) - 1
  BY DEF Front, Last
<1>2. seq = Append(Front(seq), Last(seq))
  BY DEF Front, Last
<1>3. QED
  BY <1>1, <1>2, SumOfAppend

-----------------------------------------------------------------------------
(***************************************************************************)
(* The inductive invariant.  A thread is done after VALUE_COUNT rounds and *)
(* never before; what was pushed was popped or is on the stack; and the    *)
(* first condition seen is not the one that a thread has yet to show.      *)
(***************************************************************************)
Place == {"check_mutex", "check_cond", "lock", "waiting", "woken", "done"}

RoundsCounted == \A t \in Thread : pc[t] = "done" <=> i[t] = VALUE_COUNT

ValuesCounted == 
    /\ processed_value_count = i["consumer"]
    /\ Len(buffer) = i["producer"] - i["consumer"]

CondToBeSeen == \A t \in Thread : pc[t] \in {"check_mutex", "check_cond"} => cond1 # cond(t)

Inv == 
    /\ SumConserved
    /\ NothingFails
    /\ pc \in [Thread \cup {"main"} -> Place \cup {"join"}]
    /\ RoundsCounted
    /\ ValuesCounted
    /\ CondToBeSeen

LEMMA InvInit == Init => Inv
<1> SUFFICES ASSUME Init PROVE Inv
  OBVIOUS
<1> USE StackAssumption DEF Init
<1>1. buffer \in Seq(0 .. VALUE_COUNT - 1) /\ Len(buffer) = 0
  OBVIOUS
<1>2. TypeOK
  BY <1>1 DEF TypeOK, Thread
<1>3. SumConserved
  BY <1>2, SumOfEmpty DEF SumConserved, Thread
<1>4. pc \in [Thread \cup {"main"} -> Place \cup {"join"}] /\ RoundsCounted /\ ValuesCounted
  BY <1>1 DEF Place, RoundsCounted, ValuesCounted, Thread
<1>5. NothingFails /\ CondToBeSeen
  BY DEF NothingFails, CondToBeSeen, cond
<1>6. QED
  BY <1>3, <1>4, <1>5 DEF Inv

\* A passing check is what it says.
LEMMA PassingCheck == 
    ASSUME NEW what, NEW t, NEW ok \in BOOLEAN
    PROVE  Verdict(what, t, ok)[3] = "PASS" <=> ok
BY DEF Verdict

LEMMA MutexKeeps == 
    ASSUME Inv, NEW t \in Thread, ChecksMutex(t)
    PROVE  Inv'
<1>1. TypeOK /\ pc[t] = "check_mutex" /\ pc' = [pc EXCEPT ![t] = "check_cond"]
  BY DEF Inv, SumConserved, ChecksMutex
<1>2. TypeOK'
  BY <1>1 DEF Inv, TypeOK, ChecksMutex, mutex, Thread
<1>3. SumConserved'
  BY <1>2 DEF Inv, SumConserved, ChecksMutex
<1>4. NothingFails'
  <2>1. mutex1 \in {NULL, mutex(t)}
    BY <1>1 DEF TypeOK, mutex
  <2>2. Verdict("mutex", t, mutex1 \in {NULL, mutex(t)})[3] = "PASS"
    BY <2>1, PassingCheck
  <2>3. QED
    BY <2>2 DEF Inv, NothingFails, ChecksMutex
<1>5. /\ pc' \in [Thread \cup {"main"} -> Place \cup {"join"}]
      /\ RoundsCounted' /\ ValuesCounted' /\ CondToBeSeen'
  BY <1>1 DEF Inv, RoundsCounted, ValuesCounted, CondToBeSeen, ChecksMutex, Place, cond
<1>6. QED
  BY <1>3, <1>4, <1>5 DEF Inv

LEMMA CondKeeps == 
    ASSUME Inv, NEW t \in Thread, ChecksCond(t)
    PROVE  Inv'
<1> USE StackAssumption
<1>1. TypeOK /\ pc[t] = "check_cond" /\ pc' = [pc EXCEPT ![t] = "lock"]
  BY DEF Inv, SumConserved, ChecksCond
<1>2. TypeOK'
  BY <1>1 DEF Inv, TypeOK, ChecksCond, cond, Thread
<1>3. SumConserved'
  BY <1>2 DEF Inv, SumConserved, ChecksCond
<1>4. NothingFails'
  <2>1. cond1 # cond(t)
    BY <1>1 DEF Inv, CondToBeSeen
  <2>2. Verdict("cond", t, cond1 # cond(t))[3] = "PASS"
    BY <2>1, PassingCheck
  <2>3. QED
    BY <2>2 DEF Inv, NothingFails, ChecksCond
<1>5. /\ pc' \in [Thread \cup {"main"} -> Place \cup {"join"}]
      /\ RoundsCounted' /\ ValuesCounted'
  BY <1>1 DEF Inv, RoundsCounted, ValuesCounted, ChecksCond, Place
<1>6. CondToBeSeen'
  BY <1>1 DEF Inv, CondToBeSeen, ChecksCond, Thread, cond
<1>7. QED
  BY <1>3, <1>4, <1>5, <1>6 DEF Inv

\* What pc is after thread t has ended a round.
LEMMA RoundEnds == 
    ASSUME Inv, NEW t \in Thread, pc[t] \in {"lock", "woken"}, EndsRoundAndSignals(t)
    PROVE  /\ i[t] \in 0 .. VALUE_COUNT - 1 /\ i'[t] = i[t] + 1
           /\ \A u \in Thread \ {t} : i'[u] = i[u]
           /\ i' \in [Thread -> 0 .. VALUE_COUNT]
           /\ pc' \in [Thread \cup {"main"} -> Place \cup {"join"}]
           /\ \A u \in Thread : pc'[u] \in Place
           /\ pc'["main"] = pc["main"]
           /\ \A u \in Thread : pc'[u] = "done" <=> i'[u] = VALUE_COUNT
           /\ \A u \in Thread : pc'[u] \in {"check_mutex", "check_cond"} => pc'[u] = pc[u]
<1> USE StackAssumption
<1>1. /\ i \in [Thread -> 0 .. VALUE_COUNT] /\ pc \in [Thread \cup {"main"} -> Place \cup {"join"}]
      /\ \A u \in Thread : pc[u] \in Place
      /\ \A u \in Thread : pc[u] = "done" <=> i[u] = VALUE_COUNT
      /\ pc["main"] \in {"join", "done"}
  BY DEF Inv, SumConserved, TypeOK, RoundsCounted, Place
<1>2. i[t] \in 0 .. VALUE_COUNT - 1
  BY <1>1
<1>3. /\ i' = [i EXCEPT ![t] = i[t] + 1]
      /\ \A u \in Thread \cup {"main"} : 
           pc'[u] = IF u = t THEN NextRound(t) ELSE IF pc[u] = "waiting" THEN "woken" ELSE pc[u]
      /\ DOMAIN pc' = Thread \cup {"main"} /\ pc' = [u \in Thread \cup {"main"} |-> pc'[u]]
  BY <1>1 DEF EndsRoundAndSignals
<1>4. NextRound(t) \in {"lock", "done"} /\ (NextRound(t) = "done" <=> i[t] + 1 = VALUE_COUNT)
  BY <1>2 DEF NextRound
<1>5. i'[t] = i[t] + 1 /\ (\A u \in Thread \ {t} : i'[u] = i[u]) /\ i' \in [Thread -> 0 .. VALUE_COUNT]
  BY <1>1, <1>2, <1>3
<1>6. pc'["main"] = pc["main"] /\ \A u \in Thread : pc'[u] \in Place
  BY <1>1, <1>3, <1>4 DEF Thread, Place
<1>7. pc' \in [Thread \cup {"main"} -> Place \cup {"join"}]
  BY <1>1, <1>3, <1>6 DEF Place
<1>8. \A u \in Thread : pc'[u] = "done" <=> i'[u] = VALUE_COUNT
  BY <1>1, <1>3, <1>4, <1>5
<1>9. \A u \in Thread : pc'[u] \in {"check_mutex", "check_cond"} => pc'[u] = pc[u]
  BY <1>3, <1>4
<1>10. QED
  BY <1>2, <1>5, <1>6, <1>7, <1>8, <1>9

LEMMA PushKeeps == 
    ASSUME Inv, ProducerPushes
    PROVE  Inv'
<1> USE StackAssumption
<1> DEFINE n == i["producer"]
           sum == processed_value_sum
<1>1. /\ TypeOK /\ SumConserved
      /\ buffer' = Append(buffer, n) /\ Len(buffer) # BUFFER_SIZE /\ UNCHANGED checkVars
      /\ "producer" \in Thread /\ "consumer" \in Thread \ {"producer"}
      /\ pc["producer"] \in {"lock", "woken"} /\ EndsRoundAndSignals("producer")
  BY DEF Inv, SumConserved, ProducerPushes, Thread
<1>2. n \in 0 .. VALUE_COUNT - 1 /\ i'["producer"] = n + 1 /\ i'["consumer"] = i["consumer"]
  BY <1>1, RoundEnds
<1>3. /\ buffer' \in Seq(0 .. VALUE_COUNT - 1) /\ Len(buffer') = Len(buffer) + 1 
      /\ Len(buffer') <= BUFFER_SIZE /\ Len(buffer) \in Nat
  BY <1>1, <1>2 DEF TypeOK
<1>4. TypeOK'
  BY <1>1, <1>3, RoundEnds DEF TypeOK, checkVars, Place
<1>5. SumConserved'
  <2>1. buffer \in Seq(Int) /\ n \in Int /\ sum \in Int
    BY <1>1, <1>2 DEF TypeOK
  <2>2. SumOf(buffer') = SumOf(buffer) + n /\ SumOf(buffer) \in Int
    BY <1>1, <2>1, SumOfAppend, SumIsNumber
  <2>3. 2 * (sum + SumOf(buffer)) = n * (n - 1) /\ sum' = sum
    BY <1>1 DEF SumConserved, checkVars
  <2> HIDE DEF n, sum
  <2>4. 2 * (sum' + SumOf(buffer')) = (n + 1) * (n + 1 - 1)
    <3>1. 2 * (sum' + SumOf(buffer')) = 2 * (sum + SumOf(buffer)) + 2 * n
      BY <2>1, <2>2, <2>3
    <3>2. (n + 1) * (n + 1 - 1) = n * (n - 1) + 2 * n
      BY <2>1
    <3>3. QED
      BY <2>3, <3>1, <3>2
  <2>5. QED
    BY <1>2, <1>4, <2>4 DEF SumConserved, sum
<1>6. pc' \in [Thread \cup {"main"} -> Place \cup {"join"}] /\ RoundsCounted'
  BY <1>1, RoundEnds DEF RoundsCounted
<1>7. NothingFails' /\ CondToBeSeen'
  BY <1>1, RoundEnds DEF Inv, NothingFails, CondToBeSeen, checkVars, cond
<1>8. ValuesCounted'
  <2>1. i["consumer"] \in Int
    BY <1>1 DEF TypeOK
  <2>2. QED
    BY <1>1, <1>2, <1>3, <2>1 DEF Inv, ValuesCounted, checkVars
<1>9. QED
  BY <1>5, <1>6, <1>7, <1>8 DEF Inv

LEMMA PopKeeps == 
    ASSUME Inv, ConsumerPops
    PROVE  Inv'
<1> USE StackAssumption
<1> DEFINE n == i["producer"]
           sum == processed_value_sum
           top == Last(buffer)
<1>1. /\ TypeOK /\ SumConserved
      /\ buffer' = Front(buffer) /\ buffer # <<>> /\ UNCHANGED <<mutex1, cond1, results>>
      /\ sum' = sum + top /\ processed_value_count' = processed_value_count + 1
      /\ "consumer" \in Thread /\ "producer" \in Thread \ {"consumer"}
      /\ pc["consumer"] \in {"lock", "woken"} /\ EndsRoundAndSignals("consumer")
  BY DEF Inv, SumConserved, ConsumerPops, Thread
<1>2. /\ i["consumer"] \in 0 .. VALUE_COUNT - 1 /\ i'["consumer"] = i["consumer"] + 1 
      /\ i'["producer"] = i["producer"] /\ i["producer"] \in Int
  BY <1>1, RoundEnds DEF TypeOK
<1>3. /\ buffer' \in Seq(0 .. VALUE_COUNT - 1) /\ Len(buffer') = Len(buffer) - 1 
      /\ Len(buffer) <= BUFFER_SIZE /\ Len(buffer) \in Nat /\ top \in 0 .. VALUE_COUNT - 1
  <2>1. buffer \in Seq(0 .. VALUE_COUNT - 1) /\ Len(buffer) <= BUFFER_SIZE
    BY <1>1 DEF TypeOK
  <2>2. QED
    BY <1>1, <2>1, FrontTyped
<1>4. TypeOK'
  <2>1. sum' \in Nat /\ processed_value_count' \in Nat /\ Len(buffer') <= BUFFER_SIZE
    BY <1>1, <1>3 DEF TypeOK
  <2>2. QED
    BY <1>1, <1>3, <2>1, RoundEnds DEF TypeOK, Place
<1>5. SumConserved'
  <2>1. buffer \in Seq(Int) /\ Front(buffer) \in Seq(Int) /\ top \in Int /\ sum \in Int
    BY <1>1, <1>3 DEF TypeOK
  <2>2. SumOf(buffer) = SumOf(buffer') + top /\ SumOf(buffer') \in Int
    BY <1>1, <2>1, SumOfFront, SumIsNumber
  <2>3. 2 * (sum + SumOf(buffer)) = n * (n - 1)
    BY <1>1 DEF SumConserved
  <2>4. sum' + SumOf(buffer') = sum + SumOf(buffer)
    <3> HIDE DEF sum, top
    <3>1. QED
      BY <1>1, <2>1, <2>2
  <2>5. QED
    BY <1>2, <1>4, <2>3, <2>4 DEF SumConserved
<1>6. pc' \in [Thread \cup {"main"} -> Place \cup {"join"}] /\ RoundsCounted'
  BY <1>1, RoundEnds DEF RoundsCounted
<1>7. NothingFails' /\ CondToBeSeen'
  BY <1>1, RoundEnds DEF Inv, NothingFails, CondToBeSeen, cond
<1>8. ValuesCounted'
  BY <1>1, <1>2, <1>3 DEF Inv, ValuesCounted
<1>9. QED
  BY <1>5, <1>6, <1>7, <1>8 DEF Inv

LEMMA MainKeeps == 
    ASSUME Inv, MainChecks
    PROVE  Inv'
<1> USE StackAssumption
<1> DEFINE n == VALUE_COUNT
           sum == processed_value_sum
<1>1. TypeOK /\ SumConserved /\ pc' = [pc EXCEPT !["main"] = "done"] 
      /\ UNCHANGED <<buffer, i, processed_value_count, processed_value_sum, mutex1, cond1>>
  BY DEF Inv, SumConserved, MainChecks
<1>2. i["producer"] = n /\ i["consumer"] = n /\ n \in Nat
  BY DEF MainChecks, Inv, RoundsCounted, Thread
<1>3. buffer = <<>> /\ processed_value_count = n
  <2>1. Len(buffer) = 0
    BY <1>2 DEF Inv, ValuesCounted
  <2>2. QED
    BY <1>1, <1>2, <2>1 DEF TypeOK, Inv, ValuesCounted
<1>4. sum = (n \div 2) * (0 + n - 1)
  <2>1. 2 * sum = n * (n - 1) /\ sum \in Nat
    BY <1>1, <1>2, <1>3, SumOfEmpty DEF SumConserved, TypeOK
  <2> DEFINE h == n \div 2
  <2>2. n = 2 * h /\ h \in Nat
    BY <1>2
  <2> HIDE DEF n, sum, h
  <2>3. 2 * sum = 2 * (h * (n - 1)) /\ h * (n - 1) \in Int
    BY <1>2, <2>1, <2>2
  <2>4. QED
    BY <1>2, <2>1, <2>3 DEF h
<1>5. NothingFails'
  <2>1. /\ Verdict("thread awaiting", "main", processed_value_count = VALUE_COUNT)[3] = "PASS"
        /\ Verdict("value processing", "main", 
                   processed_value_sum = (VALUE_COUNT \div 2) * (0 + VALUE_COUNT - 1))[3] = "PASS"
    BY <1>3, <1>4, PassingCheck
  <2>2. QED
    BY <2>1 DEF Inv, NothingFails, MainChecks
<1>6. TypeOK' /\ SumConserved'
  BY <1>1 DEF Inv, TypeOK, SumConserved, Thread
<1>7. /\ pc' \in [Thread \cup {"main"} -> Place \cup {"join"}]
      /\ RoundsCounted' /\ ValuesCounted' /\ CondToBeSeen'
  BY <1>1 DEF Inv, RoundsCounted, ValuesCounted, CondToBeSeen, Thread, Place, cond
<1>8. QED
  BY <1>5, <1>6, <1>7 DEF Inv

LEMMA WaitKeeps == 
    ASSUME Inv, NEW t \in Thread, pc[t] \in {"lock", "woken", "waiting"}, NEW to \in {"waiting", "woken"},
           pc' = [pc EXCEPT ![t] = to], UNCHANGED <<buffer, i, checkVars>>
    PROVE  Inv'
<1>1. TypeOK' /\ SumConserved'
  BY DEF Inv, TypeOK, SumConserved, Thread, checkVars
<1>2. pc' \in [Thread \cup {"main"} -> Place \cup {"join"}] /\ RoundsCounted'
  BY DEF Inv, RoundsCounted, Place
<1>3. NothingFails' /\ ValuesCounted' /\ CondToBeSeen'
  BY DEF Inv, NothingFails, ValuesCounted, CondToBeSeen, checkVars, cond
<1>4. QED
  BY <1>1, <1>2, <1>3 DEF Inv

LEMMA InvStep == Inv /\ [Next]_vars => Inv'
<1> SUFFICES ASSUME Inv, [Next]_vars PROVE Inv'
  OBVIOUS
<1>1. CASE ProducerBlocks \/ ConsumerBlocks \/ \E t \in Thread : SpuriousWakeup(t)
  BY <1>1, WaitKeeps DEF ProducerBlocks, ConsumerBlocks, SpuriousWakeup, Thread
<1>2. CASE UNCHANGED vars
  BY <1>2 DEF vars, checkVars, Inv, SumConserved, TypeOK, NothingFails, RoundsCounted, ValuesCounted, 
     CondToBeSeen, cond
<1>3. QED
  BY <1>1, <1>2, MutexKeeps, CondKeeps, PushKeeps, PopKeeps, MainKeeps 
     DEF Next, ProducerNext, ConsumerNext, Terminated, Thread

LEMMA Invariance == Spec => []Inv
BY InvInit, InvStep, PTL DEF Spec

\* What was processed and what is on the stack add up to what was pushed, for
\* every size of the stack and every number of values: push and pop in
\* producer_thread and consumer_thread lose nothing and repeat nothing.
THEOREM SumAlwaysConserved == Spec => []SumConserved
<1>1. Inv => SumConserved
  BY DEF Inv
<1>2. QED
  BY <1>1, Invariance, PTL

\* Every line that the checks of checks.h print is a PASS: those of the mutex and
\* the conditions, in whatever order the threads come to them, and those that
\* main makes after it has joined the threads.
THEOREM NoCheckFails == Spec => []NothingFails
<1>1. Inv => NothingFails
  BY DEF Inv
<1>2. QED
  BY <1>1, Invariance, PTL
=============================================================================
