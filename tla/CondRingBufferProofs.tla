------------------------ MODULE CondRingBufferProofs -------------------------
(***************************************************************************)
(* Proofs about the ring buffer with two condition variables, for every    *)
(* size of the buffer and every number of items.                           *)
(***************************************************************************)
EXTENDS CondRingBuffer, SequenceTheorems, TLAPS

-----------------------------------------------------------------------------
(***************************************************************************)
(* Arithmetic modulo the size of the buffer.  The provers do not divide by *)
(* an unknown number on their own: what they need is said here.            *)
(***************************************************************************)
LEMMA Division == 
    ASSUME NEW x \in Nat
    PROVE  /\ x = BUF_SIZE * (x \div BUF_SIZE) + (x % BUF_SIZE)
           /\ x % BUF_SIZE \in Slots
           /\ x \div BUF_SIZE \in Nat
BY RingAssumption DEF Slots

\* Quotient and remainder are the only ones.
LEMMA DivisionUnique == 
    ASSUME NEW x \in Nat, NEW q \in Int, NEW r \in Slots, x = BUF_SIZE * q + r
    PROVE  x % BUF_SIZE = r
<1> DEFINE p == x \div BUF_SIZE
           s == x % BUF_SIZE
<1>1. BUF_SIZE * q + r = BUF_SIZE * p + s /\ s \in Slots /\ p \in Int
  BY Division
<1> HIDE DEF p, s
<1>2. ASSUME NEW a \in Int, NEW b \in Int, a > b
      PROVE  BUF_SIZE * a >= BUF_SIZE * b + BUF_SIZE
  <2>1. BUF_SIZE * (a - b) >= BUF_SIZE
    BY <1>2, RingAssumption
  <2>2. QED
    BY <1>2, <2>1, RingAssumption
<1>3. q = p
  BY <1>1, <1>2, RingAssumption DEF Slots
<1>4. QED
  BY <1>1, <1>3, RingAssumption DEF s, Slots

\* The remainder of the next number, which is how an index moves on.
LEMMA ModNext == 
    ASSUME NEW x \in Nat
    PROVE  (x + 1) % BUF_SIZE = (IF x % BUF_SIZE = BUF_SIZE - 1 THEN 0 ELSE (x % BUF_SIZE) + 1)
<1> DEFINE q == x \div BUF_SIZE
           r == x % BUF_SIZE
<1>1. x = BUF_SIZE * q + r /\ r \in Slots /\ q \in Nat
  BY Division
<1>2. CASE r = BUF_SIZE - 1
  <2>1. x + 1 = BUF_SIZE * (q + 1) + 0 /\ q + 1 \in Int /\ 0 \in Slots
    <3> HIDE DEF q, r
    <3>1. QED
      BY <1>1, <1>2, RingAssumption DEF Slots
  <2>2. QED
    BY <1>2, <2>1, DivisionUnique
<1>3. CASE r # BUF_SIZE - 1
  <2>1. x + 1 = BUF_SIZE * q + (r + 1) /\ r + 1 \in Slots
    <3> HIDE DEF q, r
    <3>1. QED
      BY <1>1, <1>3, RingAssumption DEF Slots
  <2>2. QED
    BY <1>1, <1>3, <2>1, DivisionUnique
<1>4. QED
  BY <1>2, <1>3

\* Indices and sums of an index and a count are below two buffer sizes.
LEMMA ModTwice == 
    ASSUME NEW x \in 0 .. 2 * BUF_SIZE - 1
    PROVE  x % BUF_SIZE = IF x < BUF_SIZE THEN x ELSE x - BUF_SIZE
BY RingAssumption

\* One step of an index that has come to x modulo the size of the buffer.
LEMMA IndexNext == 
    ASSUME NEW x \in Nat, NEW index, index = x % BUF_SIZE
    PROVE  (index + 1) % BUF_SIZE = (x + 1) % BUF_SIZE /\ (x + 1) % BUF_SIZE \in Slots
<1>1. index \in Slots /\ (x + 1) % BUF_SIZE \in Slots
  BY Division
<1>2. (index + 1) % BUF_SIZE = IF index + 1 < BUF_SIZE THEN index + 1 ELSE 0
  <2>1. index + 1 \in 0 .. 2 * BUF_SIZE - 1
    BY <1>1, RingAssumption DEF Slots
  <2>2. QED
    BY <1>1, <2>1, ModTwice, RingAssumption DEF Slots
<1>3. (x + 1) % BUF_SIZE = IF index = BUF_SIZE - 1 THEN 0 ELSE index + 1
  BY ModNext
<1>4. index \in Int /\ index < BUF_SIZE
  BY <1>1, RingAssumption DEF Slots
<1>5. (index + 1) % BUF_SIZE = (x + 1) % BUF_SIZE
  BY <1>2, <1>3, <1>4, RingAssumption
<1>6. QED
  BY <1>1, <1>5

-----------------------------------------------------------------------------
(***************************************************************************)
(* The inductive invariant.  A thread is done after ITEMS rounds and never *)
(* before, the buffer neither over- nor underflows, and what waits has     *)
(* reason to.                                                              *)
(***************************************************************************)
RoundsCounted == 
    /\ pc["producer"] = "done" <=> i = ITEMS + 1
    /\ pc["consumer"] = "done" <=> kk = ITEMS

Inv == 
    /\ CountersAgree
    /\ NobodyWaitsInVain
    /\ RoundsCounted
    /\ num \in 0 .. BUF_SIZE

LEMMA InvInit == Init => Inv
<1> SUFFICES ASSUME Init PROVE Inv
  OBVIOUS
<1>1. 0 % BUF_SIZE = 0
  BY ModTwice, RingAssumption
<1>2. QED
  BY <1>1, RingAssumption 
     DEF Init, Inv, CountersAgree, TypeOK, NeverExits, NobodyWaitsInVain, RoundsCounted, Slots, Thread

\* What pc is after a thread has moved and woken the other one.
LEMMA Wakes == 
    ASSUME TypeOK, NEW t \in Thread, NEW to \in {"lock", "done"}, GoesAndWakes(t, to)
    PROVE  /\ pc' \in [Thread -> {"lock", "waiting", "woken", "done"}]
           /\ pc'[t] = to
           /\ \A u \in Thread \ {t} : /\ pc'[u] # "waiting"
                                      /\ pc'[u] = "done" <=> pc[u] = "done"
                                      /\ pc'[u] = "lock" <=> pc[u] = "lock"
BY DEF TypeOK, GoesAndWakes, Thread

LEMMA InsertKeeps == 
    ASSUME Inv, ProducerInserts
    PROVE  Inv' /\ num < BUF_SIZE
<1> USE RingAssumption
<1> DEFINE to == IF i < ITEMS THEN "lock" ELSE "done"
<1>1. /\ TypeOK /\ i \in 1 .. ITEMS + 1 /\ kk \in 0 .. ITEMS /\ num \in 0 .. BUF_SIZE
      /\ num = i - 1 - kk /\ add = (i - 1) % BUF_SIZE
      /\ pc["producer"] # "done"
  BY DEF Inv, CountersAgree, TypeOK, ProducerInserts
<1>2. num < BUF_SIZE /\ i \in 1 .. ITEMS
  BY <1>1 DEF ProducerInserts, Inv, RoundsCounted
<1>3. add' = (i' - 1) % BUF_SIZE /\ add' \in Slots
  <2>1. i - 1 \in Nat /\ i - 1 + 1 = i' - 1
    BY <1>2 DEF ProducerInserts
  <2>2. add' = (add + 1) % BUF_SIZE
    BY DEF ProducerInserts
  <2>3. QED
    BY <1>1, <2>1, <2>2, IndexNext
<1>4. /\ pc' \in [Thread -> {"lock", "waiting", "woken", "done"}]
      /\ pc'["producer"] = to
      /\ pc'["consumer"] # "waiting"
      /\ pc'["consumer"] = "done" <=> pc["consumer"] = "done"
  <2>1. GoesAndWakes("producer", to) /\ to \in {"lock", "done"}
    BY DEF ProducerInserts
  <2>2. QED
    BY <1>1, <2>1, Wakes DEF Thread
<1>5. /\ i' = i + 1 /\ num' = num + 1 /\ kk' = kk /\ rem' = rem /\ taken' = taken
      /\ buffer' = [buffer EXCEPT ![add] = i]
  BY DEF ProducerInserts
<1>6. TypeOK'
  BY <1>1, <1>2, <1>3, <1>4, <1>5 DEF TypeOK
<1>7. CountersAgree'
  BY <1>1, <1>2, <1>3, <1>5, <1>6 DEF CountersAgree, NeverExits, Inv
<1>8. NobodyWaitsInVain' /\ RoundsCounted'
  BY <1>1, <1>2, <1>4, <1>5 DEF NobodyWaitsInVain, RoundsCounted, Inv
<1>9. QED
  BY <1>1, <1>2, <1>5, <1>7, <1>8 DEF Inv

LEMMA TakeKeeps == 
    ASSUME Inv, ConsumerTakes
    PROVE  Inv' /\ num > 0
<1> USE RingAssumption
<1> DEFINE to == IF kk + 1 < ITEMS THEN "lock" ELSE "done"
<1>1. /\ TypeOK /\ i \in 1 .. ITEMS + 1 /\ kk \in 0 .. ITEMS /\ num \in 0 .. BUF_SIZE
      /\ num = i - 1 - kk /\ rem = kk % BUF_SIZE
      /\ pc["consumer"] # "done"
  BY DEF Inv, CountersAgree, TypeOK, ConsumerTakes
<1>2. num > 0 /\ kk \in 0 .. ITEMS - 1
  BY <1>1 DEF ConsumerTakes, Inv, RoundsCounted
<1>3. rem' = kk' % BUF_SIZE /\ rem' \in Slots
  <2>1. kk \in Nat /\ kk + 1 = kk'
    BY <1>2 DEF ConsumerTakes
  <2>2. rem' = (rem + 1) % BUF_SIZE
    BY DEF ConsumerTakes
  <2>3. QED
    BY <1>1, <2>1, <2>2, IndexNext
<1>4. /\ pc' \in [Thread -> {"lock", "waiting", "woken", "done"}]
      /\ pc'["consumer"] = to
      /\ pc'["producer"] # "waiting"
      /\ pc'["producer"] = "done" <=> pc["producer"] = "done"
  <2>1. GoesAndWakes("consumer", to) /\ to \in {"lock", "done"}
    BY DEF ConsumerTakes
  <2>2. QED
    BY <1>1, <2>1, Wakes DEF Thread
<1>5. /\ kk' = kk + 1 /\ num' = num - 1 /\ i' = i /\ add' = add /\ buffer' = buffer
      /\ taken' = buffer[rem]
  BY DEF ConsumerTakes
<1>6. TypeOK'
  BY <1>1, <1>2, <1>3, <1>4, <1>5 DEF TypeOK
<1>7. CountersAgree'
  BY <1>1, <1>2, <1>3, <1>5, <1>6 DEF CountersAgree, NeverExits, Inv
<1>8. NobodyWaitsInVain' /\ RoundsCounted'
  BY <1>1, <1>2, <1>4, <1>5 DEF NobodyWaitsInVain, RoundsCounted, Inv
<1>9. QED
  BY <1>1, <1>2, <1>5, <1>7, <1>8 DEF Inv

LEMMA InvStep == Inv /\ [Next]_vars => Inv'
<1> SUFFICES ASSUME Inv, [Next]_vars PROVE Inv'
  OBVIOUS
<1> USE DEF Inv, CountersAgree, TypeOK, NeverExits, NobodyWaitsInVain, RoundsCounted, Thread
<1>1. CASE ProducerBlocks
  BY <1>1 DEF ProducerBlocks
<1>2. CASE ConsumerBlocks
  BY <1>2 DEF ConsumerBlocks
<1>3. ASSUME NEW t \in Thread, SpuriousWakeup(t)
      PROVE  Inv'
  BY <1>3 DEF SpuriousWakeup
<1>4. CASE UNCHANGED vars
  BY <1>4 DEF vars
<1>5. QED
  BY <1>1, <1>2, <1>3, <1>4, InsertKeeps, TakeKeeps DEF Next, ProducerNext, ConsumerNext, Terminated

LEMMA Invariance == Spec => []Inv
BY InvInit, InvStep, PTL DEF Spec

\* num, both indices and the rounds of both loops agree, and none of the checks
\* that would exit the program ever finds anything.
THEOREM CountersAlwaysAgree == Spec => []CountersAgree
<1>1. Inv => CountersAgree
  BY DEF Inv
<1>2. QED
  BY <1>1, Invariance, PTL

\* No wakeup is lost: whoever waits still has reason to.
THEOREM NoLostWakeup == Spec => []NobodyWaitsInVain
<1>1. Inv => NobodyWaitsInVain
  BY DEF Inv
<1>2. QED
  BY <1>1, Invariance, PTL

-----------------------------------------------------------------------------
(***************************************************************************)
(* The buffer implements the bounded channel.                              *)
(***************************************************************************)
\* add is num slots ahead of rem.
LEMMA AddAhead == 
    ASSUME Inv
    PROVE  add = (rem + num) % BUF_SIZE
<1> DEFINE q == kk \div BUF_SIZE
           s == rem + num
<1>1. /\ kk \in Nat /\ num \in 0 .. BUF_SIZE /\ kk + num \in Nat
      /\ rem = kk % BUF_SIZE /\ add = (kk + num) % BUF_SIZE
  BY RingAssumption DEF Inv, CountersAgree, TypeOK
<1>2. kk = BUF_SIZE * q + rem /\ rem \in Slots /\ q \in Nat
  BY <1>1, Division
<1> HIDE DEF q
<1>3. s \in 0 .. 2 * BUF_SIZE - 1
  BY <1>1, <1>2, RingAssumption DEF Slots
<1>4. CASE s < BUF_SIZE
  <2>1. kk + num = BUF_SIZE * q + s /\ s \in Slots
    BY <1>1, <1>2, <1>3, <1>4, RingAssumption DEF Slots
  <2>2. (kk + num) % BUF_SIZE = s
    BY <1>1, <1>2, <2>1, DivisionUnique
  <2>3. QED
    BY <1>1, <1>3, <1>4, <2>2, ModTwice
<1>5. CASE s >= BUF_SIZE
  <2>1. /\ kk + num = BUF_SIZE * (q + 1) + (s - BUF_SIZE) 
        /\ s - BUF_SIZE \in Slots /\ q + 1 \in Int
    BY <1>1, <1>2, <1>3, <1>5, RingAssumption DEF Slots
  <2>2. (kk + num) % BUF_SIZE = s - BUF_SIZE
    BY <1>1, <2>1, DivisionUnique
  <2>3. QED
    BY <1>1, <1>3, <1>5, <2>2, ModTwice, RingAssumption
<1>6. QED
  BY <1>3, <1>4, <1>5, RingAssumption

\* The channel, as a sequence.
Contents == [k \in 1 .. num |-> Numbered(buffer[(rem + k - 1) % BUF_SIZE])]

Items == {"producer"} \X Int

ContentsFacts == 
    /\ Contents \in Seq(Items)
    /\ Len(Contents) = num
    /\ \A k \in 1 .. num : Contents[k] = Numbered(buffer[(rem + k - 1) % BUF_SIZE])

LEMMA ContentsIsSeq == Inv => ContentsFacts
<1> SUFFICES ASSUME Inv PROVE ContentsFacts
  OBVIOUS
<1>1. num \in Nat /\ rem \in Slots /\ buffer \in [Slots -> 0 .. ITEMS]
  BY RingAssumption DEF Inv, CountersAgree, TypeOK
<1>2. ASSUME NEW k \in 1 .. num
      PROVE  Numbered(buffer[(rem + k - 1) % BUF_SIZE]) \in Items
  <2>1. rem + k - 1 \in Nat
    BY <1>1, RingAssumption DEF Slots
  <2>2. (rem + k - 1) % BUF_SIZE \in Slots
    BY <2>1, Division
  <2>3. buffer[(rem + k - 1) % BUF_SIZE] \in Int
    BY <1>1, <2>2, RingAssumption
  <2>4. QED
    BY <2>3 DEF Numbered, Items
<1>3. Contents \in [1 .. num -> Items]
  BY <1>2 DEF Contents
<1>4. Contents \in Seq(Items)
  BY <1>1, <1>3, SeqDef
<1>5. Len(Contents) = num
  BY <1>1, <1>3, <1>4, LenProperties
<1>6. QED
  BY <1>4, <1>5 DEF Contents, ContentsFacts

LEMMA NextContents == 
    ASSUME Inv, [Next]_vars
    PROVE  ContentsFacts /\ ContentsFacts'
<1>1. Inv'
  BY InvStep
<1>2. Inv' => ContentsFacts'
  BY ContentsIsSeq, PTL
<1>3. QED
  BY <1>1, <1>2, ContentsIsSeq

\* Inserting at `add' appends to the channel.
LEMMA InsertAppends == 
    ASSUME Inv, ProducerInserts
    PROVE  Contents' = Append(Contents, Numbered(i))
<1> USE RingAssumption
<1>1. /\ num \in 0 .. BUF_SIZE /\ num < BUF_SIZE /\ num' = num + 1
      /\ rem \in Slots /\ rem' = rem /\ add \in Slots /\ add = (rem + num) % BUF_SIZE
      /\ i \in Int
  BY InsertKeeps, AddAhead DEF Inv, CountersAgree, TypeOK, ProducerInserts
<1>2. \A s \in Slots : buffer'[s] = IF s = add THEN i ELSE buffer[s]
  BY DEF ProducerInserts, Inv, CountersAgree, TypeOK
<1>3. ContentsFacts /\ ContentsFacts'
  BY NextContents DEF Next, ProducerNext
<1>4. Numbered(i) \in Items
  BY <1>1 DEF Numbered, Items
<1>5. ASSUME NEW k \in 1 .. num
      PROVE  Contents'[k] = Contents[k]
  <2> DEFINE x == rem + k - 1
             y == rem + num
  <2>0. num \in Nat /\ num < BUF_SIZE /\ rem \in Slots
    BY <1>1
  <2>1. x \in 0 .. 2 * BUF_SIZE - 1 /\ y \in 0 .. 2 * BUF_SIZE - 1
    BY <2>0 DEF Slots
  <2>2. /\ x % BUF_SIZE = IF x < BUF_SIZE THEN x ELSE x - BUF_SIZE
        /\ y % BUF_SIZE = IF y < BUF_SIZE THEN y ELSE y - BUF_SIZE
    <3> HIDE DEF x, y
    <3>1. QED
      BY <2>1, ModTwice
  <2>3. x % BUF_SIZE \in Slots /\ x % BUF_SIZE # y % BUF_SIZE
    BY <2>0, <2>1, <2>2 DEF Slots
  <2>4. buffer'[x % BUF_SIZE] = buffer[x % BUF_SIZE]
    BY <1>1, <1>2, <2>3
  <2>5. Contents[k] = Numbered(buffer[x % BUF_SIZE])
    BY <1>3 DEF ContentsFacts
  <2>6. rem' = rem /\ k \in 1 .. num'
    BY <1>1
  <2>7. Contents'[k] = Numbered(buffer'[x % BUF_SIZE])
    BY <1>3, <2>6 DEF ContentsFacts, Numbered
  <2>8. QED
    BY <2>4, <2>5, <2>7
<1>6. Contents'[num + 1] = Numbered(i)
  <2>1. rem + (num + 1) - 1 = rem + num
    BY <1>1 DEF Slots
  <2>2. Contents'[num + 1] = Numbered(buffer'[(rem + (num + 1) - 1) % BUF_SIZE])
    BY <1>1, <1>3 DEF ContentsFacts, Numbered
  <2>3. QED
    BY <1>1, <1>2, <2>1, <2>2
<1>7. /\ Append(Contents, Numbered(i)) \in Seq(Items)
      /\ Len(Append(Contents, Numbered(i))) = num + 1
      /\ \A k \in 1 .. num : Append(Contents, Numbered(i))[k] = Contents[k]
      /\ Append(Contents, Numbered(i))[num + 1] = Numbered(i)
  BY <1>3, <1>4, AppendProperties DEF ContentsFacts
<1>8. \A k \in 1 .. num + 1 : Contents'[k] = Append(Contents, Numbered(i))[k]
  BY <1>1, <1>5, <1>6, <1>7
<1>9. QED
  BY <1>1, <1>3, <1>7, <1>8, SeqEqual DEF ContentsFacts

\* Removing at `rem' takes the head off the channel.
LEMMA TakeTakes == 
    ASSUME Inv, ConsumerTakes
    PROVE  /\ Contents # <<>>
           /\ Numbered(buffer[rem]) = Head(Contents)
           /\ Contents' = Tail(Contents)
<1> USE RingAssumption
<1>1. /\ num \in 0 .. BUF_SIZE /\ num > 0 /\ num' = num - 1
      /\ rem \in Slots /\ rem' = (rem + 1) % BUF_SIZE /\ buffer' = buffer
  BY TakeKeeps DEF Inv, CountersAgree, TypeOK, ConsumerTakes
<1>2. ContentsFacts /\ ContentsFacts'
  BY NextContents DEF Next, ConsumerNext
<1>3. Contents # <<>>
  BY <1>1, <1>2, EmptySeq DEF ContentsFacts
<1>4. Numbered(buffer[rem]) = Head(Contents)
  <2>1. rem + 1 - 1 = rem /\ rem % BUF_SIZE = rem
    BY <1>1, ModTwice DEF Slots
  <2>2. Contents[1] = Numbered(buffer[(rem + 1 - 1) % BUF_SIZE])
    BY <1>1, <1>2 DEF ContentsFacts
  <2>3. Head(Contents) = Contents[1]
    BY <1>2, <1>3 DEF ContentsFacts
  <2>4. QED
    BY <2>1, <2>2, <2>3
<1>5. /\ Tail(Contents) \in Seq(Items)
      /\ Len(Tail(Contents)) = num - 1
      /\ \A k \in 1 .. num - 1 : Tail(Contents)[k] = Contents[k + 1]
  BY <1>1, <1>2, <1>3, HeadTailProperties DEF ContentsFacts
<1>6. ASSUME NEW k \in 1 .. num - 1
      PROVE  Contents'[k] = Contents[k + 1]
  <2> DEFINE x == rem + (k + 1) - 1
             y == rem' + k - 1
  <2>0. rem' = IF rem + 1 < BUF_SIZE THEN rem + 1 ELSE 0
    BY <1>1, ModTwice DEF Slots
  <2>1. /\ x \in 0 .. 2 * BUF_SIZE - 1 /\ y \in 0 .. 2 * BUF_SIZE - 1
        /\ x = y \/ (x = y + BUF_SIZE /\ y < BUF_SIZE)
    <3>1. num \in 0 .. BUF_SIZE /\ rem \in Slots
      BY <1>1
    <3>2. QED
      BY <2>0, <3>1 DEF Slots
  <2>2. y % BUF_SIZE = x % BUF_SIZE
    <3> HIDE DEF x, y
    <3>1. /\ x % BUF_SIZE = IF x < BUF_SIZE THEN x ELSE x - BUF_SIZE
          /\ y % BUF_SIZE = IF y < BUF_SIZE THEN y ELSE y - BUF_SIZE
      BY <2>1, ModTwice
    <3>2. QED
      BY <2>1, <3>1
  <2>3. /\ Contents'[k] = Numbered(buffer'[(rem' + k - 1) % BUF_SIZE])
        /\ Contents[k + 1] = Numbered(buffer[(rem + (k + 1) - 1) % BUF_SIZE])
    BY <1>1, <1>2 DEF ContentsFacts, Numbered
  <2>4. QED
    BY <1>1, <2>2, <2>3
<1>7. Contents' = Tail(Contents)
  BY <1>1, <1>2, <1>5, <1>6, SeqEqual DEF ContentsFacts
<1>8. QED
  BY <1>3, <1>4, <1>7

LEMMA FifoInitHolds == Init => Fifo!FifoInit
<1> SUFFICES ASSUME Init PROVE Fifo!FifoInit
  OBVIOUS
<1>1. Contents = <<>>
  BY DEF Init, Contents
<1>2. QED
  BY <1>1 DEF Fifo!FifoInit, Init, Contents, Numbered

LEMMA FifoStep == Inv /\ [Next]_vars => [Fifo!FifoNext]_Fifo!fifoVars
<1> SUFFICES ASSUME Inv, [Next]_vars PROVE [Fifo!FifoNext]_Fifo!fifoVars
  OBVIOUS
<1> DEFINE sentNow == [p \in {"producer"} |-> i - 1]
           gotNow == [c \in {"consumer"} |-> Numbered(taken)]
<1>1. CASE ProducerInserts
  <2>1. i \in 1 .. ITEMS /\ sentNow["producer"] = i - 1
    BY <1>1, RingAssumption DEF ProducerInserts, Inv, CountersAgree, TypeOK, RoundsCounted
  <2>2. sentNow' = [sentNow EXCEPT !["producer"] = sentNow["producer"] + 1]
    BY <1>1, <2>1 DEF ProducerInserts
  <2>3. Len(Contents) < BUF_SIZE
    BY <1>1, InsertKeeps, ContentsIsSeq DEF ContentsFacts
  <2>4. Contents' = Append(Contents, <<"producer", sentNow["producer"]>>)
    BY <1>1, <2>1, InsertAppends DEF Numbered
  <2>5. gotNow' = gotNow
    BY <1>1 DEF ProducerInserts, Numbered
  <2>6. sentNow["producer"] < ITEMS
    BY <2>1, RingAssumption
  <2>7. Fifo!Put("producer")
    BY <2>2, <2>3, <2>4, <2>5, <2>6 DEF Fifo!Put, Contents
  <2>8. QED
    BY <2>7 DEF Fifo!FifoNext
<1>2. CASE ConsumerTakes
  <2>1. sentNow' = sentNow
    BY <1>2 DEF ConsumerTakes
  <2>2. taken' = buffer[rem]
    BY <1>2 DEF ConsumerTakes
  <2>3. gotNow' = [gotNow EXCEPT !["consumer"] = Head(Contents)]
    BY <1>2, <2>2, TakeTakes DEF Numbered
  <2>4. Fifo!Take("consumer")
    BY <1>2, <2>1, <2>3, TakeTakes DEF Fifo!Take, Contents, Numbered
  <2>5. QED
    BY <2>4 DEF Fifo!FifoNext
<1>3. CASE UNCHANGED <<buffer, add, rem, num, i, kk, taken>>
  BY <1>3 DEF Fifo!fifoVars, Numbered
<1>4. CASE ProducerBlocks \/ ConsumerBlocks \/ \E t \in Thread : SpuriousWakeup(t)
  BY <1>3, <1>4 DEF ProducerBlocks, ConsumerBlocks, SpuriousWakeup
<1>5. CASE UNCHANGED vars
  BY <1>3, <1>5 DEF vars
<1>6. QED
  BY <1>1, <1>2, <1>4, <1>5 DEF Next, ProducerNext, ConsumerNext, Terminated

\* The consumer takes what the producer inserted, in that order and each item
\* once, whoever waits or is woken without a reason.
THEOREM RingImplementsFifo == Spec => ImplementsFifo
BY FifoInitHolds, FifoStep, Invariance, PTL DEF Spec, ImplementsFifo, Fifo!FifoSpec
=============================================================================
