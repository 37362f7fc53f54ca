------------------------ MODULE SemaphoreBufferProofs ------------------------
(***************************************************************************)
(* Proofs about the semaphore guarded ring buffer, for any number of       *)
(* producers and consumers, any buffer size and any number of items.       *)
(***************************************************************************)
EXTENDS SemaphoreBuffer, FiniteSetTheorems, SequenceTheorems, TLAPS

-----------------------------------------------------------------------------
(***************************************************************************)
(* Counting threads, and indices modulo the size of the buffer.            *)
(***************************************************************************)

Kinds == {Producer, Consumer}

LEMMA CountIsNat == 
    ASSUME NEW T \in Kinds, NEW v
    PROVE  Count(T, v) \in Nat /\ Count(T, v)' \in Nat
<1>1. IsFiniteSet(T)
  BY BufferAssumption DEF Kinds
<1>2. IsFiniteSet({t \in T : pc[t] = v}) /\ IsFiniteSet({t \in T : pc'[t] = v})
  BY <1>1, FS_Subset
<1>3. QED
  BY <1>2, FS_CardinalityType DEF Count

\* When a thread moves, one thread less is where it was and one more where it is.
LEMMA CountMoves == 
    ASSUME TypeOK, NEW T \in Kinds, NEW t \in T, NEW from, NEW to, from # to,
           Goes(t, from, to)
    PROVE  /\ Count(T, from)' = Count(T, from) - 1
           /\ Count(T, to)' = Count(T, to) + 1
           /\ \A v : v \notin {from, to} => Count(T, v)' = Count(T, v)
<1> DEFINE at(v) == {u \in T : pc[u] = v}
<1>0. /\ T \subseteq Thread /\ IsFiniteSet(T)
      /\ pc[t] = from
      /\ pc' = [pc EXCEPT ![t] = to]
      /\ \A u \in T : pc'[u] = IF u = t THEN to ELSE pc[u]
  BY BufferAssumption DEF Kinds, Thread, TypeOK, Goes
<1>1. IsFiniteSet(at(from)) /\ IsFiniteSet(at(to))
  BY <1>0, FS_Subset
<1>2. Count(T, from)' = Count(T, from) - 1
  <2>1. {u \in T : pc'[u] = from} = at(from) \ {t} /\ t \in at(from)
    BY <1>0
  <2>2. QED
    BY <1>1, <2>1, FS_RemoveElement DEF Count
<1>3. Count(T, to)' = Count(T, to) + 1
  <2>1. {u \in T : pc'[u] = to} = at(to) \cup {t} /\ t \notin at(to)
    BY <1>0
  <2>2. QED
    BY <1>1, <2>1, FS_AddElement DEF Count
<1>4. ASSUME NEW v, v \notin {from, to}
      PROVE  Count(T, v)' = Count(T, v)
  <2>1. {u \in T : pc'[u] = v} = at(v)
    BY <1>0, <1>4
  <2>2. QED
    BY <2>1 DEF Count
<1>5. QED
  BY <1>2, <1>3, <1>4

\* ... and the threads of the other kind stay where they are.
LEMMA CountStays == 
    ASSUME TypeOK, NEW T \in Kinds, NEW t \in Thread \ T, NEW from, NEW to,
           Goes(t, from, to)
    PROVE  \A v : Count(T, v)' = Count(T, v)
<1>1. \A u \in T : pc'[u] = pc[u]
  BY DEF Kinds, Thread, TypeOK, Goes
<1>2. ASSUME NEW v
      PROVE  {u \in T : pc'[u] = v} = {u \in T : pc[u] = v}
  BY <1>1
<1>3. QED
  BY <1>2 DEF Count

\* Indices and sums of an index and a count are below two buffer sizes.
LEMMA ModTwice == 
    ASSUME NEW x \in 0 .. 2 * BufferSize - 1
    PROVE  x % BufferSize = IF x < BufferSize THEN x ELSE x - BufferSize
BY BufferAssumption

-----------------------------------------------------------------------------
(***************************************************************************)
(* Types and the conservation of slots are inductive together.             *)
(***************************************************************************)
Inv == TypeOK /\ Conserved

LEMMA TypesStep == 
    ASSUME TypeOK, [Next]_vars
    PROVE  TypeOK'
<1> USE BufferAssumption DEF TypeOK, Thread, Goes
<1>1. ASSUME NEW p \in Producer, ProducerWaits(p)
      PROVE  TypeOK'
  BY <1>1 DEF ProducerWaits
<1>2. ASSUME NEW p \in Producer, ProducerInserts(p)
      PROVE  TypeOK'
  <2>1. Item(p) \in Producer \X Nat
    BY DEF Item
  <2>2. in' \in Slots /\ buffer' \in [Slots -> (Producer \X Nat) \cup {NoItem}]
    BY <1>2, <2>1 DEF ProducerInserts, Slots
  <2>3. QED
    BY <1>2, <2>2 DEF ProducerInserts
<1>3. ASSUME NEW p \in Producer, ProducerPosts(p)
      PROVE  TypeOK'
  BY <1>3 DEF ProducerPosts, NextRound
<1>4. ASSUME NEW c \in Consumer, ConsumerWaits(c)
      PROVE  TypeOK'
  BY <1>4 DEF ConsumerWaits
<1>5. ASSUME NEW c \in Consumer, ConsumerRemoves(c)
      PROVE  TypeOK'
  <2>1. out' \in Slots
    BY <1>5 DEF ConsumerRemoves, Slots
  <2>2. QED
    BY <1>5, <2>1 DEF ConsumerRemoves
<1>6. ASSUME NEW c \in Consumer, ConsumerPosts(c)
      PROVE  TypeOK'
  BY <1>6 DEF ConsumerPosts, NextRound
<1>7. CASE UNCHANGED vars
  BY <1>7 DEF vars
<1>8. QED
  BY <1>1, <1>2, <1>3, <1>4, <1>5, <1>6, <1>7 DEF Next, ProducerNext, ConsumerNext, Terminated

\* What each action does to the counts: the part of it that Conserved and
\* the refinement speak of.
LEMMA ProducerCounts == 
    ASSUME TypeOK, NEW p \in Producer, NEW from, NEW to, from # to, Goes(p, from, to)
    PROVE  /\ Count(Producer, from)' = Count(Producer, from) - 1
           /\ Count(Producer, to)' = Count(Producer, to) + 1
           /\ \A v : v \notin {from, to} => Count(Producer, v)' = Count(Producer, v)
           /\ \A v : Count(Consumer, v)' = Count(Consumer, v)
           /\ \A T \in Kinds : \A v : Count(T, v) \in Nat /\ Count(T, v)' \in Nat
<1>1. Producer \in Kinds /\ Consumer \in Kinds /\ p \in Thread \ Consumer
  BY BufferAssumption DEF Kinds, Thread
<1>2. \A v : Count(Consumer, v)' = Count(Consumer, v)
  BY <1>1, CountStays
<1>3. /\ Count(Producer, from)' = Count(Producer, from) - 1
      /\ Count(Producer, to)' = Count(Producer, to) + 1
      /\ \A v : v \notin {from, to} => Count(Producer, v)' = Count(Producer, v)
  BY <1>1, CountMoves
<1>4. \A T \in Kinds : \A v : Count(T, v) \in Nat /\ Count(T, v)' \in Nat
  BY CountIsNat
<1>5. QED
  BY <1>2, <1>3, <1>4

LEMMA ConsumerCounts == 
    ASSUME TypeOK, NEW c \in Consumer, NEW from, NEW to, from # to, Goes(c, from, to)
    PROVE  /\ Count(Consumer, from)' = Count(Consumer, from) - 1
           /\ Count(Consumer, to)' = Count(Consumer, to) + 1
           /\ \A v : v \notin {from, to} => Count(Consumer, v)' = Count(Consumer, v)
           /\ \A v : Count(Producer, v)' = Count(Producer, v)
           /\ \A T \in Kinds : \A v : Count(T, v) \in Nat /\ Count(T, v)' \in Nat
<1>1. Producer \in Kinds /\ Consumer \in Kinds /\ c \in Thread \ Producer
  BY BufferAssumption DEF Kinds, Thread
<1>2. \A v : Count(Producer, v)' = Count(Producer, v)
  BY <1>1, CountStays
<1>3. /\ Count(Consumer, from)' = Count(Consumer, from) - 1
      /\ Count(Consumer, to)' = Count(Consumer, to) + 1
      /\ \A v : v \notin {from, to} => Count(Consumer, v)' = Count(Consumer, v)
  BY <1>1, CountMoves
<1>4. \A T \in Kinds : \A v : Count(T, v) \in Nat /\ Count(T, v)' \in Nat
  BY CountIsNat
<1>5. QED
  BY <1>2, <1>3, <1>4

Balance == Occupied + empty + Count(Producer, "insert") + Count(Consumer, "post")

LEMMA OccupiedRange == 
    ASSUME Inv
    PROVE  Occupied \in 0 .. BufferSize /\ Balance = BufferSize
<1>1. /\ Count(Producer, "post") \in Nat /\ Count(Producer, "insert") \in Nat
      /\ Count(Consumer, "post") \in Nat /\ Count(Consumer, "remove") \in Nat
  BY CountIsNat DEF Kinds
<1>2. QED
  BY <1>1, BufferAssumption DEF Inv, TypeOK, Conserved, Occupied, Balance

\* The semaphore calls move slots between the counts and the semaphores.
LEMMA SemaphoreStep == 
    ASSUME Inv, NEW t,
           \/ t \in Producer /\ (ProducerWaits(t) \/ ProducerPosts(t))
           \/ t \in Consumer /\ (ConsumerWaits(t) \/ ConsumerPosts(t))
    PROVE  Occupied' = Occupied /\ Balance' = Balance
<1> USE BufferAssumption DEF Inv, TypeOK, Kinds, Occupied, Balance, NextRound
<1>1. CASE t \in Producer /\ ProducerWaits(t)
  BY <1>1, ProducerCounts DEF ProducerWaits
<1>2. CASE t \in Producer /\ ProducerPosts(t)
  BY <1>2, ProducerCounts DEF ProducerPosts
<1>3. CASE t \in Consumer /\ ConsumerWaits(t)
  BY <1>3, ConsumerCounts DEF ConsumerWaits
<1>4. CASE t \in Consumer /\ ConsumerPosts(t)
  BY <1>4, ConsumerCounts DEF ConsumerPosts
<1>5. QED
  BY <1>1, <1>2, <1>3, <1>4

\* A producer that has passed sem_wait finds a free slot.
LEMMA InsertStep == 
    ASSUME Inv, NEW p \in Producer, ProducerInserts(p)
    PROVE  /\ Occupied < BufferSize
           /\ Occupied' = Occupied + 1
           /\ Balance' = Balance
<1> USE BufferAssumption
<1>1. Occupied' = Occupied + 1 /\ Balance' = Balance
  BY ProducerCounts DEF ProducerInserts, Balance, Occupied, Inv, Kinds, TypeOK
<1>2. Count(Producer, "insert") \in Nat \ {0} /\ Count(Consumer, "post") \in Nat
  BY ProducerCounts DEF ProducerInserts, Inv, Kinds, TypeOK
<1>3. Balance = BufferSize /\ empty \in Nat /\ full \in Nat
  BY OccupiedRange DEF Inv, TypeOK
<1>4. QED
  BY <1>1, <1>2, <1>3, OccupiedRange DEF Balance

\* A consumer that has passed sem_wait finds an item.
LEMMA RemoveStep == 
    ASSUME Inv, NEW c \in Consumer, ConsumerRemoves(c)
    PROVE  /\ Occupied > 0
           /\ Occupied' = Occupied - 1
           /\ Balance' = Balance
<1> USE BufferAssumption
<1>1. Occupied' = Occupied - 1 /\ Balance' = Balance
  BY ConsumerCounts DEF ConsumerRemoves, Balance, Occupied, Inv, Kinds, TypeOK
<1>2. Count(Consumer, "remove") \in Nat \ {0} /\ Count(Producer, "post") \in Nat
  BY ConsumerCounts DEF ConsumerRemoves, Inv, Kinds, TypeOK
<1>3. Balance = BufferSize /\ empty \in Nat /\ full \in Nat
  BY OccupiedRange DEF Inv, TypeOK
<1>4. QED
  BY <1>1, <1>2, <1>3, OccupiedRange DEF Occupied

LEMMA InvInit == Init => Inv
<1> SUFFICES ASSUME Init PROVE Inv
  OBVIOUS
<1>1. TypeOK
  BY BufferAssumption DEF Init, TypeOK, Slots, Thread
<1>2. \A T \in Kinds : \A v \in {"insert", "remove", "post"} : Count(T, v) = 0
  <2>1. ASSUME NEW T \in Kinds, NEW v \in {"insert", "remove", "post"}
        PROVE  {t \in T : pc[t] = v} = {}
    BY <2>1 DEF Init, Kinds, Thread
  <2>2. QED
    BY <2>1, FS_EmptySet DEF Count
<1>3. Conserved
  BY <1>1, <1>2, BufferAssumption DEF Init, Conserved, Occupied, Kinds
<1>4. QED
  BY <1>1, <1>3 DEF Inv

LEMMA InvStep == 
    ASSUME Inv, [Next]_vars
    PROVE  Inv'
<1> USE BufferAssumption
<1>1. TypeOK'
  BY TypesStep DEF Inv
<1>2. Occupied \in 0 .. BufferSize /\ in \in Slots /\ out \in Slots 
  BY OccupiedRange DEF Inv, TypeOK
<1>3. Balance = BufferSize /\ in = (out + Occupied) % BufferSize
  BY OccupiedRange DEF Inv, Conserved
<1>4. SUFFICES Balance' = Balance /\ in' = (out' + Occupied') % BufferSize
  BY <1>1, <1>3 DEF Inv, Conserved, Balance
<1>5. ASSUME NEW p \in Producer, ProducerWaits(p) \/ ProducerPosts(p)
      PROVE  Balance' = Balance /\ in' = (out' + Occupied') % BufferSize
  BY <1>3, <1>5, SemaphoreStep DEF ProducerWaits, ProducerPosts
<1>6. ASSUME NEW c \in Consumer, ConsumerWaits(c) \/ ConsumerPosts(c)
      PROVE  Balance' = Balance /\ in' = (out' + Occupied') % BufferSize
  BY <1>3, <1>6, SemaphoreStep DEF ConsumerWaits, ConsumerPosts
<1>7. ASSUME NEW p \in Producer, ProducerInserts(p)
      PROVE  Balance' = Balance /\ in' = (out' + Occupied') % BufferSize
  <2>1. in' = (in + 1) % BufferSize /\ out' = out
    BY <1>7 DEF ProducerInserts
  <2>2. Occupied < BufferSize /\ Occupied' = Occupied + 1 /\ Balance' = Balance
    BY <1>7, InsertStep
  <2>3. /\ out + Occupied \in 0 .. 2 * BufferSize - 1
        /\ out + Occupied + 1 \in 0 .. 2 * BufferSize - 1
        /\ in + 1 \in 0 .. 2 * BufferSize - 1
    BY <1>2, <2>2 DEF Slots
  <2>4. QED
    BY <1>2, <1>3, <2>1, <2>2, <2>3, ModTwice DEF Slots
<1>8. ASSUME NEW c \in Consumer, ConsumerRemoves(c)
      PROVE  Balance' = Balance /\ in' = (out' + Occupied') % BufferSize
  <2>1. out' = (out + 1) % BufferSize /\ in' = in
    BY <1>8 DEF ConsumerRemoves
  <2>2. Occupied > 0 /\ Occupied' = Occupied - 1 /\ Balance' = Balance
    BY <1>8, RemoveStep
  <2>3. /\ out + 1 \in 0 .. 2 * BufferSize - 1
        /\ out + Occupied \in 0 .. 2 * BufferSize - 1
    BY <1>2, <2>2 DEF Slots
  <2>4. out' + Occupied' \in 0 .. 2 * BufferSize - 1
    BY <1>2, <2>1, <2>2, <2>3, ModTwice DEF Slots
  <2>5. QED
    BY <1>2, <1>3, <2>1, <2>2, <2>3, <2>4, ModTwice DEF Slots
<1>9. CASE UNCHANGED vars
  BY <1>3, <1>9 DEF vars, Balance, Occupied, Count
<1>10. QED
  BY <1>5, <1>6, <1>7, <1>8, <1>9 DEF Next, ProducerNext, ConsumerNext, Terminated

LEMMA Invariance == Spec => []Inv
BY InvInit, InvStep, PTL DEF Spec

\* Types, and among them that the semaphores never go below zero.
THEOREM BufferTypes == Spec => []TypeOK
BY Invariance, PTL DEF Inv

\* The two semaphores and the threads between their semaphore calls account
\* for every slot, whatever the interleaving of any number of threads.
THEOREM SlotsAreConserved == Spec => []SlotsConserved
BY Invariance, PTL DEF Inv, SlotsConserved

-----------------------------------------------------------------------------
(***************************************************************************)
(* The ring buffer implements the bounded channel.                         *)
(***************************************************************************)
\* A step that neither inserts nor removes is invisible in the channel.
LEMMA QuietStep == 
    ASSUME Inv, Occupied' = Occupied, UNCHANGED <<buffer, out, item>>, Sent' = Sent
    PROVE  UNCHANGED Fifo!fifoVars
BY DEF Fifo!fifoVars, Contents

Items == (Producer \X Nat) \cup {NoItem}

\* What Contents is, as a sequence.
ContentsFacts == 
    /\ Contents \in Seq(Items)
    /\ Len(Contents) = Occupied
    /\ \A k \in 1 .. Occupied : Contents[k] = buffer[(out + k - 1) % BufferSize]

LEMMA ContentsIsSeq == Inv => ContentsFacts
<1> SUFFICES ASSUME Inv PROVE ContentsFacts
  OBVIOUS
<1>1. /\ Occupied \in Nat /\ out \in Slots /\ Occupied <= BufferSize
      /\ buffer \in [Slots -> Items]
  BY OccupiedRange, BufferAssumption DEF Inv, TypeOK, Items
<1>2. ASSUME NEW k \in 1 .. Occupied
      PROVE  buffer[(out + k - 1) % BufferSize] \in Items
  <2>1. (out + k - 1) % BufferSize \in Slots
    BY <1>1, BufferAssumption DEF Slots
  <2>2. QED
    BY <1>1, <2>1
<1>3. Contents \in [1 .. Occupied -> Items]
  BY <1>2 DEF Contents
<1>4. Contents \in Seq(Items)
  BY <1>1, <1>3, SeqDef
<1>5. Len(Contents) = Occupied
  BY <1>1, <1>3, <1>4, LenProperties
<1>6. QED
  BY <1>4, <1>5 DEF Contents, ContentsFacts

LEMMA NextContents == 
    ASSUME Inv, [Next]_vars
    PROVE  ContentsFacts /\ ContentsFacts'
<1>1. Inv'
  BY InvStep
<1>2. Inv' => ContentsFacts'
  BY ContentsIsSeq, PTL
<1>3. QED
  BY <1>1, <1>2, ContentsIsSeq

\* Inserting at `in' appends to the channel.
LEMMA InsertAppends == 
    ASSUME Inv, NEW p \in Producer, ProducerInserts(p)
    PROVE  Contents' = Append(Contents, Item(p))
<1> USE BufferAssumption
<1>1. Occupied \in 0 .. BufferSize /\ Occupied < BufferSize /\ Occupied' = Occupied + 1
  BY OccupiedRange, InsertStep
<1>2. out \in Slots /\ in \in Slots /\ in = (out + Occupied) % BufferSize
  BY DEF Inv, TypeOK, Conserved
<1>3. out' = out /\ \A s \in Slots : buffer'[s] = IF s = in THEN Item(p) ELSE buffer[s]
  BY DEF ProducerInserts, Inv, TypeOK
<1>4. ContentsFacts /\ ContentsFacts'
  BY NextContents DEF Next, ProducerNext
<1>5. Item(p) \in Items
  BY DEF Item, Items, Inv, TypeOK, Thread
<1>6. ASSUME NEW k \in 1 .. Occupied
      PROVE  Contents'[k] = Contents[k]
  <2> DEFINE x == out + k - 1
             y == out + Occupied
  <2>1. x \in 0 .. 2 * BufferSize - 1 /\ y \in 0 .. 2 * BufferSize - 1
    BY <1>1, <1>2 DEF Slots
  <2>2. in = y % BufferSize
    BY <1>2
  <2>3. /\ x % BufferSize = IF x < BufferSize THEN x ELSE x - BufferSize
        /\ y % BufferSize = IF y < BufferSize THEN y ELSE y - BufferSize
    <3> HIDE DEF x, y
    <3>1. QED
      BY <2>1, ModTwice
  <2>4. x % BufferSize \in Slots /\ x % BufferSize # in
    BY <1>1, <1>2, <2>1, <2>2, <2>3 DEF Slots
  <2>5. buffer'[x % BufferSize] = buffer[x % BufferSize]
    BY <1>3, <2>4
  <2>6. QED
    BY <1>1, <1>3, <1>4, <2>5 DEF ContentsFacts
<1>7. Contents'[Occupied + 1] = Item(p)
  <2>1. out + (Occupied + 1) - 1 = out + Occupied
    BY <1>1, <1>2 DEF Slots
  <2>2. Contents'[Occupied + 1] = buffer'[(out + (Occupied + 1) - 1) % BufferSize]
    BY <1>1, <1>3, <1>4 DEF ContentsFacts
  <2>3. QED
    BY <1>2, <1>3, <2>1, <2>2
<1>8. /\ Append(Contents, Item(p)) \in Seq(Items)
      /\ Len(Append(Contents, Item(p))) = Occupied + 1
      /\ \A k \in 1 .. Occupied : Append(Contents, Item(p))[k] = Contents[k]
      /\ Append(Contents, Item(p))[Occupied + 1] = Item(p)
  BY <1>4, <1>5, AppendProperties DEF ContentsFacts
<1>9. \A k \in 1 .. Occupied + 1 : Contents'[k] = Append(Contents, Item(p))[k]
  BY <1>1, <1>6, <1>7, <1>8
<1>10. QED
  BY <1>1, <1>4, <1>8, <1>9, SeqEqual DEF ContentsFacts

\* Removing at `out' takes the head off the channel.
LEMMA RemoveTakes == 
    ASSUME Inv, NEW c \in Consumer, ConsumerRemoves(c)
    PROVE  /\ Contents # <<>>
           /\ buffer[out] = Head(Contents)
           /\ Contents' = Tail(Contents)
<1> USE BufferAssumption
<1>1. Occupied \in 0 .. BufferSize /\ Occupied > 0 /\ Occupied' = Occupied - 1
  BY OccupiedRange, RemoveStep
<1>2. out \in Slots /\ out' = (out + 1) % BufferSize /\ buffer' = buffer
  BY DEF Inv, TypeOK, ConsumerRemoves
<1>3. ContentsFacts /\ ContentsFacts'
  BY NextContents DEF Next, ConsumerNext
<1>4. Contents # <<>>
  BY <1>1, <1>3, EmptySeq DEF ContentsFacts
<1>5. buffer[out] = Head(Contents)
  <2>1. out + 1 - 1 = out /\ out % BufferSize = out
    BY <1>2, ModTwice DEF Slots
  <2>2. Contents[1] = buffer[(out + 1 - 1) % BufferSize]
    BY <1>1, <1>3 DEF ContentsFacts
  <2>3. Head(Contents) = Contents[1]
    BY <1>3, <1>4 DEF ContentsFacts
  <2>4. QED
    BY <2>1, <2>2, <2>3
<1>6. /\ Tail(Contents) \in Seq(Items)
      /\ Len(Tail(Contents)) = Occupied - 1
      /\ \A k \in 1 .. Occupied - 1 : Tail(Contents)[k] = Contents[k + 1]
  BY <1>1, <1>3, <1>4, HeadTailProperties DEF ContentsFacts
<1>7. ASSUME NEW k \in 1 .. Occupied - 1
      PROVE  Contents'[k] = Contents[k + 1]
  <2> DEFINE x == out + (k + 1) - 1
             y == out' + k - 1
  <2>0. out' = IF out + 1 < BufferSize THEN out + 1 ELSE 0
    BY <1>2, ModTwice DEF Slots
  <2>1. /\ x \in 0 .. 2 * BufferSize - 1 /\ y \in 0 .. 2 * BufferSize - 1
        /\ x = y \/ (x = y + BufferSize /\ y < BufferSize)
    BY <1>1, <1>2, <2>0 DEF Slots
  <2>2. y % BufferSize = x % BufferSize
    <3> HIDE DEF x, y
    <3>1. /\ x % BufferSize = IF x < BufferSize THEN x ELSE x - BufferSize
          /\ y % BufferSize = IF y < BufferSize THEN y ELSE y - BufferSize
      BY <2>1, ModTwice
    <3>2. QED
      BY <2>1, <3>1
  <2>3. /\ Contents'[k] = buffer'[(out' + k - 1) % BufferSize]
        /\ Contents[k + 1] = buffer[(out + (k + 1) - 1) % BufferSize]
    BY <1>1, <1>3 DEF ContentsFacts
  <2>4. QED
    BY <1>2, <2>2, <2>3
<1>8. Contents' = Tail(Contents)
  BY <1>1, <1>3, <1>6, <1>7, SeqEqual DEF ContentsFacts
<1>9. QED
  BY <1>4, <1>5, <1>8

LEMMA FifoInitHolds == Init => Fifo!FifoInit
<1> SUFFICES ASSUME Init PROVE Fifo!FifoInit
  OBVIOUS
<1>1. Occupied = 0
  <2>1. \A T \in Kinds : \A v \in {"remove", "post"} : {t \in T : pc[t] = v} = {}
    BY DEF Init, Kinds, Thread
  <2>2. Count(Producer, "post") = 0 /\ Count(Consumer, "remove") = 0
    BY <2>1, FS_EmptySet DEF Count, Kinds
  <2>3. QED
    BY <2>2 DEF Init, Occupied
<1>2. Contents = <<>>
  BY <1>1 DEF Contents
<1>3. Sent = [p \in Producer |-> 0]
  BY DEF Init, Sent, Thread
<1>4. QED
  BY <1>2, <1>3 DEF Fifo!FifoInit, Init

LEMMA FifoStep == 
    ASSUME Inv, [Next]_vars
    PROVE  [Fifo!FifoNext]_Fifo!fifoVars
<1> USE BufferAssumption
<1>1. ASSUME NEW p \in Producer, ProducerWaits(p) \/ ProducerPosts(p)
      PROVE  UNCHANGED Fifo!fifoVars
  <2>1. Sent' = Sent
    BY <1>1 DEF ProducerWaits, ProducerPosts, NextRound, Goes, Sent, Inv, TypeOK, Thread
  <2>2. Occupied' = Occupied
    BY <1>1, SemaphoreStep
  <2>3. QED
    BY <1>1, <2>1, <2>2, QuietStep DEF ProducerWaits, ProducerPosts
<1>2. ASSUME NEW c \in Consumer, ConsumerWaits(c) \/ ConsumerPosts(c)
      PROVE  UNCHANGED Fifo!fifoVars
  <2>1. Sent' = Sent
    BY <1>2 DEF ConsumerWaits, ConsumerPosts, NextRound, Goes, Sent, Inv, TypeOK, Thread
  <2>2. Occupied' = Occupied
    BY <1>2, SemaphoreStep
  <2>3. QED
    BY <1>2, <2>1, <2>2, QuietStep DEF ConsumerWaits, ConsumerPosts
<1>3. ASSUME NEW p \in Producer, ProducerInserts(p)
      PROVE  Fifo!Put(p)
  <2>1. Sent[p] = i[p] /\ i[p] < MaxItems
    BY <1>3 DEF ProducerInserts, Goes, Sent, Inv, TypeOK, Thread
  <2>2. Sent' = [Sent EXCEPT ![p] = Sent[p] + 1]
    BY <1>3 DEF ProducerInserts, Goes, Sent, Inv, TypeOK, Thread
  <2>3. Len(Contents) < BufferSize
    BY <1>3, InsertStep, ContentsIsSeq DEF ContentsFacts
  <2>4. Contents' = Append(Contents, <<p, Sent[p]>>)
    BY <1>3, <2>1, InsertAppends DEF Item
  <2>5. item' = item
    BY <1>3 DEF ProducerInserts
  <2>6. QED
    BY <2>1, <2>2, <2>3, <2>4, <2>5 DEF Fifo!Put
<1>4. ASSUME NEW c \in Consumer, ConsumerRemoves(c)
      PROVE  Fifo!Take(c)
  <2>1. Sent' = Sent
    BY <1>4 DEF ConsumerRemoves, Goes, Sent, Inv, TypeOK, Thread
  <2>2. item' = [item EXCEPT ![c] = Head(Contents)]
    BY <1>4, RemoveTakes DEF ConsumerRemoves
  <2>3. QED
    BY <1>4, <2>1, <2>2, RemoveTakes DEF Fifo!Take
<1>5. CASE UNCHANGED vars
  <2>1. Sent' = Sent /\ Occupied' = Occupied
    BY <1>5 DEF vars, Sent, Occupied, Count
  <2>2. QED
    BY <1>5, <2>1, QuietStep DEF vars
<1>6. QED
  BY <1>1, <1>2, <1>3, <1>4, <1>5
     DEF Next, ProducerNext, ConsumerNext, Terminated, Fifo!FifoNext

\* The buffer implements the bounded channel: whatever the interleaving, items
\* are neither lost nor taken twice, and they are taken in the order in which
\* they were inserted.
THEOREM BufferImplementsFifo == Spec => ImplementsFifo
<1>1. Inv /\ [Next]_vars => [Fifo!FifoNext]_Fifo!fifoVars
  BY FifoStep
<1>2. QED
  BY <1>1, FifoInitHolds, Invariance, PTL DEF Spec, ImplementsFifo, Fifo!FifoSpec
=============================================================================
