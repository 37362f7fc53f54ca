--------------------------- MODULE SemaphoreBuffer ---------------------------
(***************************************************************************)
(* The producers and consumers of src/kolos/kwolos/kw/zad3/main.c: a ring  *)
(* buffer guarded by a mutex, and two semaphores that count its empty and  *)
(* its full slots.                                                         *)
(*                                                                         *)
(* Nobody blocks inside the mutex and nobody looks at the buffer outside   *)
(* of it, so a critical section is one action.  The semaphores are waited  *)
(* for before the mutex is taken and posted after it is free again, by a   *)
(* producer even a second later: between its two semaphore calls a thread  *)
(* may be overtaken by any other.                                          *)
(***************************************************************************)
EXTENDS Integers, Sequences, FiniteSets

CONSTANTS Producer, Consumer,   \* the threads, five of each in main
          MaxItems,             \* items that a thread produces or consumes
          BufferSize,
          NoItem                \* what buffer holds initially

ASSUME BufferAssumption == 
    /\ MaxItems \in Nat \ {0}
    /\ BufferSize \in Nat \ {0}
    /\ IsFiniteSet(Producer) /\ IsFiniteSet(Consumer)
    /\ Producer \cap Consumer = {}

VARIABLES empty, full,          \* the semaphores
          buffer, in, out,
          i, item, pc           \* loop counter, item last consumed, place in the code

vars == <<empty, full, buffer, in, out, i, item, pc>>

Thread == Producer \cup Consumer
Slots == 0 .. BufferSize - 1

\* 10 * id + i: different for all items of five producers with five items each.
Item(p) == <<p, i[p]>>

Init == 
    /\ empty = BufferSize
    /\ full = 0
    /\ buffer = [s \in Slots |-> NoItem]
    /\ in = 0
    /\ out = 0
    /\ i = [t \in Thread |-> 0]
    /\ item = [c \in Consumer |-> NoItem]
    /\ pc = [t \in Thread |-> "wait"]

Goes(t, from, to) == pc[t] = from /\ pc' = [pc EXCEPT ![t] = to]

\* The end of a round of the for loop.
NextRound(t) == 
    /\ i' = [i EXCEPT ![t] = @ + 1]
    /\ Goes(t, "post", IF i[t] + 1 < MaxItems THEN "wait" ELSE "done")

-----------------------------------------------------------------------------
(***************************************************************************)
(* Seeded faults, which the specification does not use.                    *)
(***************************************************************************)
ProducerPosts_Empty(p) == 
    /\ NextRound(p)
    /\ empty' = empty + 1
    /\ UNCHANGED <<full, buffer, in, out, item>>

ConsumerRemoves_LastIn(c) == 
    /\ Goes(c, "remove", "post")
    /\ item' = [item EXCEPT ![c] = buffer[(in + BufferSize - 1) % BufferSize]]
    /\ out' = (out + 1) % BufferSize
    /\ UNCHANGED <<empty, full, buffer, in, i>>

ConsumerPosts_Nothing(c) == 
    /\ NextRound(c)
    /\ UNCHANGED <<empty, full, buffer, in, out, item>>

-----------------------------------------------------------------------------
\* sem_wait(&empty)
ProducerWaits(p) == 
    /\ empty > 0
    /\ Goes(p, "wait", "insert")
    /\ empty' = empty - 1
    /\ UNCHANGED <<full, buffer, in, out, i, item>>

ProducerInserts(p) == 
    /\ Goes(p, "insert", "post")
    /\ buffer' = [buffer EXCEPT ![in] = Item(p)]
    /\ in' = (in + 1) % BufferSize
    /\ UNCHANGED <<empty, full, out, i, item>>

\* sem_post(&full), after a sleep.
ProducerPosts(p) == 
    /\ NextRound(p)
    /\ full' = full + 1
    /\ UNCHANGED <<empty, buffer, in, out, item>>

\* sem_wait(&full)
ConsumerWaits(c) == 
    /\ full > 0
    /\ Goes(c, "wait", "remove")
    /\ full' = full - 1
    /\ UNCHANGED <<empty, buffer, in, out, i, item>>

ConsumerRemoves(c) == 
    /\ Goes(c, "remove", "post")
    /\ item' = [item EXCEPT ![c] = buffer[out]]
    /\ out' = (out + 1) % BufferSize
    /\ UNCHANGED <<empty, full, buffer, in, i>>

\* sem_post(&empty)
ConsumerPosts(c) == 
    /\ NextRound(c)
    /\ empty' = empty + 1
    /\ UNCHANGED <<full, buffer, in, out, item>>

ProducerNext(p) == ProducerWaits(p) \/ ProducerInserts(p) \/ ProducerPosts(p)
ConsumerNext(c) == ConsumerWaits(c) \/ ConsumerRemoves(c) \/ ConsumerPosts(c)

\* main has joined all threads and returns.
Terminated == (\A t \in Thread : pc[t] = "done") /\ UNCHANGED vars

Next == 
    \/ \E p \in Producer : ProducerNext(p)
    \/ \E c \in Consumer : ConsumerNext(c)
    \/ Terminated

Spec == Init /\ [][Next]_vars

\* Every thread that is not blocked runs on.
Fairness == 
    /\ \A p \in Producer : WF_vars(ProducerNext(p))
    /\ \A c \in Consumer : WF_vars(ConsumerNext(c))

FairSpec == Spec /\ Fairness

-----------------------------------------------------------------------------
(***************************************************************************)
(* Properties.                                                             *)
(***************************************************************************)
TypeOK == 
    /\ empty \in Nat
    /\ full \in Nat
    /\ buffer \in [Slots -> (Producer \X Nat) \cup {NoItem}]
    /\ in \in Slots
    /\ out \in Slots
    /\ i \in [Thread -> 0 .. MaxItems]
    /\ \A t \in Thread : i[t] = MaxItems <=> pc[t] = "done"
    /\ item \in [Consumer -> (Producer \X Nat) \cup {NoItem}]
    /\ pc \in [Thread -> {"wait", "insert", "remove", "post", "done"}]
    /\ \A p \in Producer : pc[p] # "remove"
    /\ \A c \in Consumer : pc[c] # "insert"

Count(T, place) == Cardinality({t \in T : pc[t] = place})

\* The slots that hold an item nobody has taken: those that are posted as full
\* and those whose item was inserted and not posted yet, or claimed and not
\* removed yet.
Occupied == full + Count(Producer, "post") + Count(Consumer, "remove")

Conserved == 
    /\ Occupied + empty + Count(Producer, "insert") + Count(Consumer, "post") = BufferSize
    /\ in = (out + Occupied) % BufferSize

\* Beside the types: the two semaphores and the threads between their calls
\* account for every slot, so that at most BufferSize items are in the buffer and a
\* producer that has passed sem_wait finds room, however the threads overtake
\* each other.
SlotsConserved == TypeOK /\ Conserved

Contents == [k \in 1 .. Occupied |-> buffer[(out + k - 1) % BufferSize]]

\* The items a producer has inserted.
Sent == [p \in Producer |-> IF pc[p] = "post" THEN i[p] + 1 ELSE i[p]]

Fifo == INSTANCE BoundedFifo WITH 
            Capacity <- BufferSize, channel <- Contents, sent <- Sent, got <- item

\* No item is lost, overwritten, taken twice or taken out of order, although
\* `full' is posted in another order than the slots are filled.
ImplementsFifo == Fifo!FifoSpec

\* Equal numbers of producers and consumers all come to their end.
AllDone == <>(\A t \in Thread : pc[t] = "done")
=============================================================================
