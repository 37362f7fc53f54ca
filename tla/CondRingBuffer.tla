--------------------------- MODULE CondRingBuffer ----------------------------
(***************************************************************************)
(* One producer and one consumer around a ring buffer with a mutex and two *)
(* condition variables: src/kolos/test_2/g_02/task_2/main.c, of which      *)
(* test_2/second/5/task_2/main.c is a copy.                                *)
(*                                                                         *)
(* Nothing is shared outside of the mutex.  A critical section that ends   *)
(* in pthread_cond_wait frees the mutex there, so that each stretch from   *)
(* one acquisition of the mutex to its release is one action.              *)
(***************************************************************************)
EXTENDS Integers, Sequences

CONSTANTS BUF_SIZE,
          ITEMS      \* rounds of both loops, 20 in the code

ASSUME RingAssumption == BUF_SIZE \in Nat \ {0} /\ ITEMS \in Nat \ {0}

VARIABLES buffer, add, rem, num,
          i,           \* the item the producer inserts next
          kk,          \* rounds the consumer has finished
          taken,       \* the consumer's i, which it prints
          pc           \* "lock", "waiting", "woken" or "done"

vars == <<buffer, add, rem, num, i, kk, taken, pc>>

Thread == {"producer", "consumer"}
Slots == 0 .. BUF_SIZE - 1

Init == 
    /\ buffer = [s \in Slots |-> 0]
    /\ add = 0 /\ rem = 0 /\ num = 0
    /\ i = 1 /\ kk = 0
    /\ taken = 0
    /\ pc = [t \in Thread |-> "lock"]

\* A thread moves on; a broadcast ends the other one's wait.
GoesAndWakes(t, to) == 
    pc' = [u \in Thread |-> IF u = t THEN to 
                            ELSE IF pc[u] = "waiting" THEN "woken" ELSE pc[u]]

-----------------------------------------------------------------------------
(***************************************************************************)
(* Seeded faults, which the specification does not use.                    *)
(***************************************************************************)
ProducerInserts_NoWrap == 
    /\ pc["producer"] \in {"lock", "woken"} /\ num < BUF_SIZE
    /\ buffer' = [buffer EXCEPT ![add] = i]
    /\ add' = add + 1
    /\ num' = num + 1
    /\ i' = i + 1
    /\ GoesAndWakes("producer", IF i < ITEMS THEN "lock" ELSE "done")
    /\ UNCHANGED <<rem, kk, taken>>

ConsumerTakes_NoBroadcast == 
    /\ pc["consumer"] \in {"lock", "woken"}
    /\ num > 0
    /\ taken' = buffer[rem]
    /\ rem' = (rem + 1) % BUF_SIZE
    /\ num' = num - 1
    /\ kk' = kk + 1
    /\ pc' = [pc EXCEPT !["consumer"] = IF kk + 1 < ITEMS THEN "lock" ELSE "done"]
    /\ UNCHANGED <<buffer, add, i>>

ConsumerTakes_Newest == 
    /\ pc["consumer"] \in {"lock", "woken"}
    /\ num > 0
    /\ taken' = buffer[(add + BUF_SIZE - 1) % BUF_SIZE]
    /\ rem' = (rem + 1) % BUF_SIZE
    /\ num' = num - 1
    /\ kk' = kk + 1
    /\ GoesAndWakes("consumer", IF kk + 1 < ITEMS THEN "lock" ELSE "done")
    /\ UNCHANGED <<buffer, add, i>>

-----------------------------------------------------------------------------
\* pthread_cond_wait(&c_prod, &m)
ProducerBlocks == 
    /\ pc["producer"] \in {"lock", "woken"}
    /\ num = BUF_SIZE
    /\ pc' = [pc EXCEPT !["producer"] = "waiting"]
    /\ UNCHANGED <<buffer, add, rem, num, i, kk, taken>>

\* The rest of the round.  A thread that begins a round exits the program if
\* num > BUF_SIZE, one that was woken does not look again: see NeverExits.
ProducerInserts == 
    /\ \/ pc["producer"] = "lock" /\ num < BUF_SIZE
       \/ pc["producer"] = "woken" /\ num # BUF_SIZE
    /\ buffer' = [buffer EXCEPT ![add] = i]
    /\ add' = (add + 1) % BUF_SIZE
    /\ num' = num + 1
    /\ i' = i + 1
    /\ GoesAndWakes("producer", IF i < ITEMS THEN "lock" ELSE "done")
    /\ UNCHANGED <<rem, kk, taken>>

\* pthread_cond_wait(&c_cons, &m)
ConsumerBlocks == 
    /\ pc["consumer"] \in {"lock", "woken"}
    /\ num = 0
    /\ pc' = [pc EXCEPT !["consumer"] = "waiting"]
    /\ UNCHANGED <<buffer, add, rem, num, i, kk, taken>>

ConsumerTakes == 
    /\ \/ pc["consumer"] = "lock" /\ num > 0
       \/ pc["consumer"] = "woken" /\ num # 0
    /\ taken' = buffer[rem]
    /\ rem' = (rem + 1) % BUF_SIZE
    /\ num' = num - 1
    /\ kk' = kk + 1
    /\ GoesAndWakes("consumer", IF kk + 1 < ITEMS THEN "lock" ELSE "done")
    /\ UNCHANGED <<buffer, add, i>>

\* pthread_cond_wait may return unsignalled.
SpuriousWakeup(t) == 
    /\ pc[t] = "waiting"
    /\ pc' = [pc EXCEPT ![t] = "woken"]
    /\ UNCHANGED <<buffer, add, rem, num, i, kk, taken>>

\* main has joined both threads and returns.
Terminated == (\A t \in Thread : pc[t] = "done") /\ UNCHANGED vars

ProducerNext == ProducerBlocks \/ ProducerInserts
ConsumerNext == ConsumerBlocks \/ ConsumerTakes

Next == 
    \/ ProducerNext
    \/ ConsumerNext
    \/ \E t \in Thread : SpuriousWakeup(t)
    \/ Terminated

Spec == Init /\ [][Next]_vars

\* Either thread runs on unless it waits; nobody owes a spurious wakeup.
Fairness == WF_vars(ProducerNext) /\ WF_vars(ConsumerNext)

FairSpec == Spec /\ Fairness

-----------------------------------------------------------------------------
(***************************************************************************)
(* Properties.                                                             *)
(***************************************************************************)
TypeOK == 
    /\ buffer \in [Slots -> 0 .. ITEMS]
    /\ add \in Slots /\ rem \in Slots
    /\ num \in Int
    /\ i \in 1 .. ITEMS + 1 /\ kk \in 0 .. ITEMS
    /\ taken \in 0 .. ITEMS
    /\ pc \in [Thread -> {"lock", "waiting", "woken", "done"}]

\* The checks for overflow and underflow at the head of both loops, which end
\* the program with exit(1), never find anything; nor would they if a thread
\* that was woken looked again.
NeverExits == 
    /\ pc["producer"] \in {"lock", "woken"} => num <= BUF_SIZE
    /\ pc["consumer"] \in {"lock", "woken"} => num >= 0

\* Whoever waits has reason to: the broadcast that ends the reason ends the wait.
NobodyWaitsInVain == 
    /\ pc["producer"] = "waiting" => num = BUF_SIZE
    /\ pc["consumer"] = "waiting" => num = 0

\* The counter, the indices and the rounds of both loops agree, and the checks
\* for overflow find nothing.
CountersAgree == 
    /\ TypeOK
    /\ NeverExits
    /\ num = i - 1 - kk
    /\ add = (i - 1) % BUF_SIZE
    /\ rem = kk % BUF_SIZE

\* The item n of the channel is the number n + 1 of the code.
Numbered(n) == <<"producer", n - 1>>

Fifo == INSTANCE BoundedFifo WITH
            Producer <- {"producer"}, Consumer <- {"consumer"},
            MaxItems <- ITEMS, Capacity <- BUF_SIZE, NoItem <- Numbered(0),
            channel <- [k \in 1 .. num |-> Numbered(buffer[(rem + k - 1) % BUF_SIZE])],
            sent <- [p \in {"producer"} |-> i - 1],
            got <- [c \in {"consumer"} |-> Numbered(taken)]

\* The consumer prints 1, 2, 3, ... each once.
ImplementsFifo == Fifo!FifoSpec

\* Both threads come to their end, with no wakeup that nobody signalled.
AllDone == <>(\A t \in Thread : pc[t] = "done")
=============================================================================
