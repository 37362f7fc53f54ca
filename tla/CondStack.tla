------------------------------ MODULE CondStack ------------------------------
(***************************************************************************)
(* One producer and one consumer around a stack with a mutex and two       *)
(* condition variables, and the checks that grade the exercise:            *)
(* src/kolos/kwolos/gw/zad1/main.c and checks.h.                           *)
(*                                                                         *)
(* Each stretch from one acquisition of the mutex to its release, be it by *)
(* pthread_cond_wait, is one action.  mutex1 is assigned under the mutex   *)
(* it is to hold, cond1 under mutex1; check_cond_* read mutex1 without it. *)
(***************************************************************************)
EXTENDS Integers, Sequences, SequencesExt

CONSTANTS BUFFER_SIZE, VALUE_COUNT,
          NULL

\* check_results expects (20 / 2) * (0 + 19): the sum, for an even number.
ASSUME StackAssumption == 
    /\ NULL \notin {"mutex", "producer_cond", "consumer_cond"}
    /\ BUFFER_SIZE \in Nat \ {0}
    /\ VALUE_COUNT \in Nat \ {0} /\ VALUE_COUNT % 2 = 0

VARIABLES buffer,                  \* buffer[0 .. count-1]
          i,                       \* the loop counters
          pc,
          processed_value_count, processed_value_sum,
          mutex1, cond1,           \* the first mutex and condition seen
          results                  \* the results printed so far

vars == <<buffer, i, pc, processed_value_count, processed_value_sum, mutex1, cond1, results>>
checkVars == <<processed_value_count, processed_value_sum, mutex1, cond1, results>>

Thread == {"producer", "consumer"}

mutex(t) == "mutex"
cond_Shared(t) == "producer_cond"    \* a seeded fault
cond(t) == IF t = "producer" THEN "producer_cond" ELSE "consumer_cond"

Init == 
    /\ buffer = <<>>
    /\ i = [t \in Thread |-> 0]
    /\ pc = [t \in Thread \cup {"main"} |-> IF t = "main" THEN "join" ELSE "check_mutex"]
    /\ processed_value_count = 0 /\ processed_value_sum = 0
    /\ mutex1 = NULL /\ cond1 = NULL
    /\ results = {}

\* The printed line, for example "PASS: mutex producer".
Verdict(what, t, ok) == <<what, t, IF ok THEN "PASS" ELSE "FAIL">>

NextRound(t) == IF i[t] + 1 < VALUE_COUNT THEN "lock" ELSE "done"

\* A thread ends a round; a signal ends the other one's wait.
EndsRoundAndSignals(t) == 
    /\ i' = [i EXCEPT ![t] = @ + 1]
    /\ pc' = [u \in DOMAIN pc |-> IF u = t THEN NextRound(t)
                                  ELSE IF pc[u] = "waiting" THEN "woken" ELSE pc[u]]

-----------------------------------------------------------------------------
(***************************************************************************)
(* Seeded faults, which the specification does not use; cond_Shared above  *)
(* is another.                                                             *)
(***************************************************************************)
ConsumerPops_Peeks == 
    /\ pc["consumer"] \in {"lock", "woken"}
    /\ buffer # <<>>
    /\ processed_value_sum' = processed_value_sum + Head(buffer)
    /\ processed_value_count' = processed_value_count + 1
    /\ buffer' = Front(buffer)
    /\ EndsRoundAndSignals("consumer")
    /\ UNCHANGED <<mutex1, cond1, results>>

ConsumerPops_NoSignal == 
    /\ pc["consumer"] \in {"lock", "woken"}
    /\ buffer # <<>>
    /\ processed_value_sum' = processed_value_sum + Last(buffer)
    /\ processed_value_count' = processed_value_count + 1
    /\ buffer' = Front(buffer)
    /\ i' = [i EXCEPT !["consumer"] = @ + 1]
    /\ pc' = [pc EXCEPT !["consumer"] = NextRound("consumer")]
    /\ UNCHANGED <<mutex1, cond1, results>>

-----------------------------------------------------------------------------
\* check_mutex_producer, check_mutex_consumer
ChecksMutex(t) == 
    /\ pc[t] = "check_mutex"
    /\ pc' = [pc EXCEPT ![t] = "check_cond"]
    /\ mutex1' = IF mutex1 = NULL THEN mutex(t) ELSE mutex1
    /\ results' = results \cup {Verdict("mutex", t, mutex1 \in {NULL, mutex(t)})}
    /\ UNCHANGED <<buffer, i, processed_value_count, processed_value_sum, cond1>>

\* check_cond_producer, check_cond_consumer: the two conditions shall differ.
\* The broadcast before it wakes nobody but the caller, who does not wait.
ChecksCond(t) == 
    /\ pc[t] = "check_cond"
    /\ mutex1 # NULL
    /\ pc' = [pc EXCEPT ![t] = "lock"]
    /\ cond1' = IF cond1 = NULL THEN cond(t) ELSE cond1
    /\ results' = results \cup {Verdict("cond", t, cond1 # cond(t))}
    /\ UNCHANGED <<buffer, i, processed_value_count, processed_value_sum, mutex1>>

\* pthread_cond_wait(&producer_cond, &mutex)
ProducerBlocks == 
    /\ pc["producer"] \in {"lock", "woken"}
    /\ Len(buffer) = BUFFER_SIZE
    /\ pc' = [pc EXCEPT !["producer"] = "waiting"]
    /\ UNCHANGED <<buffer, i, checkVars>>

ProducerPushes == 
    /\ pc["producer"] \in {"lock", "woken"}
    /\ Len(buffer) # BUFFER_SIZE
    /\ buffer' = Append(buffer, i["producer"])
    /\ EndsRoundAndSignals("producer")
    /\ UNCHANGED checkVars

\* pthread_cond_wait(&consumer_cond, &mutex)
ConsumerBlocks == 
    /\ pc["consumer"] \in {"lock", "woken"}
    /\ buffer = <<>>
    /\ pc' = [pc EXCEPT !["consumer"] = "waiting"]
    /\ UNCHANGED <<buffer, i, checkVars>>

\* process_value(buffer[--count])
ConsumerPops == 
    /\ pc["consumer"] \in {"lock", "woken"}
    /\ buffer # <<>>
    /\ processed_value_sum' = processed_value_sum + Last(buffer)
    /\ processed_value_count' = processed_value_count + 1
    /\ buffer' = Front(buffer)
    /\ EndsRoundAndSignals("consumer")
    /\ UNCHANGED <<mutex1, cond1, results>>

\* pthread_cond_wait may return unsignalled.
SpuriousWakeup(t) == 
    /\ pc[t] = "waiting"
    /\ pc' = [pc EXCEPT ![t] = "woken"]
    /\ UNCHANGED <<buffer, i, checkVars>>

\* main joins both threads; check_wait and check_results.
MainChecks == 
    /\ pc["main"] = "join"
    /\ \A t \in Thread : pc[t] = "done"
    /\ pc' = [pc EXCEPT !["main"] = "done"]
    /\ results' = results \cup
         {Verdict("thread awaiting", "main", processed_value_count = VALUE_COUNT),
          Verdict("value processing", "main", 
                  processed_value_sum = (VALUE_COUNT \div 2) * (0 + VALUE_COUNT - 1))}
    /\ UNCHANGED <<buffer, i, processed_value_count, processed_value_sum, mutex1, cond1>>

Terminated == pc["main"] = "done" /\ UNCHANGED vars

ProducerNext == ChecksMutex("producer") \/ ChecksCond("producer") \/ ProducerBlocks \/ ProducerPushes
ConsumerNext == ChecksMutex("consumer") \/ ChecksCond("consumer") \/ ConsumerBlocks \/ ConsumerPops

Next == 
    \/ ProducerNext
    \/ ConsumerNext
    \/ \E t \in Thread : SpuriousWakeup(t)
    \/ MainChecks
    \/ Terminated

Spec == Init /\ [][Next]_vars

\* Every thread runs on unless it waits; nobody owes a spurious wakeup.
Fairness == WF_vars(ProducerNext) /\ WF_vars(ConsumerNext) /\ WF_vars(MainChecks)

FairSpec == Spec /\ Fairness

-----------------------------------------------------------------------------
(***************************************************************************)
(* Properties.                                                             *)
(***************************************************************************)
TypeOK == 
    /\ buffer \in Seq(0 .. VALUE_COUNT - 1) /\ Len(buffer) <= BUFFER_SIZE
    /\ i \in [Thread -> 0 .. VALUE_COUNT]
    /\ pc["main"] \in {"join", "done"}
    /\ \A t \in Thread : pc[t] \in {"check_mutex", "check_cond", "lock", "waiting", "woken", "done"}
    /\ processed_value_count \in Nat /\ processed_value_sum \in Nat
    /\ mutex1 \in {NULL, "mutex"}
    /\ cond1 \in {NULL, "producer_cond", "consumer_cond"}

SumOf(seq) == FoldLeft(LAMBDA sum, value : sum + value, 0, seq)

\* What was processed and what is still on the stack add up to what was
\* pushed: nothing is lost, overwritten or processed twice in any order.
SumConserved == 
    /\ TypeOK
    /\ 2 * (processed_value_sum + SumOf(buffer)) = i["producer"] * (i["producer"] - 1)

\* The checks of checks.h print PASS in every interleaving, those that read
\* mutex1 and cond1 while the other thread may not have set them included.
NothingFails == \A line \in results : line[3] = "PASS"

\* Every check is made and main returns.
AllGraded == <>(pc["main"] = "done" /\ Verdict("value processing", "main", TRUE) \in results)
=============================================================================
