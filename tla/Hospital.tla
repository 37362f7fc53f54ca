------------------------------- MODULE Hospital -------------------------------
(***************************************************************************)
(* The sleeping-doctor simulation of src/lab9: one doctor, patients and    *)
(* pharmacists, each a thread, and the main thread that starts, joins and  *)
(* ends them.                                                              *)
(*                                                                         *)
(* Every thread has a program counter; an action is the code from one      *)
(* access to shared state to the next.  A critical section that cannot     *)
(* block and whose data nobody reads outside the lock is one action,       *)
(* enabled while its mutex is free.  A mutex variable records the owner    *)
(* where a thread keeps the lock over several actions: the doctor polls    *)
(* holding doctor->mutex and treats holding queue->mutex, a pharmacist     *)
(* locks doctor->mutex holding medicine_mutex.  Reads the code makes       *)
(* without a lock are actions of their own.                                *)
(*                                                                         *)
(* `condition' is the set of threads blocked in pthread_cond_wait on       *)
(* doctor->condition, the only condition variable: the doctor waits on it  *)
(* with doctor->mutex, the pharmacists with medicine_mutex.                *)
(***************************************************************************)
EXTENDS PatientQueue, FiniteSets

CONSTANTS Doctor, Main,                \* the two single threads
          Pharmacist,                  \* the pharmacist threads
          MEDICINE_CABINET_CAPACITY,   \* common.h:18
          MIN_MEDICINE_REQUIRED,       \* common.h:19
          MAX_VISIT_RETRIES,           \* common.h:21
          TREATED_CAP, WAITING_CAP,    \* where the two free running counters saturate
          SpuriousWakeups              \* may pthread_cond_wait return unsignalled?

Threads == {Doctor, Main} \cup Patient \cup Pharmacist

ASSUME HospitalAssumption == 
    /\ IsFiniteSet(Patient)
    /\ MIN_MEDICINE_REQUIRED \in Nat
    /\ MEDICINE_CABINET_CAPACITY \in Nat
    /\ MEDICINE_CABINET_CAPACITY >= MIN_MEDICINE_REQUIRED
    /\ MAX_VISIT_RETRIES \in Nat
    /\ TREATED_CAP \in Nat \ {0}
    /\ WAITING_CAP \in Nat \ {0}
    /\ SpuriousWakeups \in BOOLEAN
    /\ Doctor # Main
    /\ {Doctor, Main} \cap (Patient \cup Pharmacist) = {}
    /\ Patient \cap Pharmacist = {}
    /\ NULL \notin Threads

VARIABLES 
    medicine_count, medicine_status, waiting_pharmacists,   \* struct Clinic
    all_patients_done, patients_treated,
    doctor_status,                                          \* struct Doctor
    patient_status, visit_attempts,                         \* struct Patient
    doctor_mutex, medicine_mutex, queue_mutex, condition,   \* locks and waiters
    doctor_pc, patient_pc, pharmacist_pc, main_pc,
    med_count, pharm_waiting,                               \* the doctor's locals
    patients_to_treat, smashed, dismissed,
    counted, late                                           \* history, see Remember

clinicVars == <<medicine_count, medicine_status, waiting_pharmacists,
                all_patients_done, patients_treated>>
mutexes == <<doctor_mutex, medicine_mutex, queue_mutex>>
patientVars == <<patient_status, visit_attempts, patient_pc>>
readings == <<med_count, pharm_waiting>>
doctorVars == <<doctor_status, doctor_pc, readings, patients_to_treat, smashed,
                dismissed>>
roundVarsButMutexes == <<queueVars, medicine_count, medicine_status, patients_treated,
                         patient_status, patients_to_treat, smashed, dismissed>>
roundVarsButDoctorMutex == <<roundVarsButMutexes, medicine_mutex, queue_mutex>>
roundVarsButQueueMutex == <<roundVarsButMutexes, doctor_mutex, medicine_mutex>>
roundVars == <<roundVarsButMutexes, mutexes>>

vars == <<queueVars, clinicVars, mutexes, condition, patientVars, doctorVars,
          pharmacist_pc, main_pc, counted, late>>

\* The variables that a thread of a kind never changes: its next-state relation
\* leaves them alone, and its actions speak of the others; `counted' and
\* `late' are left to Remember.
doctorFrame == <<waiting_pharmacists, all_patients_done, visit_attempts, patient_pc,
                 pharmacist_pc>>
patientFrame == <<clinicVars, mutexes, doctorVars, pharmacist_pc, main_pc>>
pharmacistFrame == <<queueVars, medicine_count, all_patients_done, patients_treated,
                     doctor_mutex, queue_mutex, patientVars, doctorVars, main_pc>>
mainFrame == <<queueVars, medicine_count, waiting_pharmacists, patients_treated,
               mutexes, patientVars, doctorVars, pharmacist_pc>>

PatientStatus == {"ARRIVING", "WALKING", "QUEUE", "TREATMENT", "GONE"}
DoctorStatus == {"SLEEPING", "TREATING_PATIENTS", "ACCEPTING_PHARMACY"}
MedicineStatus == {"IN_DELIVERY", "RECEIVED"}

\* clinic_init does not assign medicine_status.
Init == 
    /\ queue_init
    /\ medicine_count = MEDICINE_CABINET_CAPACITY
    /\ medicine_status \in MedicineStatus
    /\ waiting_pharmacists = 0
    /\ all_patients_done = FALSE
    /\ patients_treated = 0
    /\ doctor_status = "SLEEPING"
    /\ patient_status = [p \in Patient |-> "ARRIVING"]
    /\ visit_attempts = [p \in Patient |-> 0]
    /\ doctor_mutex = NULL /\ medicine_mutex = NULL /\ queue_mutex = NULL
    /\ condition = {}
    /\ doctor_pc = "check"
    /\ patient_pc = [p \in Patient |-> "check"]
    /\ pharmacist_pc = [q \in Pharmacist |-> "check"]
    /\ main_pc = "join"
    /\ med_count = 0 /\ pharm_waiting = 0
    /\ patients_to_treat = <<>>
    /\ smashed = FALSE
    /\ dismissed = NULL
    /\ counted = {} /\ late = 0

-----------------------------------------------------------------------------
(***************************************************************************)
(* Helpers.                                                                *)
(***************************************************************************)

\* A return from main, or the abort of a smashed stack, ends every thread.
Running == main_pc \notin {"exit", "aborted"}

Counted(n, cap) == IF n < cap THEN n + 1 ELSE n

\* pthread_cond_signal: one of the waiters, whichever it is, stops waiting.
SignalCondition == 
    \/ condition = {} /\ UNCHANGED condition
    \/ \E t \in condition : condition' = condition \ {t}

DoctorGoes(from, to) == doctor_pc = from /\ doctor_pc' = to

PatientGoes(p, from, to) == 
    patient_pc[p] = from /\ patient_pc' = [patient_pc EXCEPT ![p] = to]

SetPatientStatus(p, s) == patient_status' = [patient_status EXCEPT ![p] = s]

PharmacistGoes(q, from, to) == 
    pharmacist_pc[q] \in from /\ pharmacist_pc' = [pharmacist_pc EXCEPT ![q] = to]

MainGoes(from, to) == main_pc = from /\ main_pc' = to

-----------------------------------------------------------------------------
(***************************************************************************)
(* Seeded faults: variants of definitions below, none of them used by the  *)
(* specification.  Each breaks a property, which shows that the property   *)
(* depends on the code the original models.                                *)
(***************************************************************************)
WakingMode_NoMedicine == 
    IF queue_count = CLINIC_QUEUE_SIZE THEN 1
    ELSE IF pharm_waiting > 0 /\ med_count < MIN_MEDICINE_REQUIRED THEN 2 ELSE 0

WakingMode_NoPharmacist == 
    IF queue_count = CLINIC_QUEUE_SIZE /\ med_count >= MIN_MEDICINE_REQUIRED THEN 1
    ELSE IF med_count < MIN_MEDICINE_REQUIRED THEN 2 ELSE 0

WakingMode_NoCount == 
    IF med_count >= MIN_MEDICINE_REQUIRED THEN 1
    ELSE IF pharm_waiting > 0 /\ med_count < MIN_MEDICINE_REQUIRED THEN 2 ELSE 0

DoctorSleep_NoRecheck == 
    /\ doctor_mutex = NULL
    /\ DoctorGoes("lock", "asleep")
    /\ doctor_status' = "SLEEPING"
    /\ condition' = condition \cup {Doctor}
    /\ UNCHANGED <<roundVars, readings, main_pc>>

DoctorLocksQueue_NoLock == 
    /\ queue_mutex = NULL
    /\ DoctorGoes("lockQueue", IF patients_to_treat = <<>> THEN "treat" ELSE "useMedicine")
    /\ UNCHANGED <<roundVars, doctor_status, readings, condition, main_pc>>

DoctorLocksQueue_Clears == 
    /\ queue_mutex = NULL
    /\ DoctorGoes("lockQueue", IF patients_to_treat = <<>> THEN "treat" ELSE "useMedicine")
    /\ queue_mutex' = Doctor
    /\ clear_queue
    /\ UNCHANGED <<medicine_count, medicine_status, patients_treated, dismissed, doctor_mutex,
                   medicine_mutex, patient_status, patients_to_treat, smashed,
                   doctor_status, readings, condition, main_pc>>

DoctorEndsTreatment_NotGone == 
    /\ DoctorGoes("treating", "counting")
    /\ dismissed' = Head(patients_to_treat)
    /\ patients_to_treat' = Tail(patients_to_treat)
    /\ UNCHANGED <<queueVars, medicine_count, medicine_status, patients_treated, mutexes,
                   patient_status, smashed, doctor_status, readings, condition, main_pc>>

PatientWaited_LeavesTreated(p) == 
    /\ patient_pc[p] = "waited"
    /\ patient_pc' = [patient_pc EXCEPT ![p] = "done"]
    /\ UNCHANGED <<queueVars, condition, patient_status, visit_attempts>>

PharmacistHandsOver_NoUnlock(q) == 
    /\ medicine_mutex = NULL
    /\ PharmacistGoes(q, {"handOver"}, "check")
    /\ medicine_mutex' = q
    /\ UNCHANGED <<medicine_status, waiting_pharmacists, condition>>

-----------------------------------------------------------------------------
(***************************************************************************)
(* The doctor, doctor_thread_routine.                                      *)
(***************************************************************************)

\* while (!clinic->all_patients_done).  A return with a smashed stack may be
\* caught by the stack protector, which aborts the process.
DoctorCheck == 
    /\ \/ ~all_patients_done /\ DoctorGoes("check", "lock") /\ UNCHANGED main_pc
       \/ /\ all_patients_done
          /\ DoctorGoes("check", "done")
          /\ main_pc' \in {main_pc} \cup (IF smashed THEN {"aborted"} ELSE {})
    /\ UNCHANGED <<roundVars, doctor_status, readings, condition>>

\* Lock doctor->mutex and fall asleep in pthread_cond_wait, which frees it.
DoctorSleep == 
    /\ doctor_mutex = NULL
    /\ \/ /\ ~all_patients_done
          /\ DoctorGoes("lock", "asleep")
          /\ doctor_status' = "SLEEPING"
          /\ condition' = condition \cup {Doctor}
       \/ /\ all_patients_done
          /\ DoctorGoes("lock", "check")
          /\ UNCHANGED <<doctor_status, condition>>
    /\ UNCHANGED <<roundVars, readings, main_pc>>

\* pthread_cond_wait returns with doctor->mutex held, to keep it while polling.
DoctorAwakes == 
    /\ Doctor \notin condition
    /\ doctor_mutex = NULL
    /\ DoctorGoes("asleep", "poll")
    /\ doctor_mutex' = Doctor
    /\ UNCHANGED <<roundVarsButDoctorMutex, doctor_status, readings, condition, main_pc>>

\* while (!waking_mode && !clinic->all_patients_done), no mode chosen yet.
DoctorPolls == 
    /\ \/ ~all_patients_done /\ DoctorGoes("poll", "pollMedicine") /\ UNCHANGED doctor_mutex
       \/ all_patients_done /\ DoctorGoes("poll", "check") /\ doctor_mutex' = NULL
    /\ UNCHANGED <<roundVarsButDoctorMutex, doctor_status, readings, condition, main_pc>>

DoctorPollsMedicine == 
    /\ medicine_mutex = NULL
    /\ DoctorGoes("pollMedicine", "pollQueue")
    /\ med_count' = medicine_count
    /\ pharm_waiting' = waiting_pharmacists
    /\ UNCHANGED <<roundVars, doctor_status, condition, main_pc>>

\* The mode follows from a count and two numbers read at different times.
WakingMode == 
    IF queue_count = CLINIC_QUEUE_SIZE /\ med_count >= MIN_MEDICINE_REQUIRED THEN 1
    ELSE IF pharm_waiting > 0 /\ med_count < MIN_MEDICINE_REQUIRED THEN 2 ELSE 0

\* A mode ends the poll and frees doctor->mutex.  The two readings are dead
\* from here on and forgotten.
DoctorPollsQueue == 
    /\ queue_mutex = NULL
    /\ \/ WakingMode = 1 /\ DoctorGoes("pollQueue", "drain") /\ doctor_mutex' = NULL
       \/ WakingMode = 2 /\ DoctorGoes("pollQueue", "accept") /\ doctor_mutex' = NULL
       \/ WakingMode = 0 /\ DoctorGoes("pollQueue", "poll") /\ UNCHANGED doctor_mutex
    /\ med_count' = 0 /\ pharm_waiting' = 0
    /\ UNCHANGED <<roundVarsButDoctorMutex, doctor_status, condition, main_pc>>

\* Pop everybody, including those who enter meanwhile, into an array of
\* CLINIC_QUEUE_SIZE; the element behind it is the stack's canary.
DoctorDrains == 
    /\ queue_mutex = NULL
    /\ DoctorGoes("drain", "drain")
    /\ queue_pop
    /\ patients_to_treat' = Append(patients_to_treat, queue_array[head])
    /\ smashed' = (smashed \/ Len(patients_to_treat) = CLINIC_QUEUE_SIZE)
    /\ UNCHANGED <<medicine_count, medicine_status, patients_treated, dismissed, mutexes,
                   patient_status, doctor_status, readings, condition, main_pc>>

\* queue_is_empty, read without the lock, ends the loop.
DoctorDrained == 
    /\ queue_is_empty
    /\ DoctorGoes("drain", "lockQueue")
    /\ UNCHANGED <<roundVars, doctor_status, readings, condition, main_pc>>

\* Lock queue->mutex for the whole round; if (count > 0) ...
DoctorLocksQueue == 
    /\ queue_mutex = NULL
    /\ DoctorGoes("lockQueue", IF patients_to_treat = <<>> THEN "treat" ELSE "useMedicine")
    /\ queue_mutex' = Doctor
    /\ UNCHANGED <<roundVarsButQueueMutex, doctor_status, readings, condition, main_pc>>

DoctorUsesMedicine == 
    /\ medicine_mutex = NULL
    /\ DoctorGoes("useMedicine", "treat")
    /\ medicine_count' = medicine_count - MIN_MEDICINE_REQUIRED
    /\ UNCHANGED <<queueVars, medicine_status, patients_treated, dismissed, mutexes, patient_status,
                   patients_to_treat, smashed, doctor_status, readings, condition, main_pc>>

\* doctor_handle_patient up to its sleep.
DoctorStartsTreatment == 
    /\ patients_to_treat # <<>>
    /\ DoctorGoes("treat", "treating")
    /\ SetPatientStatus(Head(patients_to_treat), "TREATMENT")
    /\ UNCHANGED <<queueVars, medicine_count, medicine_status, patients_treated, dismissed, mutexes,
                   patients_to_treat, smashed, doctor_status, readings, condition, main_pc>>

\* ... and after it: the patient may see the GONE and leave at once.
DoctorEndsTreatment == 
    /\ DoctorGoes("treating", "counting")
    /\ SetPatientStatus(Head(patients_to_treat), "GONE")
    /\ dismissed' = Head(patients_to_treat)
    /\ patients_to_treat' = Tail(patients_to_treat)
    /\ UNCHANGED <<queueVars, medicine_count, medicine_status, patients_treated, mutexes,
                   smashed, doctor_status, readings, condition, main_pc>>

\* patients_treated++, which only main reads, after it has joined the doctor.
DoctorCounts == 
    /\ DoctorGoes("counting", "treat")
    /\ patients_treated' = Counted(patients_treated, TREATED_CAP)
    /\ dismissed' = NULL
    /\ UNCHANGED <<queueVars, medicine_count, medicine_status, mutexes, patient_status,
                   patients_to_treat, smashed, doctor_status, readings, condition, main_pc>>

DoctorEndsRound == 
    /\ patients_to_treat = <<>>
    /\ DoctorGoes("treat", "check")
    /\ queue_mutex' = NULL
    /\ UNCHANGED <<roundVarsButQueueMutex, doctor_status, readings, condition, main_pc>>

DoctorAcceptsPharmacy == 
    /\ DoctorGoes("accept", "refill")
    /\ doctor_status' = "ACCEPTING_PHARMACY"
    /\ UNCHANGED <<roundVars, readings, condition, main_pc>>

\* doctor_accept_medicine; waiting_pharmacists is not decremented.
DoctorRefills == 
    /\ medicine_mutex = NULL
    /\ DoctorGoes("refill", "check")
    /\ medicine_count' = MEDICINE_CABINET_CAPACITY
    /\ medicine_status' = "RECEIVED"
    /\ SignalCondition
    /\ UNCHANGED <<queueVars, patients_treated, dismissed, mutexes, patient_status,
                   patients_to_treat, smashed, doctor_status, readings, main_pc>>

DoctorNext == 
    /\ \/ DoctorCheck \/ DoctorSleep \/ DoctorAwakes
       \/ DoctorPolls \/ DoctorPollsMedicine \/ DoctorPollsQueue
       \/ DoctorDrains \/ DoctorDrained \/ DoctorLocksQueue \/ DoctorUsesMedicine
       \/ DoctorStartsTreatment \/ DoctorEndsTreatment \/ DoctorCounts
       \/ DoctorEndsRound \/ DoctorAcceptsPharmacy \/ DoctorRefills
    /\ UNCHANGED doctorFrame

-----------------------------------------------------------------------------
(***************************************************************************)
(* A patient, patient_thread_routine.  Only its own thread reads the       *)
(* status of a patient, and the doctor writes it only while the patient is *)
(* in his array.  A write the patient makes outside of the waiting room is *)
(* therefore part of the step that decides it, and the final               *)
(* patient->status = GONE part of leaving the loop; the write after the    *)
(* admission, which races with the doctor, is an action of its own.        *)
(***************************************************************************)

\* A step that changes no more than where the patient is.
PatientMoves(p, from, to) == 
    /\ PatientGoes(p, from, to)
    /\ UNCHANGED <<queueVars, condition, patient_status, visit_attempts>>

\* while (patient->status != GONE)
PatientChecks(p) == 
    PatientMoves(p, "check", IF patient_status[p] = "GONE" THEN "done" ELSE "enter")

\* queue_add returns 0.
PatientEnters(p) == 
    /\ queue_mutex = NULL
    /\ queue_add(p)
    /\ PatientGoes(p, "enter", "admitted")
    /\ UNCHANGED <<condition, patient_status, visit_attempts>>

\* queue_add returns -1.
PatientRefused(p) == 
    /\ queue_mutex = NULL
    /\ queue_add_refused
    /\ PatientMoves(p, "enter", "refused")

\* patient_waiting_walk; then give up after too many attempts, or try again.
PatientWalks(p) == 
    /\ visit_attempts' = [visit_attempts EXCEPT ![p] = @ + 1]
    /\ \/ /\ visit_attempts'[p] > MAX_VISIT_RETRIES
          /\ PatientGoes(p, "refused", "done")
          /\ SetPatientStatus(p, "GONE")
       \/ /\ visit_attempts'[p] <= MAX_VISIT_RETRIES
          /\ PatientGoes(p, "refused", "check")
          /\ SetPatientStatus(p, "WALKING")
    /\ UNCHANGED <<queueVars, condition>>

\* patient->status = QUEUE, some time after the doctor could pop the patient.
PatientQueues(p) == 
    /\ PatientGoes(p, "admitted", "count")
    /\ SetPatientStatus(p, "QUEUE")
    /\ UNCHANGED <<queueVars, condition, visit_attempts>>

PatientCounts(p) == 
    /\ queue_mutex = NULL
    /\ PatientMoves(p, "count", IF queue_count = CLINIC_QUEUE_SIZE THEN "look" ELSE "wait")

\* The doctor's status, read without doctor->mutex.
PatientLooks(p) == 
    PatientMoves(p, "look", IF doctor_status = "SLEEPING" THEN "wake" ELSE "wait")

PatientWakesDoctor(p) == 
    /\ doctor_mutex = NULL
    /\ PatientGoes(p, "wake", "wait")
    /\ SignalCondition
    /\ UNCHANGED <<queueVars, patient_status, visit_attempts>>

\* while (patient->status == QUEUE)
PatientWaits(p) == 
    PatientMoves(p, "wait", IF patient_status[p] = "QUEUE" THEN "nap" ELSE "waited")

\* sleep(1), then look whether the treatment has begun.
PatientNaps(p) == 
    PatientMoves(p, "nap", IF patient_status[p] = "TREATMENT" THEN "spin" ELSE "wait")

\* while (patient->status == TREATMENT); patient_end_visit and two breaks.
PatientSpins(p) == 
    /\ patient_status[p] # "TREATMENT"
    /\ PatientGoes(p, "spin", "done")
    /\ SetPatientStatus(p, "GONE")
    /\ UNCHANGED <<queueVars, condition, visit_attempts>>

\* if (patient->status == GONE); who reads TREATMENT goes back to the door.
PatientWaited(p) == 
    PatientMoves(p, "waited", IF patient_status[p] = "GONE" THEN "done" ELSE "check")

PatientNext(p) == 
    /\ \/ PatientChecks(p) \/ PatientEnters(p) \/ PatientRefused(p) \/ PatientWalks(p)
       \/ PatientQueues(p) \/ PatientCounts(p) \/ PatientLooks(p) \/ PatientWakesDoctor(p)
       \/ PatientWaits(p) \/ PatientNaps(p) \/ PatientSpins(p) \/ PatientWaited(p)
    /\ UNCHANGED patientFrame

-----------------------------------------------------------------------------
(***************************************************************************)
(* A pharmacist, pharmacist_thread_routine.                                *)
(***************************************************************************)

\* A step that changes no more than where the pharmacist is.
PharmacistMoves(q, from, to) == 
    /\ PharmacistGoes(q, from, to)
    /\ UNCHANGED <<medicine_status, waiting_pharmacists, medicine_mutex, condition>>

\* while (!clinic->all_patients_done), then the way to the hospital.
PharmacistChecks(q) == 
    PharmacistMoves(q, {"check"}, IF all_patients_done THEN "done" ELSE "arrive")

\* The cabinet is full: look again every second.
PharmacistFindsFull(q) == 
    /\ medicine_mutex = NULL
    /\ medicine_count >= MEDICINE_CABINET_CAPACITY
    /\ ~all_patients_done
    /\ PharmacistMoves(q, {"arrive", "poll"}, "poll")

\* A pharmacist that found the cabinet full returns when the patients are done.
PharmacistGivesUp(q) == 
    /\ medicine_mutex = NULL
    /\ all_patients_done
    /\ pharmacist_pc[q] = "poll" \/ medicine_count >= MEDICINE_CABINET_CAPACITY
    /\ PharmacistMoves(q, {"arrive", "poll"}, "done")

FindsRoom(q) == 
    /\ medicine_mutex = NULL
    /\ medicine_count < MEDICINE_CABINET_CAPACITY
    /\ pharmacist_pc[q] = "poll" => ~all_patients_done

\* Enough medicine is left: leave without a delivery.
PharmacistNotNeeded(q) == 
    /\ FindsRoom(q)
    /\ medicine_count >= MIN_MEDICINE_REQUIRED
    /\ PharmacistMoves(q, {"arrive", "poll"}, "check")

\* Ask to be let in, keeping medicine_mutex.
PharmacistNeeded(q) == 
    /\ FindsRoom(q)
    /\ medicine_count < MIN_MEDICINE_REQUIRED
    /\ PharmacistGoes(q, {"arrive", "poll"}, "wakeDoctor")
    /\ waiting_pharmacists' = Counted(waiting_pharmacists, WAITING_CAP)
    /\ medicine_mutex' = q
    /\ UNCHANGED <<medicine_status, condition>>

\* Lock doctor->mutex inside medicine_mutex, signal, unlock both.
PharmacistWakesDoctor(q) == 
    /\ doctor_mutex = NULL
    /\ PharmacistGoes(q, {"wakeDoctor"}, "deliver")
    /\ SignalCondition
    /\ medicine_mutex' = NULL
    /\ UNCHANGED <<medicine_status, waiting_pharmacists>>

\* medicine_status = IN_DELIVERY, whatever happened since the doctor was
\* signalled, and pthread_cond_wait, which frees medicine_mutex.
PharmacistDelivers(q) == 
    /\ medicine_mutex = NULL
    /\ PharmacistGoes(q, {"deliver"}, "await")
    /\ medicine_status' = "IN_DELIVERY"
    /\ condition' = condition \cup {q}
    /\ UNCHANGED <<waiting_pharmacists, medicine_mutex>>

\* pthread_cond_wait returns: wait again while the status is IN_DELIVERY.
PharmacistAwakes(q) == 
    /\ q \notin condition
    /\ medicine_mutex = NULL
    /\ \/ /\ medicine_status = "IN_DELIVERY"
          /\ PharmacistGoes(q, {"await"}, "await")
          /\ condition' = condition \cup {q}
       \/ /\ medicine_status # "IN_DELIVERY"
          /\ PharmacistGoes(q, {"await"}, "handOver")
          /\ UNCHANGED condition
    /\ UNCHANGED <<medicine_status, waiting_pharmacists, medicine_mutex>>

\* Lock and unlock medicine_mutex once more; the delivery itself is a message.
PharmacistHandsOver(q) == 
    /\ medicine_mutex = NULL
    /\ PharmacistMoves(q, {"handOver"}, "check")

\* pthread_cancel takes effect in sleep or pthread_cond_wait.  A waiter first
\* locks medicine_mutex again, which main is destroying: not modelled.
PharmacistCancelled(q) == 
    /\ main_pc = "destroy"
    /\ PharmacistGoes(q, {"arrive", "poll", "await"}, "done")
    /\ condition' = condition \ {q}
    /\ UNCHANGED <<medicine_status, waiting_pharmacists, medicine_mutex>>

PharmacistNext(q) == 
    /\ \/ PharmacistChecks(q) \/ PharmacistFindsFull(q) \/ PharmacistGivesUp(q)
       \/ PharmacistNotNeeded(q) \/ PharmacistNeeded(q) \/ PharmacistWakesDoctor(q)
       \/ PharmacistDelivers(q) \/ PharmacistAwakes(q) \/ PharmacistHandsOver(q)
       \/ PharmacistCancelled(q)
    /\ UNCHANGED pharmacistFrame

-----------------------------------------------------------------------------
(***************************************************************************)
(* The main thread: join the patients, clinic_signal_patients_done twice,  *)
(* join the doctor, cancel the pharmacists, clinic_destroy, return.        *)
(***************************************************************************)

MainJoinsPatients == 
    /\ \A p \in Patient : patient_pc[p] = "done"
    /\ MainGoes("join", "setDone1")
    /\ UNCHANGED <<medicine_status, all_patients_done, condition>>

MainSetsDone == 
    /\ medicine_mutex = NULL
    /\ MainGoes("setDone1", "signal1") \/ MainGoes("setDone2", "signal2")
    /\ all_patients_done' = TRUE
    /\ UNCHANGED <<medicine_status, condition>>

MainSignals == 
    /\ doctor_mutex = NULL
    /\ MainGoes("signal1", "broadcast1") \/ MainGoes("signal2", "broadcast2")
    /\ SignalCondition
    /\ UNCHANGED <<medicine_status, all_patients_done>>

\* medicine_status = RECEIVED and pthread_cond_broadcast
MainBroadcasts == 
    /\ medicine_mutex = NULL
    /\ MainGoes("broadcast1", "setDone2") \/ MainGoes("broadcast2", "joinDoctor")
    /\ medicine_status' = "RECEIVED"
    /\ condition' = {}
    /\ UNCHANGED all_patients_done

\* The pharmacists are cancelled, not joined.
MainJoinsDoctor == 
    /\ doctor_pc = "done"
    /\ MainGoes("joinDoctor", "destroy")
    /\ UNCHANGED <<medicine_status, all_patients_done, condition>>

\* clinic_destroy; pthread_cond_destroy lets the last waiter go first.
MainExits == 
    /\ condition = {}
    /\ MainGoes("destroy", "exit")
    /\ UNCHANGED <<medicine_status, all_patients_done, condition>>

MainNext == 
    /\ \/ MainJoinsPatients \/ MainSetsDone \/ MainSignals \/ MainBroadcasts
       \/ MainJoinsDoctor \/ MainExits
    /\ UNCHANGED mainFrame

-----------------------------------------------------------------------------
\* A wakeup nobody signalled, which POSIX allows.
SpuriousWakeup(t) == 
    /\ SpuriousWakeups
    /\ t \in condition
    /\ condition' = condition \ {t}
    /\ UNCHANGED <<queueVars, clinicVars, mutexes, patientVars, doctorVars,
                   pharmacist_pc, main_pc>>

\* History that no code keeps: who has been counted as treated since he was
\* last admitted, and how many have been admitted since the count of a full
\* queue began the round.
Admitted == {p \in Patient : patient_pc[p] = "enter" /\ patient_pc'[p] = "admitted"}

Remember == 
    /\ counted' = IF dismissed # NULL /\ dismissed' = NULL THEN counted \cup {dismissed}
                  ELSE counted \ Admitted
    /\ late' = IF doctor_pc' # "drain" THEN 0
               ELSE IF Admitted = {} THEN late ELSE late + 1

Next == 
    /\ Running
    /\ \/ DoctorNext
       \/ \E p \in Patient : PatientNext(p)
       \/ \E q \in Pharmacist : PharmacistNext(q)
       \/ MainNext
       \/ \E t \in Threads : SpuriousWakeup(t)
    /\ Remember

Spec == Init /\ [][Next]_vars

\* Each thread runs on while it can; nobody owes a spurious wakeup.
Fairness == 
    /\ WF_vars(Running /\ DoctorNext /\ Remember)
    /\ \A p \in Patient : WF_vars(Running /\ PatientNext(p) /\ Remember)
    /\ \A q \in Pharmacist : WF_vars(Running /\ PharmacistNext(q) /\ Remember)
    /\ WF_vars(Running /\ MainNext /\ Remember)

FairSpec == Spec /\ Fairness

-----------------------------------------------------------------------------
(***************************************************************************)
(* Types.                                                                  *)
(***************************************************************************)
TypeOK == 
    /\ QueueTypeOK
    /\ medicine_count \in Int
    /\ medicine_status \in MedicineStatus
    /\ waiting_pharmacists \in 0 .. WAITING_CAP
    /\ patients_treated \in 0 .. TREATED_CAP
    /\ all_patients_done \in BOOLEAN
    /\ doctor_status \in DoctorStatus
    /\ patient_status \in [Patient -> PatientStatus]
    /\ visit_attempts \in [Patient -> Nat]
    /\ doctor_mutex \in {NULL, Doctor}
    /\ medicine_mutex \in {NULL} \cup Pharmacist
    /\ queue_mutex \in {NULL, Doctor}
    /\ condition \subseteq {Doctor} \cup Pharmacist
    /\ doctor_pc \in {"check", "lock", "asleep", "poll", "pollMedicine", "pollQueue",
                      "drain", "lockQueue", "useMedicine", "treat", "treating",
                      "counting", "accept", "refill", "done"}
    /\ patient_pc \in [Patient -> {"check", "enter", "admitted", "refused", "count",
                                   "look", "wake", "wait", "nap", "spin", "waited",
                                   "done"}]
    /\ pharmacist_pc \in [Pharmacist -> {"check", "arrive", "poll", "wakeDoctor",
                                         "deliver", "await", "handOver", "done"}]
    /\ main_pc \in {"join", "setDone1", "signal1", "broadcast1", "setDone2", "signal2",
                    "broadcast2", "joinDoctor", "destroy", "exit", "aborted"}
    /\ med_count \in Int
    /\ pharm_waiting \in 0 .. WAITING_CAP
    /\ patients_to_treat \in Seq(Patient \cup {NULL})
    /\ smashed \in BOOLEAN
    /\ dismissed \in Patient \cup {NULL}
    /\ counted \subseteq Patient \cup {NULL}
    /\ late \in Nat
=============================================================================
