---------------------------- MODULE HospitalProofs ----------------------------
(***************************************************************************)
(* Proofs about the hospital, for every number of patients and             *)
(* pharmacists, every size of the queue and of the cabinet.                *)
(***************************************************************************)
EXTENDS HospitalProperties, PatientQueueProofs, FiniteSetTheorems, TLAPS

-----------------------------------------------------------------------------
(***************************************************************************)
(* Types.                                                                  *)
(***************************************************************************)

LEMMA AdvanceInSlots == 
    ASSUME NEW i \in Slots
    PROVE  Advance(i) \in Slots
BY QueueAssumption DEF Advance, ModQueueSize, Slots

LEMMA CountedInRange == 
    ASSUME NEW cap \in Nat, NEW n \in 0 .. cap
    PROVE  Counted(n, cap) \in 0 .. cap
BY DEF Counted

LEMMA SignalKeepsType == 
    ASSUME condition \subseteq {Doctor} \cup Pharmacist, SignalCondition
    PROVE  condition' \subseteq {Doctor} \cup Pharmacist
BY DEF SignalCondition

\* The history variables follow the step of whichever thread.
HistoryTyped == counted \subseteq Patient \cup {NULL} /\ late \in Nat

LEMMA HistoryKeepsType == 
    ASSUME TypeOK, Remember
    PROVE  HistoryTyped'
<1>1. counted' \subseteq Patient \cup {NULL}
  BY DEF TypeOK, Remember
<1>2. late' \in Nat
  BY DEF TypeOK, Remember
<1>3. QED
  BY <1>1, <1>2 DEF HistoryTyped

LEMMA DoctorKeepsTypes == 
    ASSUME HistoryTyped', TypeOK, TreatingSomebody, DoctorNext
    PROVE  TypeOK' /\ TreatingSomebody'
<1> USE HospitalAssumption, QueueAssumption DEF HistoryTyped, TypeOK, TreatingSomebody, QueueTypeOK, DoctorGoes, doctorFrame,
        roundVars, roundVarsButDoctorMutex, roundVarsButQueueMutex, roundVarsButMutexes,
        mutexes, queueVars, readings, DoctorStatus, MedicineStatus, PatientStatus
<1>0. UNCHANGED doctorFrame
  BY DEF DoctorNext
<1>1. CASE DoctorCheck
  BY <1>0, <1>1 DEF DoctorCheck
<1>2. CASE DoctorSleep
  BY <1>0, <1>2 DEF DoctorSleep
<1>3. CASE DoctorAwakes
  BY <1>0, <1>3 DEF DoctorAwakes
<1>4. CASE DoctorPolls
  BY <1>0, <1>4 DEF DoctorPolls
<1>5. CASE DoctorPollsMedicine
  BY <1>0, <1>5 DEF DoctorPollsMedicine
<1>6. CASE DoctorPollsQueue
  BY <1>0, <1>6 DEF DoctorPollsQueue
<1>7. CASE DoctorDrains
  <2>1. queue_array[head] \in Patient \cup {NULL}
    OBVIOUS
  <2>2. patients_to_treat' \in Seq(Patient \cup {NULL})
    BY <1>7, <2>1 DEF DoctorDrains
  <2>3. QueueTypeOK'
    BY <1>7, AdvanceInSlots DEF DoctorDrains, queue_pop
  <2>4. QED
    BY <1>0, <1>7, <2>2, <2>3 DEF DoctorDrains
<1>8. CASE DoctorDrained
  BY <1>0, <1>8 DEF DoctorDrained
<1>9. CASE DoctorLocksQueue
  BY <1>0, <1>9 DEF DoctorLocksQueue
<1>10. CASE DoctorUsesMedicine
  BY <1>0, <1>10 DEF DoctorUsesMedicine
<1>11. CASE DoctorStartsTreatment
  <2>1. patient_status' \in [Patient -> PatientStatus]
    BY <1>11 DEF DoctorStartsTreatment, SetPatientStatus
  <2>2. QED
    BY <1>0, <1>11, <2>1 DEF DoctorStartsTreatment
<1>12. CASE DoctorEndsTreatment
  <2>1. patients_to_treat' \in Seq(Patient \cup {NULL})
    BY <1>12 DEF DoctorEndsTreatment
  <2>2. dismissed' \in Patient \cup {NULL}
    BY <1>12 DEF DoctorEndsTreatment
  <2>3. patient_status' \in [Patient -> PatientStatus]
    BY <1>12 DEF DoctorEndsTreatment, SetPatientStatus
  <2>4. QED
    BY <1>0, <1>12, <2>1, <2>2, <2>3 DEF DoctorEndsTreatment
<1>13. CASE DoctorEndsRound
  BY <1>0, <1>13 DEF DoctorEndsRound
<1>14. CASE DoctorAcceptsPharmacy
  BY <1>0, <1>14 DEF DoctorAcceptsPharmacy
<1>15. CASE DoctorRefills
  BY <1>0, <1>15, SignalKeepsType DEF DoctorRefills
<1>16. CASE DoctorCounts
  <2>1. patients_treated' \in 0 .. TREATED_CAP
    BY <1>16, CountedInRange DEF DoctorCounts
  <2>2. QED
    BY <1>0, <1>16, <2>1 DEF DoctorCounts
<1>17. QED
  BY <1>1, <1>2, <1>3, <1>4, <1>5, <1>6, <1>7, <1>8, <1>9, <1>10, <1>11, <1>12, <1>13,
     <1>14, <1>15, <1>16 DEF DoctorNext

LEMMA PatientsKeepTypes == 
    ASSUME HistoryTyped', TypeOK, TreatingSomebody, NEW p \in Patient, PatientNext(p)
    PROVE  TypeOK' /\ TreatingSomebody'
<1> USE DEF HistoryTyped, TypeOK, TreatingSomebody, patientFrame, clinicVars, mutexes, doctorVars, readings
<1>0. UNCHANGED patientFrame
  BY DEF PatientNext
<1>1. ASSUME QueueTypeOK', condition' \subseteq {Doctor} \cup Pharmacist,
             patient_status' \in [Patient -> PatientStatus],
             visit_attempts' \in [Patient -> Nat],
             NEW from, NEW to \in {"check", "enter", "admitted", "refused", "count",
                                   "look", "wake", "wait", "nap", "spin", "waited", "done"},
             PatientGoes(p, from, to)
      PROVE  TypeOK' /\ TreatingSomebody'
  BY <1>0, <1>1 DEF PatientGoes
<1>2. ASSUME NEW from, NEW to \in {"check", "enter", "admitted", "refused", "count",
                                   "look", "wake", "wait", "nap", "spin", "waited", "done"},
             PatientMoves(p, from, to)
      PROVE  TypeOK' /\ TreatingSomebody'
  <2>1. QueueTypeOK' /\ UNCHANGED <<condition, patient_status, visit_attempts>>
    BY <1>2 DEF PatientMoves, queueVars, QueueTypeOK
  <2>2. QED
    BY <1>1, <1>2, <2>1 DEF PatientMoves
<1>3. \A s \in PatientStatus : 
        SetPatientStatus(p, s) => patient_status' \in [Patient -> PatientStatus]
  BY DEF SetPatientStatus
<1>4. UNCHANGED queueVars => QueueTypeOK'
  BY DEF queueVars, QueueTypeOK
<1>5. CASE PatientChecks(p)
  BY <1>2, <1>5 DEF PatientChecks
<1>6. CASE PatientEnters(p)
  <2>1. QueueTypeOK'
    BY <1>6, AdvanceInSlots DEF PatientEnters, queue_add, QueueTypeOK
  <2>2. QED
    BY <1>1, <1>6, <2>1 DEF PatientEnters
<1>7. CASE PatientRefused(p)
  BY <1>2, <1>7 DEF PatientRefused
<1>8. CASE PatientWalks(p)
  <2>1. visit_attempts' \in [Patient -> Nat]
    BY <1>8 DEF PatientWalks
  <2>2. QED
    BY <1>1, <1>3, <1>4, <1>8, <2>1 DEF PatientWalks, PatientStatus
<1>9. CASE PatientQueues(p)
  BY <1>1, <1>3, <1>4, <1>9 DEF PatientQueues, PatientStatus
<1>10. CASE PatientCounts(p)
  BY <1>2, <1>10 DEF PatientCounts
<1>11. CASE PatientLooks(p)
  BY <1>2, <1>11 DEF PatientLooks
<1>12. CASE PatientWakesDoctor(p)
  BY <1>1, <1>4, <1>12, SignalKeepsType DEF PatientWakesDoctor
<1>13. CASE PatientWaits(p)
  BY <1>2, <1>13 DEF PatientWaits
<1>14. CASE PatientNaps(p)
  BY <1>2, <1>14 DEF PatientNaps
<1>15. CASE PatientSpins(p)
  BY <1>1, <1>3, <1>4, <1>15 DEF PatientSpins, PatientStatus
<1>16. CASE PatientWaited(p)
  BY <1>2, <1>16 DEF PatientWaited
<1>17. QED
  BY <1>5, <1>6, <1>7, <1>8, <1>9, <1>10, <1>11, <1>12, <1>13, <1>14, <1>15, <1>16
     DEF PatientNext

LEMMA PharmacistsKeepTypes == 
    ASSUME HistoryTyped', TypeOK, TreatingSomebody, NEW q \in Pharmacist, PharmacistNext(q)
    PROVE  TypeOK' /\ TreatingSomebody'
<1> USE DEF HistoryTyped, TypeOK, TreatingSomebody, QueueTypeOK, queueVars, patientVars, doctorVars,
            readings, pharmacistFrame, PharmacistGoes, PharmacistMoves
<1>0. UNCHANGED pharmacistFrame
  BY DEF PharmacistNext
<1>1. CASE PharmacistChecks(q)
  BY <1>0, <1>1 DEF PharmacistChecks
<1>2. CASE PharmacistFindsFull(q)
  BY <1>0, <1>2 DEF PharmacistFindsFull
<1>3. CASE PharmacistGivesUp(q)
  BY <1>0, <1>3 DEF PharmacistGivesUp
<1>4. CASE PharmacistNotNeeded(q)
  BY <1>0, <1>4 DEF PharmacistNotNeeded
<1>5. CASE PharmacistNeeded(q)
  <2>1. waiting_pharmacists' \in 0 .. WAITING_CAP
    BY <1>5, CountedInRange, HospitalAssumption DEF PharmacistNeeded
  <2>2. QED
    BY <1>0, <1>5, <2>1 DEF PharmacistNeeded
<1>6. CASE PharmacistWakesDoctor(q)
  BY <1>0, <1>6, SignalKeepsType DEF PharmacistWakesDoctor
<1>7. CASE PharmacistDelivers(q)
  BY <1>0, <1>7 DEF PharmacistDelivers, MedicineStatus
<1>8. CASE PharmacistAwakes(q)
  <2>1. /\ pharmacist_pc' \in [Pharmacist -> {"check", "arrive", "poll", "wakeDoctor",
                                              "deliver", "await", "handOver", "done"}]
        /\ condition' \subseteq {Doctor} \cup Pharmacist
    BY <1>8 DEF PharmacistAwakes
  <2>2. QED
    BY <1>0, <1>8, <2>1 DEF PharmacistAwakes
<1>9. CASE PharmacistHandsOver(q)
  BY <1>0, <1>9 DEF PharmacistHandsOver
<1>10. CASE PharmacistCancelled(q)
  BY <1>0, <1>10 DEF PharmacistCancelled
<1>11. QED
  BY <1>1, <1>2, <1>3, <1>4, <1>5, <1>6, <1>7, <1>8, <1>9, <1>10 DEF PharmacistNext

LEMMA MainKeepsTypes == 
    ASSUME HistoryTyped', TypeOK, TreatingSomebody, MainNext
    PROVE  TypeOK' /\ TreatingSomebody'
<1> USE DEF HistoryTyped, TypeOK, TreatingSomebody, QueueTypeOK, queueVars, mutexes, patientVars,
            doctorVars, readings, mainFrame, MainGoes
<1>0. UNCHANGED mainFrame
  BY DEF MainNext
<1>1. CASE MainJoinsPatients
  BY <1>0, <1>1 DEF MainJoinsPatients
<1>2. CASE MainSetsDone
  BY <1>0, <1>2 DEF MainSetsDone
<1>3. CASE MainSignals
  BY <1>0, <1>3, SignalKeepsType DEF MainSignals
<1>4. CASE MainBroadcasts
  BY <1>0, <1>4 DEF MainBroadcasts, MedicineStatus
<1>5. CASE MainJoinsDoctor
  BY <1>0, <1>5 DEF MainJoinsDoctor
<1>6. CASE MainExits
  BY <1>0, <1>6 DEF MainExits
<1>7. QED
  BY <1>1, <1>2, <1>3, <1>4, <1>5, <1>6 DEF MainNext

LEMMA TypesInit == Init => TypeOK /\ TreatingSomebody
<1> SUFFICES ASSUME Init
             PROVE  TypeOK /\ TreatingSomebody
  OBVIOUS
<1>1. QueueTypeOK
  BY QueueAssumption DEF Init, queue_init, QueueTypeOK, Slots
<1>2. /\ MEDICINE_CABINET_CAPACITY \in Int
      /\ 0 \in 0 .. TREATED_CAP /\ 0 \in 0 .. WAITING_CAP
  BY HospitalAssumption
<1>3. /\ patient_status \in [Patient -> PatientStatus] /\ visit_attempts \in [Patient -> Nat]
      /\ patients_to_treat \in Seq(Patient \cup {NULL})
  BY DEF Init, PatientStatus
<1>4. TreatingSomebody
  BY DEF Init, TreatingSomebody
<1>5. /\ patient_pc = [p \in Patient |-> "check"]
      /\ pharmacist_pc = [q \in Pharmacist |-> "check"]
      /\ doctor_pc = "check" /\ main_pc = "join"
      /\ condition = {} /\ doctor_mutex = NULL /\ medicine_mutex = NULL /\ queue_mutex = NULL
      /\ doctor_status = "SLEEPING" /\ medicine_status \in MedicineStatus
      /\ medicine_count \in Int /\ med_count \in Int
      /\ waiting_pharmacists \in 0 .. WAITING_CAP /\ pharm_waiting \in 0 .. WAITING_CAP
      /\ patients_treated \in 0 .. TREATED_CAP
      /\ all_patients_done = FALSE /\ smashed = FALSE
      /\ dismissed = NULL /\ counted = {} /\ late = 0
  BY <1>2 DEF Init
<1>6. QED
  BY <1>1, <1>3, <1>4, <1>5 DEF TypeOK, DoctorStatus

LEMMA TypesStep == 
    ASSUME TypeOK, TreatingSomebody, [Next]_vars
    PROVE  TypeOK' /\ TreatingSomebody'
<1>0. Next => HistoryTyped'
  BY HistoryKeepsType DEF Next
<1>1. CASE UNCHANGED vars
  BY <1>1 DEF vars, TypeOK, TreatingSomebody, QueueTypeOK, queueVars, clinicVars, mutexes,
              patientVars, doctorVars, readings
<1>2. ASSUME HistoryTyped', NEW t \in Threads, SpuriousWakeup(t)
      PROVE  TypeOK' /\ TreatingSomebody'
  BY <1>2 DEF HistoryTyped, SpuriousWakeup, TypeOK, TreatingSomebody, QueueTypeOK, queueVars, clinicVars,
              mutexes, patientVars, doctorVars, readings
<1>3. QED
  BY <1>0, <1>1, <1>2, DoctorKeepsTypes, PatientsKeepTypes, PharmacistsKeepTypes, MainKeepsTypes
     DEF Next

\* Every variable of the hospital keeps its type, the indices of the queue stay
\* in its array, and only the doctor and the pharmacists ever hold a mutex over
\* several steps or wait on the condition variable.
THEOREM HospitalTypes == Spec => []TypeOK
<1>1. TypeOK /\ TreatingSomebody /\ [Next]_vars => (TypeOK /\ TreatingSomebody)'
  BY TypesStep
<1>2. QED
  BY <1>1, TypesInit, PTL DEF Spec

-----------------------------------------------------------------------------
(***************************************************************************)
(* The inductive invariant, conjunct by conjunct.                          *)
(***************************************************************************)

\* What a step of each kind of thread leaves alone, as plain equations.
LEMMA DoctorLeaves == 
    ASSUME DoctorNext
    PROVE  /\ waiting_pharmacists' = waiting_pharmacists
           /\ all_patients_done' = all_patients_done
           /\ pharmacist_pc' = pharmacist_pc
           /\ medicine_mutex' = medicine_mutex
<1>1. UNCHANGED doctorFrame
  BY DEF DoctorNext
<1>2. medicine_mutex' = medicine_mutex
  BY DEF DoctorNext, DoctorCheck, DoctorSleep, DoctorAwakes, DoctorPolls, DoctorPollsMedicine,
         DoctorPollsQueue, DoctorDrains, DoctorDrained, DoctorLocksQueue, DoctorUsesMedicine,
         DoctorStartsTreatment, DoctorEndsTreatment, DoctorCounts, DoctorEndsRound, DoctorAcceptsPharmacy,
         DoctorRefills, roundVars, roundVarsButDoctorMutex, roundVarsButQueueMutex, mutexes
<1>3. QED
  BY <1>1, <1>2 DEF doctorFrame

\* The variables nobody but the doctor's thread changes.
OthersLeave == 
    /\ doctor_pc' = doctor_pc
    /\ doctor_mutex' = doctor_mutex /\ queue_mutex' = queue_mutex
    /\ medicine_count' = medicine_count
    /\ med_count' = med_count /\ pharm_waiting' = pharm_waiting
    /\ patients_to_treat' = patients_to_treat

LEMMA PatientLeavesAlone == 
    ASSUME NEW p \in Patient, PatientNext(p)
    PROVE  /\ OthersLeave
           /\ UNCHANGED <<pharmacist_pc, medicine_mutex, waiting_pharmacists, all_patients_done>>
BY DEF PatientNext, patientFrame, clinicVars, mutexes, doctorVars, readings, OthersLeave

LEMMA PharmacistLeavesAlone == 
    ASSUME NEW q \in Pharmacist, PharmacistNext(q)
    PROVE  OthersLeave /\ UNCHANGED <<all_patients_done, patient_status>>
BY DEF PharmacistNext, pharmacistFrame, doctorVars, patientVars, readings, OthersLeave

LEMMA MainLeavesAlone == 
    ASSUME MainNext
    PROVE  /\ OthersLeave
           /\ UNCHANGED <<pharmacist_pc, medicine_mutex, waiting_pharmacists, patient_status>>
BY DEF MainNext, mainFrame, mutexes, doctorVars, patientVars, readings, OthersLeave

LEMMA IdleLeavesAlone == 
    ASSUME UNCHANGED vars \/ \E t \in Threads : SpuriousWakeup(t)
    PROVE  /\ OthersLeave
           /\ UNCHANGED <<pharmacist_pc, medicine_mutex, waiting_pharmacists, patient_status,
                          all_patients_done>>
BY DEF SpuriousWakeup, vars, clinicVars, mutexes, doctorVars, patientVars, readings, OthersLeave

LEMMA DoctorKeepsLockOwners == 
    ASSUME TypeOK, LockOwners, DoctorNext
    PROVE  LockOwners'
<1> USE HospitalAssumption DEF LockOwners, DoctorPolling, Threads, DoctorGoes, TypeOK,
        roundVars, roundVarsButDoctorMutex, roundVarsButQueueMutex, mutexes
<1>0. \A q \in Pharmacist : (medicine_mutex = q <=> pharmacist_pc[q] = "wakeDoctor")'
  BY DoctorLeaves
<1>1. CASE DoctorCheck
  BY <1>0, <1>1 DEF DoctorCheck
<1>2. CASE DoctorSleep
  BY <1>0, <1>2 DEF DoctorSleep
<1>3. CASE DoctorAwakes
  BY <1>0, <1>3 DEF DoctorAwakes
<1>4. CASE DoctorPolls
  BY <1>0, <1>4 DEF DoctorPolls
<1>5. CASE DoctorPollsMedicine
  BY <1>0, <1>5 DEF DoctorPollsMedicine
<1>6. CASE DoctorPollsQueue
  BY <1>0, <1>6 DEF DoctorPollsQueue
<1>7. CASE DoctorDrains
  BY <1>0, <1>7 DEF DoctorDrains
<1>8. CASE DoctorDrained
  BY <1>0, <1>8 DEF DoctorDrained
<1>9. CASE DoctorLocksQueue
  BY <1>0, <1>9 DEF DoctorLocksQueue
<1>10. CASE DoctorUsesMedicine
  BY <1>0, <1>10 DEF DoctorUsesMedicine
<1>11. CASE DoctorStartsTreatment
  BY <1>0, <1>11 DEF DoctorStartsTreatment
<1>12. CASE DoctorEndsTreatment
  BY <1>0, <1>12 DEF DoctorEndsTreatment
<1>13. CASE DoctorEndsRound
  BY <1>0, <1>13 DEF DoctorEndsRound
<1>14. CASE DoctorAcceptsPharmacy
  BY <1>0, <1>14 DEF DoctorAcceptsPharmacy
<1>15. CASE DoctorRefills
  BY <1>0, <1>15 DEF DoctorRefills
<1>16. CASE DoctorCounts
  BY <1>0, <1>16 DEF DoctorCounts
<1>17. QED
  BY <1>1, <1>2, <1>3, <1>4, <1>5, <1>6, <1>7, <1>8, <1>9, <1>10, <1>11, <1>12, <1>13,
     <1>14, <1>15, <1>16 DEF DoctorNext

LEMMA PharmacistKeepsLockOwners == 
    ASSUME TypeOK, LockOwners, NEW q \in Pharmacist, PharmacistNext(q)
    PROVE  LockOwners'
<1> USE HospitalAssumption DEF LockOwners, DoctorPolling, Threads, TypeOK, OthersLeave
<1>0. OthersLeave
  BY PharmacistLeavesAlone
<1>1. CASE PharmacistNeeded(q)
  BY <1>0, <1>1 DEF PharmacistNeeded, FindsRoom, PharmacistGoes
<1>2. CASE PharmacistWakesDoctor(q)
  BY <1>0, <1>2 DEF PharmacistWakesDoctor, PharmacistGoes
<1>3. CASE /\ medicine_mutex' = medicine_mutex
           /\ \E from, to : /\ "wakeDoctor" \notin from /\ to # "wakeDoctor"
                            /\ PharmacistGoes(q, from, to)
  BY <1>0, <1>3 DEF PharmacistGoes
<1>4. QED
  BY <1>1, <1>2, <1>3 
     DEF PharmacistNext, PharmacistMoves, PharmacistChecks, PharmacistFindsFull,
         PharmacistGivesUp, PharmacistNotNeeded, PharmacistDelivers, PharmacistAwakes,
         PharmacistHandsOver, PharmacistCancelled

LEMMA LockOwnersStep == 
    ASSUME TypeOK, LockOwners, [Next]_vars
    PROVE  LockOwners'
<1>1. ASSUME OthersLeave, UNCHANGED <<pharmacist_pc, medicine_mutex>>
      PROVE  LockOwners'
  BY <1>1 DEF OthersLeave, LockOwners, DoctorPolling
<1>2. ASSUME NEW p \in Patient, PatientNext(p)
      PROVE  LockOwners'
  BY <1>1, <1>2, PatientLeavesAlone
<1>3. CASE MainNext
  BY <1>1, <1>3, MainLeavesAlone
<1>4. CASE UNCHANGED vars \/ \E t \in Threads : SpuriousWakeup(t)
  BY <1>1, <1>4, IdleLeavesAlone
<1>5. QED
  BY <1>2, <1>3, <1>4, DoctorKeepsLockOwners, PharmacistKeepsLockOwners DEF Next

LEMMA DoctorKnowsMedicine == 
    ASSUME TypeOK, ReadingsHold, CabinetOK, DoctorNext
    PROVE  ReadingsHold' /\ CabinetOK'
<1> USE HospitalAssumption DEF ReadingsHold, CabinetOK, DoctorGoes, TypeOK,
        roundVars, roundVarsButDoctorMutex, roundVarsButQueueMutex, roundVarsButMutexes
<1>0. waiting_pharmacists' = waiting_pharmacists
  BY DoctorLeaves
<1>1. CASE DoctorPollsMedicine
  BY <1>0, <1>1 DEF DoctorPollsMedicine
<1>2. CASE DoctorPollsQueue
  BY <1>0, <1>2 DEF DoctorPollsQueue, WakingMode
<1>3. CASE DoctorDrains
  BY <1>0, <1>3 DEF DoctorDrains
<1>4. CASE DoctorDrained
  BY <1>0, <1>4 DEF DoctorDrained
<1>5. CASE DoctorLocksQueue
  BY <1>0, <1>5 DEF DoctorLocksQueue
<1>6. CASE DoctorUsesMedicine
  BY <1>0, <1>6 DEF DoctorUsesMedicine
<1>7. CASE DoctorRefills
  BY <1>0, <1>7 DEF DoctorRefills
<1>8. CASE /\ medicine_count' = medicine_count
           /\ doctor_pc' \in {"check", "lock", "asleep", "poll", "pollMedicine", "treat",
                             "treating", "counting", "accept", "refill", "done"}
  BY <1>0, <1>8
<1>9. QED
  BY <1>1, <1>2, <1>3, <1>4, <1>5, <1>6, <1>7, <1>8
     DEF DoctorNext, DoctorCheck, DoctorSleep, DoctorAwakes, DoctorPolls,
         DoctorStartsTreatment, DoctorEndsTreatment, DoctorCounts, DoctorEndsRound, DoctorAcceptsPharmacy

LEMMA KnowledgeStep == 
    ASSUME TypeOK, ReadingsHold, CabinetOK, [Next]_vars
    PROVE  ReadingsHold' /\ CabinetOK'
<1>1. ASSUME OthersLeave, waiting_pharmacists > 0 => waiting_pharmacists' > 0
      PROVE  ReadingsHold' /\ CabinetOK'
  BY <1>1 DEF OthersLeave, ReadingsHold, CabinetOK
<1>2. ASSUME NEW p \in Patient, PatientNext(p)
      PROVE  ReadingsHold' /\ CabinetOK'
  BY <1>1, <1>2, PatientLeavesAlone
<1>3. ASSUME NEW q \in Pharmacist, PharmacistNext(q)
      PROVE  ReadingsHold' /\ CabinetOK'
  <2>1. CASE waiting_pharmacists' = waiting_pharmacists
    BY <1>1, <1>3, <2>1, PharmacistLeavesAlone
  <2>2. CASE PharmacistNeeded(q)
    <3>1. waiting_pharmacists' > 0
      BY <2>2, HospitalAssumption DEF PharmacistNeeded, Counted, TypeOK
    <3>2. QED
      BY <1>1, <1>3, <3>1, PharmacistLeavesAlone
  <2>3. QED
    BY <1>3, <2>1, <2>2
       DEF PharmacistNext, PharmacistMoves, PharmacistChecks, PharmacistFindsFull,
           PharmacistGivesUp, PharmacistNotNeeded, PharmacistWakesDoctor,
           PharmacistDelivers, PharmacistAwakes, PharmacistHandsOver, PharmacistCancelled
<1>4. CASE MainNext
  BY <1>1, <1>4, MainLeavesAlone
<1>5. CASE UNCHANGED vars \/ \E t \in Threads : SpuriousWakeup(t)
  BY <1>1, <1>5, IdleLeavesAlone
<1>6. QED
  BY <1>2, <1>3, <1>4, <1>5, DoctorKnowsMedicine DEF Next

\* Only the doctor starts a treatment, and no other treatment is going on then.
LEMMA TreatmentStep == 
    ASSUME TypeOK, TreatingSomebody, TreatmentIsByDoctor, [Next]_vars
    PROVE  TreatmentIsByDoctor'
<1>1. ASSUME OthersLeave,
             \A p \in Patient : patient_status'[p] = "TREATMENT" => patient_status[p] = "TREATMENT"
      PROVE  TreatmentIsByDoctor'
  BY <1>1 DEF OthersLeave, TreatmentIsByDoctor
<1>2. CASE DoctorNext
  <2> USE <1>2 DEF TreatmentIsByDoctor, DoctorGoes, TypeOK, SetPatientStatus,
          roundVars, roundVarsButDoctorMutex, roundVarsButQueueMutex, roundVarsButMutexes
  <2>1. CASE DoctorStartsTreatment
    BY <2>1 DEF DoctorStartsTreatment
  <2>2. CASE DoctorEndsTreatment
    BY <2>2 DEF DoctorEndsTreatment
  <2>3. CASE patient_status' = patient_status /\ doctor_pc # "treating"
    BY <2>3
  <2>4. QED
    BY <2>1, <2>2, <2>3
       DEF DoctorNext, DoctorCheck, DoctorSleep, DoctorAwakes, DoctorPolls,
           DoctorPollsMedicine, DoctorPollsQueue, DoctorDrains, DoctorDrained,
           DoctorLocksQueue, DoctorUsesMedicine, DoctorCounts, DoctorEndsRound,
           DoctorAcceptsPharmacy, DoctorRefills
<1>3. ASSUME NEW p \in Patient, PatientNext(p)
      PROVE  TreatmentIsByDoctor'
  <2>1. ASSUME NEW s \in PatientStatus \ {"TREATMENT"}, SetPatientStatus(p, s)
        PROVE  TreatmentIsByDoctor'
    BY <1>1, <1>3, <2>1, PatientLeavesAlone DEF SetPatientStatus, TypeOK
  <2>2. CASE patient_status' = patient_status
    BY <1>1, <1>3, <2>2, PatientLeavesAlone
  <2>3. QED
    BY <1>3, <2>1, <2>2
       DEF PatientNext, PatientMoves, PatientChecks, PatientEnters, PatientRefused,
           PatientWalks, PatientQueues, PatientCounts, PatientLooks, PatientWakesDoctor,
           PatientWaits, PatientNaps, PatientSpins, PatientWaited, PatientStatus
<1>4. ASSUME NEW q \in Pharmacist, PharmacistNext(q)
      PROVE  TreatmentIsByDoctor'
  BY <1>1, <1>4, PharmacistLeavesAlone
<1>5. CASE MainNext
  BY <1>1, <1>5, MainLeavesAlone
<1>6. CASE UNCHANGED vars \/ \E t \in Threads : SpuriousWakeup(t)
  BY <1>1, <1>6, IdleLeavesAlone
<1>7. QED
  BY <1>2, <1>3, <1>4, <1>5, <1>6 DEF Next

LEMMA HospitalInvInit == Init => HospitalInv
<1> SUFFICES ASSUME Init PROVE HospitalInv
  OBVIOUS
<1>1. TypeOK /\ TreatingSomebody
  BY TypesInit
<1>2. LockOwners
  BY HospitalAssumption DEF Init, LockOwners, DoctorPolling, Threads
<1>3. ReadingsHold /\ CabinetOK /\ TreatmentIsByDoctor
  BY HospitalAssumption DEF Init, ReadingsHold, CabinetOK, TreatmentIsByDoctor
<1>4. QED
  BY <1>1, <1>2, <1>3 DEF HospitalInv

LEMMA HospitalInvStep == HospitalInv /\ [Next]_vars => HospitalInv'
BY TypesStep, LockOwnersStep, KnowledgeStep, TreatmentStep DEF HospitalInv

LEMMA HospitalInvariant == Spec => []HospitalInv
BY HospitalInvInit, HospitalInvStep, PTL DEF Spec

-----------------------------------------------------------------------------
(***************************************************************************)
(* What follows from the invariant.                                        *)
(***************************************************************************)

\* The cabinet never holds less than nothing: the medicine that the doctor
\* checked while he polled (doctor.c:122) is there when he uses it
\* (doctor.c:151), with both mutexes free in between.
THEOREM CheckedMedicineIsThere == Spec => []MedicineInCabinet
BY HospitalInvariant, PTL DEF HospitalInv, MedicineInCabinet

\* A patient whose status is TREATMENT is the one the doctor is treating, so
\* that a patient in the busy loop of patient.c:130 waits for the doctor's very
\* next step, whatever the patients' threads do.
THEOREM OneTreatmentAtATime == Spec => []TreatmentIsByDoctor
BY HospitalInvariant, PTL DEF HospitalInv

\* The chain of owners leads from every waiting thread to the doctor, and from
\* the doctor to a pharmacist who waits for him.
LEMMA CircleIsInversion == 
    ASSUME HospitalInv, NEW T \in SUBSET Threads, T # {},
           \A t \in T : OwnerWaitedFor(t) \in T
    PROVE  LockInversion
<1> USE HospitalAssumption DEF HospitalInv
<1>1. /\ doctor_mutex \in {NULL, Doctor}
      /\ medicine_mutex \in {NULL} \cup Pharmacist
      /\ queue_mutex \in {NULL, Doctor}
  BY DEF TypeOK
<1>2. NULL \notin T
  BY DEF Threads
<1>3. ASSUME NEW q \in Pharmacist, q \in T
      PROVE  OwnerWaitedFor(q) \in {doctor_mutex, medicine_mutex, NULL}
  BY <1>3 DEF OwnerWaitedFor, Threads
<1>4. ASSUME NEW q \in Pharmacist, q \in T, medicine_mutex = q
      PROVE  doctor_mutex = Doctor /\ Doctor \in T
  <2>1. pharmacist_pc[q] = "wakeDoctor"
    BY <1>4 DEF LockOwners
  <2>2. OwnerWaitedFor(q) = doctor_mutex
    BY <1>4, <2>1 DEF OwnerWaitedFor, Threads
  <2>3. QED
    BY <1>1, <1>2, <1>4, <2>2
<1>5. Doctor \in T
  <2>1. PICK t \in T : TRUE
    OBVIOUS
  <2>2. OwnerWaitedFor(t) \in {Doctor} \cup Pharmacist
    BY <1>1, <1>2 DEF OwnerWaitedFor
  <2>3. CASE OwnerWaitedFor(t) \in Pharmacist
    BY <1>1, <1>2, <1>3, <1>4, <2>3
  <2>4. QED
    BY <2>2, <2>3
<1>6. /\ doctor_pc \in {"pollMedicine", "useMedicine", "refill"}
      /\ medicine_mutex \in T
  BY <1>1, <1>2, <1>5 DEF OwnerWaitedFor, LockOwners, DoctorPolling
<1>7. PICK q \in Pharmacist : medicine_mutex = q /\ q \in T
  BY <1>1, <1>2, <1>6
<1>8. doctor_mutex = Doctor
  BY <1>4, <1>7
<1>9. doctor_pc = "pollMedicine"
  BY <1>6, <1>8 DEF LockOwners, DoctorPolling
<1>10. QED
  BY <1>7, <1>9 DEF LockInversion, LockOwners

\* The only circular wait among all threads and the three mutexes is that of
\* the doctor polling at doctor.c:115 and a pharmacist at pharmacist.c:87.
THEOREM InversionIsTheOnlyDeadlock == Spec => []OnlyOneDeadlock
<1>1. ASSUME HospitalInv
      PROVE  OnlyOneDeadlock
  <2>1. SUFFICES ASSUME NEW T \in (SUBSET Threads) \ {{}},
                        \A t \in T : OwnerWaitedFor(t) \in T
                 PROVE  LockInversion
    BY DEF OnlyOneDeadlock
  <2>2. QED
    BY <1>1, <2>1, CircleIsInversion
<1>2. QED
  BY <1>1, HospitalInvariant, PTL

LEMMA DoctorKeepsStarving == 
    ASSUME HospitalInv, Starving, ~all_patients_done, DoctorNext
    PROVE  Starving'
<1>1. /\ waiting_pharmacists' = waiting_pharmacists
      /\ pharmacist_pc' = pharmacist_pc
  BY DoctorLeaves
<1> USE <1>1 DEF Starving, DoctorPolling, DoctorGoes, roundVars, roundVarsButDoctorMutex,
        roundVarsButQueueMutex, roundVarsButMutexes
<1>2. CASE DoctorPolls
  BY <1>2 DEF DoctorPolls
<1>3. CASE DoctorPollsMedicine
  <2>1. waiting_pharmacists = 0
    BY <1>3, HospitalAssumption 
       DEF DoctorPollsMedicine, HospitalInv, LockOwners, Threads
  <2>2. QED
    BY <1>3, <2>1 DEF DoctorPollsMedicine
<1>4. CASE DoctorPollsQueue
  <2>1. med_count < MIN_MEDICINE_REQUIRED /\ ~(pharm_waiting > 0)
    BY <1>4, HospitalAssumption DEF DoctorPollsQueue, HospitalInv, ReadingsHold, TypeOK
  <2>2. WakingMode = 0
    BY <2>1, HospitalAssumption DEF WakingMode, HospitalInv, TypeOK
  <2>3. QED
    BY <1>4, <2>2 DEF DoctorPollsQueue
<1>5. QED
  BY <1>2, <1>3, <1>4
     DEF DoctorNext, DoctorCheck, DoctorSleep, DoctorAwakes, DoctorDrains, DoctorDrained,
         DoctorLocksQueue, DoctorUsesMedicine, DoctorStartsTreatment, DoctorEndsTreatment,
         DoctorCounts, DoctorEndsRound, DoctorAcceptsPharmacy, DoctorRefills

LEMMA PharmacistKeepsStarving == 
    ASSUME HospitalInv, Starving, NEW q \in Pharmacist, PharmacistNext(q)
    PROVE  Starving'
<1>1. OthersLeave
  BY PharmacistLeavesAlone
<1> USE <1>1 DEF Starving, DoctorPolling, OthersLeave
<1>2. CASE PharmacistNeeded(q)
  <2>1. pharmacist_pc'[q] = "wakeDoctor"
    BY <1>2 DEF PharmacistNeeded, PharmacistGoes, HospitalInv, TypeOK
  <2>2. doctor_pc' = "pollQueue" => pharm_waiting' = 0
    BY HospitalAssumption DEF HospitalInv, ReadingsHold, TypeOK
  <2>3. QED
    BY <2>1, <2>2
<1>3. ~PharmacistWakesDoctor(q)
  BY HospitalAssumption DEF PharmacistWakesDoctor, HospitalInv, LockOwners, Threads
<1>4. CASE /\ waiting_pharmacists' = waiting_pharmacists
           /\ \E from, to : "wakeDoctor" \notin from /\ PharmacistGoes(q, from, to)
  BY <1>4 DEF PharmacistGoes
<1>5. QED
  BY <1>2, <1>3, <1>4 
     DEF PharmacistNext, PharmacistMoves, PharmacistChecks, PharmacistFindsFull,
         PharmacistGivesUp, PharmacistNotNeeded, PharmacistDelivers, PharmacistAwakes,
         PharmacistHandsOver, PharmacistCancelled

\* A doctor who polls an empty cabinet that no pharmacist has come to fill, or
\* whose first pharmacist waits for him to let go, keeps polling until main has
\* seen all patients leave.
THEOREM StarvingLasts == Spec => StarvingForever
<1>1. ASSUME HospitalInv, [Next]_vars, Starving, ~all_patients_done
      PROVE  Starving'
  <2>1. ASSUME OthersLeave, UNCHANGED <<pharmacist_pc, waiting_pharmacists>>
        PROVE  Starving'
    BY <1>1, <2>1 DEF OthersLeave, Starving, DoctorPolling
  <2>2. ASSUME NEW p \in Patient, PatientNext(p)
        PROVE  Starving'
    BY <2>1, <2>2, PatientLeavesAlone
  <2>3. CASE MainNext
    BY <2>1, <2>3, MainLeavesAlone
  <2>4. CASE UNCHANGED vars \/ \E t \in Threads : SpuriousWakeup(t)
    BY <2>1, <2>4, IdleLeavesAlone
  <2>5. QED
    BY <1>1, <2>2, <2>3, <2>4, DoctorKeepsStarving, PharmacistKeepsStarving DEF Next
<1>2. HospitalInv /\ [Next]_vars => [Starving /\ ~all_patients_done => Starving']_vars
  BY <1>1
<1>3. QED
  BY <1>2, HospitalInvariant, PTL DEF Spec, StarvingForever
-----------------------------------------------------------------------------
(***************************************************************************)
(* Sequences in which nobody occurs twice.                                 *)
(***************************************************************************)
NoRepeats(seq) == \A i, j \in DOMAIN seq : i # j => seq[i] # seq[j]

LEMMA AppendOnce == 
    ASSUME NEW S, NEW seq \in Seq(S), NEW x \in S
    PROVE  /\ Append(seq, x) \in Seq(S) /\ Append(seq, x) # <<>>
           /\ \A p : InArray(p, Append(seq, x)) <=> InArray(p, seq) \/ p = x
           /\ NoRepeats(seq) /\ ~InArray(x, seq) => NoRepeats(Append(seq, x))
<1> DEFINE n == Len(seq)
           longer == Append(seq, x)
<1>1. /\ longer \in Seq(S) /\ longer # <<>> /\ DOMAIN longer = 1 .. n + 1
      /\ DOMAIN seq = 1 .. n /\ n \in Nat
      /\ \A i \in 1 .. n : longer[i] = seq[i]
      /\ longer[n + 1] = x
  OBVIOUS
<1> HIDE DEF longer, n
<1>2. \A p : InArray(p, longer) <=> InArray(p, seq) \/ p = x
  <2>1. \A i : i \in 1 .. n + 1 <=> i \in 1 .. n \/ i = n + 1
    BY <1>1
  <2>2. QED
    BY <1>1, <2>1 DEF InArray
<1>3. ASSUME NoRepeats(seq), ~InArray(x, seq)
      PROVE  NoRepeats(longer)
  <2>1. \A i \in 1 .. n + 1 : i \in 1 .. n \/ i = n + 1
    BY <1>1
  <2>2. QED
    BY <1>1, <1>3, <2>1 DEF NoRepeats, InArray
<1>4. QED
  BY <1>1, <1>2, <1>3 DEF longer

LEMMA TailOnce == 
    ASSUME NEW S, NEW seq \in Seq(S), seq # <<>>
    PROVE  /\ Head(seq) \in S /\ Tail(seq) \in Seq(S)
           /\ \A p : InArray(p, seq) <=> InArray(p, Tail(seq)) \/ p = Head(seq)
           /\ NoRepeats(seq) => NoRepeats(Tail(seq)) /\ ~InArray(Head(seq), Tail(seq))
<1> DEFINE n == Len(seq)
           rest == Tail(seq)
<1>1. /\ rest \in Seq(S) /\ DOMAIN rest = 1 .. n - 1
      /\ DOMAIN seq = 1 .. n /\ n \in Nat \ {0}
      /\ \A i \in 1 .. n - 1 : rest[i] = seq[i + 1]
      /\ Head(seq) = seq[1] /\ seq[1] \in S
  OBVIOUS
<1> HIDE DEF rest, n
<1>2. /\ \A i \in 1 .. n : i = 1 \/ (i - 1 \in 1 .. n - 1 /\ (i - 1) + 1 = i)
      /\ \A i \in 1 .. n - 1 : i + 1 \in 1 .. n /\ i + 1 # 1
      /\ 1 \in 1 .. n
  BY <1>1
<1>3. \A p : InArray(p, seq) <=> InArray(p, rest) \/ p = seq[1]
  <2>1. ASSUME NEW p, InArray(p, seq)
        PROVE  InArray(p, rest) \/ p = seq[1]
    <3>1. PICK i \in 1 .. n : seq[i] = p
      BY <1>1, <2>1 DEF InArray
    <3>2. QED
      BY <1>1, <1>2, <3>1 DEF InArray
  <2>2. ASSUME NEW p, InArray(p, rest) \/ p = seq[1]
        PROVE  InArray(p, seq)
    BY <1>1, <1>2, <2>2 DEF InArray
  <2>3. QED
    BY <2>1, <2>2
<1>4. ASSUME NoRepeats(seq)
      PROVE  NoRepeats(rest) /\ ~InArray(seq[1], rest)
  <2>1. ASSUME NEW i \in 1 .. n - 1, NEW j \in 1 .. n - 1, i # j
        PROVE  rest[i] # rest[j]
    <3>1. i + 1 # j + 1 /\ i + 1 \in 1 .. n /\ j + 1 \in 1 .. n
      BY <1>1, <2>1
    <3>2. seq[i + 1] # seq[j + 1]
      BY <1>1, <1>4, <3>1 DEF NoRepeats
    <3>3. QED
      BY <1>1, <3>2
  <2>2. ASSUME NEW i \in 1 .. n - 1
        PROVE  rest[i] # seq[1]
    BY <1>1, <1>2, <1>4 DEF NoRepeats
  <2>3. QED
    BY <1>1, <2>1, <2>2 DEF NoRepeats, InArray
<1>5. QED
  BY <1>1, <1>3, <1>4 DEF rest

LEMMA SingleOnce == 
    ASSUME NEW x
    PROVE  NoRepeats(<<x>>) /\ \A p : InArray(p, <<x>>) <=> p = x
BY DEF NoRepeats, InArray

\* Nobody is twice in two sequences together.
LEMMA ConcatOnce == 
    ASSUME NEW S, NEW s \in Seq(S), NEW t \in Seq(S), 
           NoRepeats(s), NoRepeats(t), \A p \in S : ~(InArray(p, s) /\ InArray(p, t))
    PROVE  NoRepeats(s \o t)
<1> DEFINE m == Len(s)
           n == Len(t)
           both == s \o t
<1>1. /\ m \in Nat /\ n \in Nat /\ DOMAIN s = 1 .. m /\ DOMAIN t = 1 .. n
      /\ DOMAIN both = 1 .. m + n
      /\ \A i \in 1 .. m + n : both[i] = IF i <= m THEN s[i] ELSE t[i - m]
      /\ \A i \in 1 .. m : s[i] \in S
  OBVIOUS
<1> HIDE DEF m, n, both
<1>2. \A i \in 1 .. m + n : IF i <= m THEN i \in 1 .. m ELSE i - m \in 1 .. n
  BY <1>1
<1>3. ASSUME NEW i \in 1 .. m + n, NEW j \in 1 .. m + n, i # j
      PROVE  both[i] # both[j]
  <2>1. CASE i <= m /\ j <= m
    BY <1>1, <1>2, <1>3, <2>1 DEF NoRepeats
  <2>2. CASE ~(i <= m) /\ ~(j <= m)
    <3>1. i - m # j - m
      BY <1>1, <1>3
    <3>2. QED
      BY <1>1, <1>2, <2>2, <3>1 DEF NoRepeats
  <2>3. CASE i <= m /\ ~(j <= m)
    BY <1>1, <1>2, <2>3 DEF InArray
  <2>4. CASE ~(i <= m) /\ j <= m
    BY <1>1, <1>2, <2>4 DEF InArray
  <2>5. QED
    BY <2>1, <2>2, <2>3, <2>4
<1>4. QED
  BY <1>1, <1>3 DEF NoRepeats, both

-----------------------------------------------------------------------------
(***************************************************************************)
(* The inductive invariant behind the properties of the waiting room.      *)
(***************************************************************************)

\* Nobody is booked twice.
BookedOnce == 
    /\ NoRepeats(Waiting) /\ NoRepeats(patients_to_treat)
    /\ \A p \in Patient : ~(InArray(p, Waiting) /\ InArray(p, patients_to_treat))

\* The doctor's array holds patients, in a round only, and a round that was begun
\* with a full queue has somebody to treat, and with those who wait one patient
\* less than the array has elements, but for the latecomers.  With one or two
\* places an empty queue has the same count as a full one.
RoundOK == 
    /\ patients_to_treat \in Seq(Patient)
    /\ doctor_pc \notin {"drain", "lockQueue", "useMedicine", "treat", "treating", "counting"} 
         => patients_to_treat = <<>>
    /\ CLINIC_QUEUE_SIZE > 2 =>
         /\ doctor_pc = "drain" => patients_to_treat # <<>> \/ Waiting # <<>>
         /\ doctor_pc = "drain" 
              => Len(patients_to_treat) + Len(Waiting) <= CLINIC_QUEUE_SIZE - 1 + late
         /\ doctor_pc = "lockQueue" => patients_to_treat # <<>>

\* Who is not in the waiting room is not booked, but for the patient that is being
\* treated; who was treated is not booked any more, unless he has been admitted
\* again since; and who was let go by the doctor has the status to tell.
PatientOK(p) == 
    /\ patient_pc[p] \in {"refused", "done"} => ~Booked(p)
    /\ patient_pc[p] \in {"check", "enter", "waited", "spin"} /\ Booked(p) 
         => patient_status[p] = "TREATMENT"
    /\ patient_pc[p] \in {"count", "look", "wake", "wait", "nap"} 
         => /\ patient_status[p] \in {"QUEUE", "TREATMENT", "GONE"}
            /\ patient_status[p] = "GONE" => ~Booked(p)
    /\ patient_pc[p] \in {"spin", "waited"} => patient_status[p] \in {"TREATMENT", "GONE"}
    /\ patient_pc[p] = "done" => patient_status[p] = "GONE"

\* Whoever is GONE is accounted for, unless he has just been admitted again: he
\* will write QUEUE over it.  Between two counts nobody is dismissed.
TreatmentsCounted == 
    /\ IF doctor_pc = "counting" THEN dismissed \in Patient ELSE dismissed = NULL
    /\ \A p \in Patient : patient_status[p] = "GONE" /\ patient_pc[p] # "admitted" => Accounted(p)
    /\ counted \subseteq Patient
    /\ TREATED_CAP >= Cardinality(Patient) => Cardinality(counted) <= patients_treated

RoomInv == 
    /\ QueueInv
    /\ BookedOnce
    /\ RoundOK
    /\ \A p \in Patient : PatientOK(p)
    /\ TreatmentsCounted

-----------------------------------------------------------------------------
(***************************************************************************)
(* What the steps do to those who are booked.                              *)
(***************************************************************************)
RoomKept == UNCHANGED <<queueVars, patients_to_treat, smashed>>

LEMMA RoomSteps == 
    ASSUME [Next]_vars
    PROVE  \/ RoomKept
           \/ DoctorNext /\ (DoctorDrains \/ DoctorEndsTreatment)
           \/ \E p \in Patient : PatientNext(p) /\ PatientEnters(p)
<1>1. CASE DoctorNext
  BY <1>1 DEF DoctorNext, DoctorCheck, DoctorSleep, DoctorAwakes, DoctorPolls,
       DoctorPollsMedicine, DoctorPollsQueue, DoctorDrained,
       DoctorLocksQueue, DoctorUsesMedicine, DoctorStartsTreatment, DoctorCounts, DoctorEndsRound,
       DoctorAcceptsPharmacy, DoctorRefills, RoomKept,
       roundVars, roundVarsButDoctorMutex, roundVarsButQueueMutex, roundVarsButMutexes
<1>2. ASSUME NEW p \in Patient, PatientNext(p)
      PROVE  RoomKept \/ PatientEnters(p)
  BY <1>2 DEF PatientNext, patientFrame, doctorVars, PatientMoves, PatientChecks, PatientRefused,
       PatientWalks, PatientQueues, PatientCounts, PatientLooks, PatientWakesDoctor,
       PatientWaits, PatientNaps, PatientSpins, PatientWaited, RoomKept
<1>3. ASSUME NEW q \in Pharmacist, PharmacistNext(q)
      PROVE  RoomKept
  BY <1>3 DEF PharmacistNext, pharmacistFrame, doctorVars, RoomKept
<1>4. CASE MainNext
  BY <1>4 DEF MainNext, mainFrame, doctorVars, RoomKept
<1>5. CASE UNCHANGED vars \/ \E t \in Threads : SpuriousWakeup(t)
  BY <1>5 DEF vars, SpuriousWakeup, doctorVars, RoomKept
<1>6. QED
  BY <1>1, <1>2, <1>3, <1>4, <1>5 DEF Next

LEMMA KeptRoom == 
    ASSUME QueueInv, BookedOnce, patients_to_treat \in Seq(Patient), RoomKept
    PROVE  /\ QueueInv' /\ BookedOnce' /\ patients_to_treat' \in Seq(Patient)
           /\ Waiting' = Waiting
           /\ \A p : Booked(p)' <=> Booked(p)
<1>1. QueueInv' /\ Waiting' = Waiting /\ patients_to_treat' = patients_to_treat
  BY StutterStep DEF RoomKept
<1>2. QED
  BY <1>1 DEF BookedOnce, Booked, InArray, NoRepeats

\* Somebody who is not booked enters; the others stay, or all but the head of a
\* room that nobody has been popped from are lost.
LEMMA EnteredRoom == 
    ASSUME QueueInv, BookedOnce, patients_to_treat \in Seq(Patient), NEW p \in Patient,
           queue_add(p), ~Booked(p), UNCHANGED patients_to_treat
    PROVE  /\ QueueInv' /\ BookedOnce' /\ patients_to_treat' \in Seq(Patient)
           /\ Waiting' # <<>> /\ Len(Waiting') <= Len(Waiting) + 1
           /\ \A x \in Patient \ {p} : Booked(x)' => Booked(x)
           /\ \/ \A x : Booked(x)' <=> Booked(x) \/ x = p
              \/ head = 0 /\ Len(Waiting) = IndexCycle
<1>1. QueueInv' /\ Waiting \in Seq(Patient)
  BY AddStep, InvWaiting
<1>2. CASE Waiting' = Append(Waiting, p)
  <2>0. Len(Waiting') = Len(Waiting) + 1 /\ Len(Waiting) \in Nat
    BY <1>1, <1>2
  <2>1. /\ Waiting' # <<>>
        /\ \A x : InArray(x, Waiting') <=> InArray(x, Waiting) \/ x = p
        /\ NoRepeats(Waiting')
    <3>1. ~InArray(p, Waiting) /\ NoRepeats(Waiting)
      BY DEF Booked, BookedOnce
    <3>2. QED
      BY <1>1, <1>2, <3>1, AppendOnce
  <2>2. NoRepeats(patients_to_treat') /\ \A x : InArray(x, patients_to_treat') <=> InArray(x, patients_to_treat)
    BY DEF BookedOnce
  <2>3. BookedOnce'
    BY <2>1, <2>2 DEF BookedOnce, Booked
  <2>4. \A x : Booked(x)' <=> Booked(x) \/ x = p
    BY <2>1, <2>2 DEF Booked
  <2>5. QED
    BY <1>1, <2>0, <2>1, <2>3, <2>4
<1>3. CASE head = 0 /\ Len(Waiting) = IndexCycle /\ Waiting' = <<Head(Waiting)>>
  <2>0. Len(Waiting') = 1 /\ Len(Waiting) \in Nat
    BY <1>1, <1>3
  <2>1. Waiting # <<>>
    BY <1>1, <1>3, CycleFacts
  <2>2. InArray(Head(Waiting), Waiting)
    BY <1>1, <2>1, TailOnce
  <2>3. /\ Waiting' # <<>>
        /\ \A x : InArray(x, Waiting') => InArray(x, Waiting)
        /\ NoRepeats(Waiting')
    BY <1>3, <2>2, SingleOnce
  <2>4. NoRepeats(patients_to_treat') /\ \A x : InArray(x, patients_to_treat') <=> InArray(x, patients_to_treat)
    BY DEF BookedOnce
  <2>5. BookedOnce' /\ \A x : Booked(x)' => Booked(x)
    BY <2>3, <2>4 DEF BookedOnce, Booked
  <2>6. QED
    BY <1>1, <1>3, <2>0, <2>3, <2>5
<1>4. QED
  BY <1>2, <1>3, AddStep

LEMMA NextInvWaiting == 
    ASSUME QueueInv'
    PROVE  Waiting' \in Seq(Patient) /\ Len(Waiting') \in Nat
<1>1. PICK k : Holds(head', tail', queue_array', k)
  BY DEF QueueInv
<1>2. QED
  BY <1>1, NextWaiting DEF QueueInv

\* The doctor takes the first of those who wait.
LEMMA DrainedRoom == 
    ASSUME QueueInv, BookedOnce, patients_to_treat \in Seq(Patient), DoctorDrains
    PROVE  /\ QueueInv' /\ BookedOnce' /\ patients_to_treat' \in Seq(Patient)
           /\ patients_to_treat' # <<>> /\ Len(patients_to_treat') = Len(patients_to_treat) + 1
           /\ Waiting # <<>> /\ Len(Waiting') = Len(Waiting) - 1
           /\ \A x : Booked(x)' <=> Booked(x)
<1> DEFINE first == Head(Waiting)
<1>1. /\ QueueInv' /\ Waiting \in Seq(Patient) /\ Waiting # <<>> /\ Waiting' = Tail(Waiting)
      /\ patients_to_treat' = Append(patients_to_treat, first)
  BY PopStep DEF DoctorDrains
<1>2. /\ first \in Patient 
      /\ \A x : InArray(x, Waiting) <=> InArray(x, Waiting') \/ x = first
      /\ NoRepeats(Waiting') /\ ~InArray(first, Waiting')
  BY <1>1, TailOnce DEF BookedOnce
<1> HIDE DEF first
<1>3. ~InArray(first, patients_to_treat) /\ NoRepeats(patients_to_treat)
  BY <1>2 DEF BookedOnce
<1>4. /\ patients_to_treat' \in Seq(Patient) /\ patients_to_treat' # <<>>
      /\ \A x : InArray(x, patients_to_treat') <=> InArray(x, patients_to_treat) \/ x = first
      /\ NoRepeats(patients_to_treat')
  BY <1>1, <1>2, <1>3, AppendOnce
<1>5. /\ Len(patients_to_treat') = Len(patients_to_treat) + 1
      /\ Len(Waiting') = Len(Waiting) - 1
  BY <1>1, <1>2
<1>6. BookedOnce'
  BY <1>2, <1>3, <1>4 DEF BookedOnce
<1>7. \A x : Booked(x)' <=> Booked(x)
  BY <1>2, <1>4 DEF Booked
<1>8. QED
  BY <1>1, <1>4, <1>5, <1>6, <1>7

\* The doctor ends the treatment of the first of his array.
LEMMA TreatedRoom == 
    ASSUME QueueInv, BookedOnce, patients_to_treat \in Seq(Patient), patients_to_treat # <<>>,
           DoctorEndsTreatment
    PROVE  /\ QueueInv' /\ BookedOnce' /\ patients_to_treat' \in Seq(Patient)
           /\ Waiting' = Waiting
           /\ Head(patients_to_treat) \in Patient
           /\ \A x : Booked(x)' <=> Booked(x) /\ x # Head(patients_to_treat)
<1>1. QueueInv' /\ Waiting' = Waiting /\ patients_to_treat' = Tail(patients_to_treat)
  BY StutterStep DEF DoctorEndsTreatment
<1>2. /\ patients_to_treat' \in Seq(Patient) /\ Head(patients_to_treat) \in Patient
      /\ \A x : InArray(x, patients_to_treat) 
                  <=> InArray(x, patients_to_treat') \/ x = Head(patients_to_treat)
      /\ NoRepeats(patients_to_treat') /\ ~InArray(Head(patients_to_treat), patients_to_treat')
  BY <1>1, TailOnce DEF BookedOnce
<1>3. \A x : InArray(x, Waiting') <=> InArray(x, Waiting)
  BY <1>1
<1>4. ~InArray(Head(patients_to_treat), Waiting)
  BY <1>2 DEF BookedOnce
<1>5. BookedOnce'
  BY <1>1, <1>2, <1>3 DEF BookedOnce
<1>6. \A x : Booked(x)' <=> Booked(x) /\ x # Head(patients_to_treat)
  BY <1>2, <1>3, <1>4 DEF Booked
<1>7. QED
  BY <1>1, <1>2, <1>5, <1>6

-----------------------------------------------------------------------------
(***************************************************************************)
(* The invariant of the waiting room, kept by the patients.                *)
(***************************************************************************)

\* What nobody touches stays true of a patient.
LEMMA PatientKept == 
    ASSUME NEW x \in Patient, PatientOK(x),
           patient_pc'[x] = patient_pc[x], patient_status'[x] = patient_status[x],
           Booked(x)' => Booked(x)
    PROVE  PatientOK(x)'
BY DEF PatientOK

\* Who can lock queue->mutex at the door is not the patient being treated.
LEMMA NotBooked == 
    ASSUME HospitalInv, NEW p \in Patient, PatientOK(p),
           patient_pc[p] = "enter", queue_mutex = NULL
    PROVE  ~Booked(p)
<1>1. doctor_pc # "treating"
  BY HospitalAssumption DEF HospitalInv, LockOwners, Threads
<1>2. patient_status[p] # "TREATMENT"
  BY <1>1 DEF HospitalInv, TreatmentIsByDoctor
<1>3. QED
  BY <1>2 DEF PatientOK

\* The patient's own steps.
LEMMA OwnStep == 
    ASSUME HospitalInv, NEW p \in Patient, PatientOK(p), PatientNext(p),
           PatientEnters(p) \/ (Booked(p)' <=> Booked(p))
    PROVE  PatientOK(p)'
<1>1. /\ patient_status[p] \in PatientStatus
      /\ \A from, to : PatientGoes(p, from, to) => patient_pc[p] = from /\ patient_pc'[p] = to
      /\ \A s : SetPatientStatus(p, s) => patient_status'[p] = s
  BY DEF HospitalInv, TypeOK, PatientGoes, SetPatientStatus
<1>2. ASSUME NEW from, NEW to, PatientMoves(p, from, to)
      PROVE  patient_pc[p] = from /\ patient_pc'[p] = to /\ patient_status'[p] = patient_status[p]
  BY <1>1, <1>2 DEF PatientMoves
<1>3. CASE PatientChecks(p)
  BY <1>2, <1>3 DEF PatientChecks, PatientOK, PatientEnters, PatientGoes
<1>4. CASE PatientEnters(p)
  <2>1. patient_pc'[p] = "admitted"
    BY <1>1, <1>4 DEF PatientEnters
  <2>2. QED
    BY <2>1 DEF PatientOK
<1>5. CASE PatientRefused(p)
  <2>1. patient_pc[p] = "enter" /\ queue_mutex = NULL /\ patient_pc'[p] = "refused"
    BY <1>2, <1>5 DEF PatientRefused
  <2>2. ~Booked(p)
    BY <2>1, NotBooked
  <2>3. ~PatientEnters(p)
    BY <1>5 DEF PatientEnters, PatientRefused, queue_add, queue_add_refused
  <2>4. QED
    BY <2>1, <2>2, <2>3 DEF PatientOK
<1>6. CASE ~PatientEnters(p) /\ ~PatientRefused(p) /\ ~PatientChecks(p)
  <2>1. Booked(p)' <=> Booked(p)
    BY <1>6
  <2> HIDE DEF Booked
  <2>2. CASE PatientWalks(p)
    BY <1>1, <2>1, <2>2 DEF PatientWalks, PatientOK
  <2>3. CASE PatientQueues(p)
    BY <1>1, <2>1, <2>3 DEF PatientQueues, PatientOK
  <2>4. CASE PatientCounts(p)
    BY <1>2, <2>1, <2>4 DEF PatientCounts, PatientOK
  <2>5. CASE PatientLooks(p)
    BY <1>2, <2>1, <2>5 DEF PatientLooks, PatientOK
  <2>6. CASE PatientWakesDoctor(p)
    BY <1>1, <2>1, <2>6 DEF PatientWakesDoctor, PatientOK
  <2>7. CASE PatientWaits(p)
    BY <1>1, <1>2, <2>1, <2>7 DEF PatientWaits, PatientOK
  <2>8. CASE PatientNaps(p)
    BY <1>1, <1>2, <2>1, <2>8 DEF PatientNaps, PatientOK
  <2>9. CASE PatientSpins(p)
    BY <1>1, <2>1, <2>9 DEF PatientSpins, PatientOK
  <2>10. CASE PatientWaited(p)
    BY <1>1, <1>2, <2>1, <2>10 DEF PatientWaited, PatientOK
  <2>11. QED
    BY <1>6, <2>2, <2>3, <2>4, <2>5, <2>6, <2>7, <2>8, <2>9, <2>10 DEF PatientNext
<1>7. QED
  BY <1>3, <1>4, <1>5, <1>6

\* What a patient's step leaves of another patient.
LEMMA OthersUntouched == 
    ASSUME HospitalInv, NEW p \in Patient, PatientNext(p), NEW x \in Patient, x # p
    PROVE  patient_pc'[x] = patient_pc[x] /\ patient_status'[x] = patient_status[x]
<1>1. /\ \A from, to : PatientGoes(p, from, to) => patient_pc'[x] = patient_pc[x]
      /\ \A s : SetPatientStatus(p, s) => patient_status'[x] = patient_status[x]
  BY DEF HospitalInv, TypeOK, PatientGoes, SetPatientStatus
<1>2. QED
  BY <1>1 DEF PatientNext, PatientMoves, PatientChecks, PatientEnters, PatientRefused,
       PatientWalks, PatientQueues, PatientCounts, PatientLooks, PatientWakesDoctor,
       PatientWaits, PatientNaps, PatientSpins, PatientWaited

\* Steps of others than the doctor keep the conditions on his round.
LEMMA RoundKept == 
    ASSUME RoundOK, patients_to_treat' \in Seq(Patient),
           UNCHANGED <<doctor_pc, patients_to_treat>>,
           Waiting \in Seq(Patient), Waiting' \in Seq(Patient), late \in Nat, late' \in Nat,
           Waiting' = Waiting \/ Waiting' # <<>>,
           doctor_pc = "drain" => Len(Waiting') - Len(Waiting) <= late' - late
    PROVE  RoundOK'
<1>1. /\ Len(Waiting) \in Nat /\ Len(Waiting') \in Nat /\ Len(patients_to_treat) \in Nat
      /\ CLINIC_QUEUE_SIZE \in Nat
  BY QueueAssumption DEF RoundOK
<1>2. CLINIC_QUEUE_SIZE > 2 /\ doctor_pc = "drain"
        => Len(patients_to_treat) + Len(Waiting') <= CLINIC_QUEUE_SIZE - 1 + late'
  BY <1>1 DEF RoundOK
<1>3. QED
  BY <1>2 DEF RoundOK

\* The history follows the admissions of a round.
LEMMA LatecomersStep == 
    ASSUME TypeOK, [Next]_vars
    PROVE  /\ late \in Nat /\ late' \in Nat
           /\ doctor_pc' = "drain" => late' >= late
           /\ doctor_pc' = "drain" /\ Admitted # {} => late' = late + 1
<1>1. late \in Nat
  BY DEF TypeOK
<1>2. CASE UNCHANGED vars
  <2>1. patient_pc' = patient_pc /\ late' = late
    BY <1>2 DEF vars, patientVars
  <2>2. Admitted = {}
    BY <2>1 DEF Admitted
  <2>3. QED
    BY <1>1, <2>1, <2>2
<1>3. CASE Next
  BY <1>1, <1>3 DEF Next, Remember
<1>4. QED
  BY <1>2, <1>3

\* The count of a full queue is not that of an empty one, nor that of as many
\* patients as the queue wraps around after.
LEMMA WokenByFull == 
    ASSUME QueueInv, CLINIC_QUEUE_SIZE > 2, queue_count = CLINIC_QUEUE_SIZE
    PROVE  Waiting # <<>> /\ Len(Waiting) <= CLINIC_QUEUE_SIZE - 1
<1> DEFINE n == Len(Waiting)
<1>1. CLINIC_QUEUE_SIZE \in Nat /\ head \in Slots
  BY QueueAssumption DEF QueueInv, QueueTypeOK
<1>2. n \in 0 .. Limit(head)
  BY InvWaiting DEF Holds
<1>3. n \in 0 .. CLINIC_QUEUE_SIZE
  BY <1>1, <1>2, LimitInRange
<1>4. ModQueueSize(2 * n + 1) = CLINIC_QUEUE_SIZE
  BY InvCount DEF CountOfWaiting
<1> HIDE DEF n
<1>5. n # 0
  <2>1. ModQueueSize(1) = 2
    BY <1>1 DEF ModQueueSize
  <2>2. n = 0 => 2 * n + 1 = 1
    OBVIOUS
  <2>3. QED
    BY <1>1, <1>4, <2>1, <2>2
<1>6. n # CLINIC_QUEUE_SIZE
  <2>1. /\ 2 * CLINIC_QUEUE_SIZE + 1 \in Nat
        /\ 2 * CLINIC_QUEUE_SIZE + 1 = CLINIC_QUEUE_SIZE * 2 + 1
        /\ 1 \in Remainders
    BY <1>1 DEF Remainders
  <2>2. (2 * CLINIC_QUEUE_SIZE + 1) % CLINIC_QUEUE_SIZE = 1
    BY <2>1, DivisionUnique
  <2>3. ModQueueSize(2 * CLINIC_QUEUE_SIZE + 1) = 2
    BY <2>2 DEF ModQueueSize
  <2>4. QED
    BY <1>1, <1>4, <2>3
<1>7. Waiting # <<>>
  BY <1>5 DEF n
<1>8. n <= CLINIC_QUEUE_SIZE - 1
  BY <1>1, <1>3, <1>6
<1>9. QED
  BY <1>7, <1>8 DEF n

-----------------------------------------------------------------------------
(***************************************************************************)
(* The invariant of the waiting room, kept by the doctor and the others.   *)
(***************************************************************************)

\* The doctor finds patients after a full queue's count, and one less of them
\* than fit, and the latecomers.
LEMMA DoctorKeepsRound == 
    ASSUME HospitalInv, RoomInv, [Next]_vars, DoctorNext
    PROVE  RoundOK'
<1> USE DEF DoctorGoes, roundVars, roundVarsButDoctorMutex, roundVarsButQueueMutex,
        roundVarsButMutexes
<1>0. /\ QueueInv /\ BookedOnce /\ patients_to_treat \in Seq(Patient)
      /\ CLINIC_QUEUE_SIZE \in Nat /\ late \in Nat /\ late' \in Nat
      /\ doctor_pc' = "drain" => late' >= late
  BY QueueAssumption, LatecomersStep DEF RoomInv, RoundOK, HospitalInv
<1>1. CASE DoctorDrains
  <2>1. /\ patients_to_treat' \in Seq(Patient) /\ patients_to_treat' # <<>>
        /\ Len(patients_to_treat') = Len(patients_to_treat) + 1
        /\ Len(Waiting') = Len(Waiting) - 1
    BY <1>0, <1>1, DrainedRoom
  <2>2. Len(Waiting) \in Nat /\ Len(patients_to_treat) \in Nat
    BY <1>0, InvWaiting
  <2>3. doctor_pc = "drain" /\ doctor_pc' = "drain"
    BY <1>1 DEF DoctorDrains
  <2>4. CLINIC_QUEUE_SIZE > 2 
          => Len(patients_to_treat') + Len(Waiting') <= CLINIC_QUEUE_SIZE - 1 + late'
    BY <1>0, <2>1, <2>2, <2>3 DEF RoomInv, RoundOK
  <2>5. QED
    BY <2>1, <2>3, <2>4 DEF RoundOK
<1>2. CASE DoctorEndsTreatment
  <2>1. patients_to_treat' \in Seq(Patient)
    BY <1>0, <1>2, TreatedRoom DEF HospitalInv, TreatingSomebody, DoctorEndsTreatment
  <2>2. QED
    BY <1>2, <2>1 DEF DoctorEndsTreatment, RoomInv, RoundOK
<1>3. CASE RoomKept
  <2>1. patients_to_treat' = patients_to_treat /\ Waiting' = Waiting
    BY <1>0, <1>3, KeptRoom DEF RoomKept
  <2>2. CASE DoctorPollsQueue
    <3>1. ASSUME CLINIC_QUEUE_SIZE > 2, doctor_pc' = "drain"
          PROVE  Waiting # <<>> /\ Len(Waiting) <= CLINIC_QUEUE_SIZE - 1
      BY <1>0, <2>2, <3>1, WokenByFull DEF DoctorPollsQueue, WakingMode
    <3>2. patients_to_treat = <<>> /\ doctor_pc' \notin {"lockQueue", "useMedicine", "treat", "treating", "counting"}
      BY <2>2 DEF DoctorPollsQueue, RoomInv, RoundOK
    <3>3. ASSUME CLINIC_QUEUE_SIZE > 2, doctor_pc' = "drain"
          PROVE  Len(patients_to_treat') + Len(Waiting') <= CLINIC_QUEUE_SIZE - 1 + late'
      <4>1. Len(patients_to_treat') = 0 /\ Len(Waiting) \in Nat
        BY <1>0, <2>1, <3>2, InvWaiting
      <4>2. QED
        BY <1>0, <2>1, <3>1, <3>3, <4>1
    <3>4. QED
      BY <1>0, <2>1, <3>1, <3>2, <3>3 DEF RoundOK
  <2>3. CASE DoctorDrained
    <3>1. Waiting = <<>>
      BY <1>0, <2>3, EmptyIsEmpty DEF DoctorDrained
    <3>2. QED
      BY <1>0, <2>1, <2>3, <3>1 DEF DoctorDrained, RoomInv, RoundOK
  <2>4. CASE DoctorLocksQueue \/ DoctorUsesMedicine \/ DoctorStartsTreatment \/ DoctorCounts
    BY <1>0, <2>1, <2>4 
       DEF DoctorLocksQueue, DoctorUsesMedicine, DoctorStartsTreatment, DoctorCounts,
           RoomInv, RoundOK
  <2>5. CASE DoctorEndsRound
    BY <1>0, <2>1, <2>5 DEF DoctorEndsRound, RoomInv, RoundOK
  <2>6. CASE /\ doctor_pc \notin {"drain", "lockQueue", "useMedicine", "treat", "treating", "counting"}
             /\ doctor_pc' \notin {"drain", "lockQueue", "useMedicine", "treat", "treating", "counting"}
    BY <1>0, <2>1, <2>6 DEF RoomInv, RoundOK
  <2>7. CASE DoctorCheck \/ DoctorSleep \/ DoctorAwakes \/ DoctorPolls \/ DoctorPollsMedicine
               \/ DoctorAcceptsPharmacy \/ DoctorRefills
    BY <2>6, <2>7 DEF DoctorCheck, DoctorSleep, DoctorAwakes, DoctorPolls, DoctorPollsMedicine,
                      DoctorAcceptsPharmacy, DoctorRefills
  <2>8. CASE DoctorDrains \/ DoctorEndsTreatment
    BY <1>1, <1>2, <2>8
  <2>9. QED
    BY <2>2, <2>3, <2>4, <2>5, <2>7, <2>8 DEF DoctorNext
<1>4. QED
  <2>1. RoomKept \/ DoctorDrains \/ DoctorEndsTreatment
    BY DEF DoctorNext, DoctorCheck, DoctorSleep, DoctorAwakes, DoctorPolls,
       DoctorPollsMedicine, DoctorPollsQueue, DoctorDrained,
       DoctorLocksQueue, DoctorUsesMedicine, DoctorStartsTreatment, DoctorCounts, DoctorEndsRound,
       DoctorAcceptsPharmacy, DoctorRefills, RoomKept
  <2>2. QED
    BY <1>1, <1>2, <1>3, <2>1

\* The statuses the doctor writes are those of the patient he treats.
LEMMA DoctorKeepsPatients == 
    ASSUME HospitalInv, RoomInv, DoctorNext, NEW x \in Patient
    PROVE  PatientOK(x)'
<1> USE DEF DoctorGoes, roundVars, roundVarsButDoctorMutex, roundVarsButQueueMutex,
        roundVarsButMutexes
<1>0. /\ QueueInv /\ BookedOnce /\ patients_to_treat \in Seq(Patient) /\ PatientOK(x)
      /\ patient_pc' = patient_pc
      /\ patient_status \in [Patient -> PatientStatus]
  BY DEF RoomInv, RoundOK, DoctorNext, doctorFrame, HospitalInv, TypeOK
<1>1. CASE DoctorStartsTreatment
  <2> DEFINE h == Head(patients_to_treat)
  <2>1. h \in Patient /\ InArray(h, patients_to_treat)
    BY <1>0, <1>1, TailOnce DEF DoctorStartsTreatment
  <2> HIDE DEF h
  <2>2. Booked(x)' <=> Booked(x)
    BY <1>0, <1>1, KeptRoom DEF DoctorStartsTreatment, RoomKept
  <2>3. patient_status' = [patient_status EXCEPT ![h] = "TREATMENT"]
    BY <1>1 DEF DoctorStartsTreatment, SetPatientStatus, h
  <2>4. CASE x = h
    <3>1. Booked(x)
      BY <2>1, <2>4 DEF Booked
    <3>2. patient_status'[x] = "TREATMENT" /\ patient_pc'[x] = patient_pc[x]
      BY <1>0, <2>3, <2>4
    <3>3. QED
      BY <1>0, <2>2, <3>1, <3>2 DEF PatientOK
  <2>5. CASE x # h
    BY <1>0, <2>1, <2>2, <2>3, <2>5, PatientKept
  <2>6. QED
    BY <2>4, <2>5
<1>2. CASE DoctorEndsTreatment
  <2> DEFINE h == Head(patients_to_treat)
  <2>1. /\ patients_to_treat # <<>> /\ h \in Patient
        /\ Booked(x)' <=> Booked(x) /\ x # h
    BY <1>0, <1>2, TreatedRoom DEF HospitalInv, TreatingSomebody, DoctorEndsTreatment
  <2>2. patient_status' = [patient_status EXCEPT ![h] = "GONE"]
    BY <1>2 DEF DoctorEndsTreatment, SetPatientStatus
  <2> HIDE DEF h
  <2>3. CASE x = h
    <3>1. ~Booked(x)' /\ patient_status'[x] = "GONE" /\ patient_pc'[x] = patient_pc[x]
      BY <1>0, <2>1, <2>2, <2>3
    <3>2. QED
      BY <3>1 DEF PatientOK
  <2>4. CASE x # h
    BY <1>0, <2>1, <2>2, <2>4, PatientKept
  <2>5. QED
    BY <2>3, <2>4
<1>3. CASE DoctorDrains
  <2>1. (Booked(x)' <=> Booked(x)) /\ patient_status' = patient_status
    BY <1>0, <1>3, DrainedRoom DEF DoctorDrains
  <2>2. QED
    BY <1>0, <2>1, PatientKept
<1>4. CASE RoomKept /\ patient_status' = patient_status
  <2>1. Booked(x)' <=> Booked(x)
    BY <1>0, <1>4, KeptRoom
  <2>2. QED
    BY <1>0, <1>4, <2>1, PatientKept
<1>5. QED
  BY <1>1, <1>2, <1>3, <1>4 
     DEF DoctorNext, DoctorCheck, DoctorSleep, DoctorAwakes, DoctorPolls,
       DoctorPollsMedicine, DoctorPollsQueue, DoctorDrained,
       DoctorLocksQueue, DoctorUsesMedicine, DoctorCounts, DoctorEndsRound,
       DoctorAcceptsPharmacy, DoctorRefills, RoomKept

\* The counter covers those who are counted when one more of both is counted,
\* and when a patient is admitted again.
LEMMA CounterCovers == 
    ASSUME TypeOK, TreatmentsCounted, counted' \subseteq Patient,
           \/ counted' \subseteq counted /\ patients_treated' = patients_treated
           \/ \E h \in Patient : /\ counted' = counted \cup {h}
                                /\ patients_treated' = Counted(patients_treated, TREATED_CAP)
    PROVE  TREATED_CAP >= Cardinality(Patient) => Cardinality(counted') <= patients_treated'
<1>1. /\ IsFiniteSet(counted) /\ Cardinality(counted) \in Nat
      /\ IsFiniteSet(counted') /\ Cardinality(counted') \in Nat
      /\ Cardinality(counted') <= Cardinality(Patient)
      /\ Cardinality(Patient) \in Nat
  BY HospitalAssumption, FS_Subset, FS_CardinalityType DEF TreatmentsCounted
<1>2. TREATED_CAP \in Nat /\ patients_treated \in 0 .. TREATED_CAP
  BY HospitalAssumption DEF TypeOK
<1>3. TREATED_CAP >= Cardinality(Patient) => Cardinality(counted) <= patients_treated
  BY DEF TreatmentsCounted
<1>4. CASE counted' \subseteq counted /\ patients_treated' = patients_treated
  <2>1. Cardinality(counted') <= Cardinality(counted)
    BY <1>1, <1>4, FS_Subset
  <2>2. QED
    BY <1>1, <1>2, <1>3, <1>4, <2>1
<1>5. ASSUME NEW h \in Patient, counted' = counted \cup {h},
             patients_treated' = Counted(patients_treated, TREATED_CAP)
      PROVE  TREATED_CAP >= Cardinality(Patient) => Cardinality(counted') <= patients_treated'
  <2>1. Cardinality(counted') <= Cardinality(counted) + 1
    BY <1>1, <1>5, FS_AddElement
  <2>2. patients_treated' = IF patients_treated < TREATED_CAP THEN patients_treated + 1 ELSE patients_treated
    BY <1>5 DEF Counted
  <2>3. QED
    BY <1>1, <1>2, <1>3, <2>1, <2>2
<1>6. QED
  BY <1>4, <1>5

\* Steps that neither treat nor count nor move a patient.
LEMMA AccountsKept == 
    ASSUME TreatmentsCounted, Remember \/ UNCHANGED vars,
           UNCHANGED <<patient_pc, patient_status, visit_attempts, patients_treated, dismissed>>,
           doctor_pc' = doctor_pc \/ (doctor_pc # "counting" /\ doctor_pc' # "counting")
    PROVE  TreatmentsCounted'
<1>1. Admitted = {}
  BY DEF Admitted
<1>2. counted' = counted
  BY <1>1 DEF Remember, vars
<1>3. QED
  BY <1>2 DEF TreatmentsCounted, Accounted

LEMMA DoctorKeepsAccounts == 
    ASSUME HospitalInv, RoomInv, DoctorNext, Remember
    PROVE  TreatmentsCounted'
<1> USE DEF DoctorGoes, roundVars, roundVarsButDoctorMutex, roundVarsButQueueMutex,
        roundVarsButMutexes
<1>0. /\ TypeOK /\ TreatmentsCounted /\ NULL \notin Patient
      /\ patient_status \in [Patient -> PatientStatus]
      /\ patient_pc' = patient_pc /\ visit_attempts' = visit_attempts
  BY QueueAssumption DEF HospitalInv, RoomInv, TypeOK, DoctorNext, doctorFrame
<1>1. Admitted = {}
  BY <1>0 DEF Admitted
<1>2. CASE DoctorStartsTreatment
  <2>1. dismissed = NULL /\ dismissed' = NULL /\ doctor_pc' = "treating"
    BY <1>0, <1>2 DEF DoctorStartsTreatment, TreatmentsCounted
  <2>2. counted' = counted /\ patients_treated' = patients_treated
    BY <1>1, <1>2, <2>1 DEF Remember, DoctorStartsTreatment
  <2>3. \A p \in Patient : patient_status'[p] = "GONE" => patient_status[p] = "GONE"
    BY <1>0, <1>2 DEF DoctorStartsTreatment, SetPatientStatus
  <2>4. QED
    BY <1>0, <2>1, <2>2, <2>3 DEF TreatmentsCounted, Accounted
<1>3. CASE DoctorEndsTreatment
  <2> DEFINE h == Head(patients_to_treat)
  <2>1. h \in Patient
    BY <1>3, TreatedRoom DEF HospitalInv, TreatingSomebody, DoctorEndsTreatment, RoomInv, RoundOK
  <2>2. dismissed = NULL /\ dismissed' = h /\ doctor_pc' = "counting"
    BY <1>0, <1>3 DEF DoctorEndsTreatment, TreatmentsCounted
  <2>3. patient_status' = [patient_status EXCEPT ![h] = "GONE"]
    BY <1>3 DEF DoctorEndsTreatment, SetPatientStatus
  <2> HIDE DEF h
  <2>4. counted' = counted /\ patients_treated' = patients_treated
    BY <1>1, <1>3, <2>2 DEF Remember, DoctorEndsTreatment
  <2>5. ASSUME NEW p \in Patient, patient_status'[p] = "GONE", patient_pc'[p] # "admitted"
        PROVE  Accounted(p)'
    <3>1. CASE p = h
      BY <2>2, <3>1 DEF Accounted
    <3>2. CASE p # h
      <4>1. patient_status[p] = "GONE" /\ patient_pc[p] # "admitted"
        BY <1>0, <2>1, <2>3, <2>5, <3>2
      <4>2. Accounted(p) /\ p # dismissed
        BY <1>0, <2>2, <4>1 DEF TreatmentsCounted
      <4>3. QED
        BY <1>0, <2>4, <4>2 DEF Accounted
    <3>3. QED
      BY <3>1, <3>2
  <2>6. QED
    BY <1>0, <2>1, <2>2, <2>4, <2>5 DEF TreatmentsCounted
<1>4. CASE DoctorCounts
  <2>1. dismissed \in Patient /\ dismissed' = NULL /\ doctor_pc' = "treat"
    BY <1>0, <1>4 DEF DoctorCounts, TreatmentsCounted
  <2>2. counted' = counted \cup {dismissed} /\ counted' \subseteq Patient
    BY <1>0, <2>1 DEF Remember, TreatmentsCounted
  <2>3. patient_status' = patient_status
    BY <1>4 DEF DoctorCounts
  <2>4. \A p \in Patient : Accounted(p) => Accounted(p)'
    BY <1>0, <2>2 DEF Accounted
  <2>5. TREATED_CAP >= Cardinality(Patient) => Cardinality(counted') <= patients_treated'
    BY <1>0, <1>4, <2>1, <2>2, CounterCovers DEF DoctorCounts
  <2>6. QED
    BY <1>0, <2>1, <2>2, <2>3, <2>4, <2>5 DEF TreatmentsCounted
<1>5. CASE /\ UNCHANGED <<patient_status, patients_treated, dismissed>>
           /\ doctor_pc # "counting" /\ doctor_pc' # "counting"
  BY <1>0, <1>5, AccountsKept
<1>6. QED
  BY <1>2, <1>3, <1>4, <1>5 
     DEF DoctorNext, DoctorCheck, DoctorSleep, DoctorAwakes, DoctorPolls,
         DoctorPollsMedicine, DoctorPollsQueue, DoctorDrains, DoctorDrained,
         DoctorLocksQueue, DoctorUsesMedicine, DoctorEndsRound,
         DoctorAcceptsPharmacy, DoctorRefills

LEMMA PatientKeepsAccounts == 
    ASSUME HospitalInv, RoomInv, NEW p \in Patient, PatientNext(p), Remember
    PROVE  TreatmentsCounted'
<1>0. /\ TypeOK /\ TreatmentsCounted /\ PatientOK(p)
      /\ patient_status[p] \in PatientStatus /\ visit_attempts[p] \in Nat
      /\ patients_treated' = patients_treated /\ dismissed' = dismissed
      /\ doctor_pc' = doctor_pc
  BY DEF HospitalInv, RoomInv, TypeOK, PatientNext, patientFrame, clinicVars, doctorVars
<1>1. counted' = counted \ Admitted
  BY <1>0 DEF Remember
<1>2. /\ \A from, to : PatientGoes(p, from, to) => patient_pc[p] = from /\ patient_pc'[p] = to
      /\ \A s : SetPatientStatus(p, s) => patient_status'[p] = s
  BY <1>0 DEF TypeOK, PatientGoes, SetPatientStatus
<1>3. ASSUME NEW x \in Patient, x # p, patient_status'[x] = "GONE", patient_pc'[x] # "admitted"
      PROVE  Accounted(x)'
  <2>1. patient_pc'[x] = patient_pc[x] /\ patient_status'[x] = patient_status[x]
    BY <1>3, OthersUntouched
  <2>2. visit_attempts'[x] = visit_attempts[x]
    BY <1>0, <1>3 DEF TypeOK, PatientNext, PatientMoves, PatientChecks, PatientEnters, PatientRefused,
       PatientWalks, PatientQueues, PatientCounts, PatientLooks, PatientWakesDoctor,
       PatientWaits, PatientNaps, PatientSpins, PatientWaited
  <2>3. Accounted(x)
    BY <1>0, <1>3, <2>1 DEF TreatmentsCounted
  <2>4. x \notin Admitted
    BY <2>1 DEF Admitted
  <2>5. QED
    BY <1>0, <1>1, <2>2, <2>3, <2>4 DEF Accounted
<1>4. ASSUME patient_status'[p] = "GONE", patient_pc'[p] # "admitted"
      PROVE  Accounted(p)'
  <2>1. p \notin Admitted
    BY <1>4 DEF Admitted
  <2>2. ASSUME patient_status[p] = "GONE", patient_pc[p] # "admitted",
               visit_attempts'[p] = visit_attempts[p]
        PROVE  Accounted(p)'
    <3>1. Accounted(p)
      BY <1>0, <2>2 DEF TreatmentsCounted
    <3>2. QED
      BY <1>0, <1>1, <2>1, <2>2, <3>1 DEF Accounted
  <2>3. CASE PatientWalks(p)
    <3>1. visit_attempts'[p] > MAX_VISIT_RETRIES
      BY <1>2, <1>4, <2>3 DEF PatientWalks
    <3>2. QED
      BY <3>1 DEF Accounted
  <2>4. CASE PatientQueues(p)
    BY <1>2, <1>4, <2>4 DEF PatientQueues
  <2>5. CASE PatientSpins(p)
    <3>1. patient_pc[p] = "spin" /\ patient_status[p] = "GONE" /\ visit_attempts' = visit_attempts
      BY <1>0, <1>2, <2>5 DEF PatientSpins, PatientOK
    <3>2. QED
      BY <2>2, <3>1
  <2>6. CASE PatientEnters(p)
    BY <1>2, <1>4, <2>6 DEF PatientEnters
  <2>7. CASE /\ UNCHANGED <<patient_status, visit_attempts>>
             /\ \E from, to : from # "admitted" /\ PatientGoes(p, from, to)
    BY <1>2, <1>4, <2>2, <2>7
  <2>8. QED
    BY <2>3, <2>4, <2>5, <2>6, <2>7 
       DEF PatientNext, PatientMoves, PatientChecks, PatientRefused,
           PatientCounts, PatientLooks, PatientWakesDoctor, PatientWaits, PatientNaps,
           PatientWaited
<1>5. counted' \subseteq counted /\ counted' \subseteq Patient
  BY <1>0, <1>1 DEF TreatmentsCounted
<1>6. TREATED_CAP >= Cardinality(Patient) => Cardinality(counted') <= patients_treated'
  BY <1>0, <1>5, CounterCovers
<1>7. QED
  BY <1>0, <1>3, <1>4, <1>5, <1>6 DEF TreatmentsCounted

\* Only the end of a treatment, or giving up, makes a patient GONE.
LEMMA TreatmentsStep == 
    ASSUME HospitalInv, RoomInv, [Next]_vars
    PROVE  TreatmentsCounted'
<1>0. TreatmentsCounted /\ (Remember \/ UNCHANGED vars)
  BY DEF RoomInv, Next
<1>1. ASSUME UNCHANGED <<patient_pc, patient_status, visit_attempts, patients_treated, 
                         dismissed, doctor_pc>>
      PROVE  TreatmentsCounted'
  BY <1>0, <1>1, AccountsKept
<1>2. ASSUME NEW q \in Pharmacist, PharmacistNext(q)
      PROVE  TreatmentsCounted'
  BY <1>1, <1>2 DEF PharmacistNext, pharmacistFrame, patientVars, doctorVars
<1>3. CASE MainNext
  BY <1>1, <1>3 DEF MainNext, mainFrame, patientVars, doctorVars
<1>4. CASE UNCHANGED vars \/ \E t \in Threads : SpuriousWakeup(t)
  BY <1>1, <1>4 DEF vars, SpuriousWakeup, clinicVars, patientVars, doctorVars
<1>5. QED
  BY <1>2, <1>3, <1>4, DoctorKeepsAccounts, PatientKeepsAccounts DEF Next

-----------------------------------------------------------------------------
(***************************************************************************)
(* The waiting room and the doctor's rounds.                               *)
(***************************************************************************)
LEMMA PatientKeepsRoom == 
    ASSUME HospitalInv, RoomInv, [Next]_vars, NEW p \in Patient, PatientNext(p)
    PROVE  QueueInv' /\ BookedOnce' /\ RoundOK' /\ \A x \in Patient : PatientOK(x)'
<1>0. /\ QueueInv /\ BookedOnce /\ patients_to_treat \in Seq(Patient) /\ RoundOK
      /\ \A x \in Patient : PatientOK(x)
  BY DEF RoomInv, RoundOK
<1>1. /\ UNCHANGED <<doctor_pc, patients_to_treat>>
      /\ late \in Nat /\ late' \in Nat /\ Waiting \in Seq(Patient)
      /\ doctor_pc = "drain" => late' >= late /\ (Admitted # {} => late' = late + 1)
  BY <1>0, LatecomersStep, InvWaiting DEF PatientNext, patientFrame, doctorVars, HospitalInv
<1>2. CASE PatientEnters(p)
  <2>1. ~Booked(p) /\ queue_add(p)
    BY <1>0, <1>2, NotBooked DEF PatientEnters, PatientGoes
  <2>2. /\ QueueInv' /\ BookedOnce' /\ patients_to_treat' \in Seq(Patient) /\ Waiting' # <<>>
        /\ Len(Waiting') <= Len(Waiting) + 1
        /\ \A x \in Patient \ {p} : Booked(x)' => Booked(x)
    BY <1>0, <1>1, <2>1, EnteredRoom
  <2>3. RoundOK'
    <3>1. p \in Admitted
      BY <1>2 DEF PatientEnters, PatientGoes, Admitted, HospitalInv, TypeOK
    <3>2. Waiting' \in Seq(Patient) /\ Len(Waiting') \in Nat /\ Len(Waiting) \in Nat
      BY <1>1, <2>2, NextInvWaiting
    <3>3. doctor_pc = "drain" => Len(Waiting') - Len(Waiting) <= late' - late
      BY <1>1, <2>2, <3>1, <3>2
    <3>4. QED
      BY <1>0, <1>1, <2>2, <3>2, <3>3, RoundKept
  <2>4. PatientOK(p)'
    BY <1>0, <1>2, OwnStep
  <2>5. ASSUME NEW x \in Patient, x # p
        PROVE  PatientOK(x)'
    BY <1>0, <2>2, <2>5, OthersUntouched, PatientKept
  <2>6. QED
    BY <2>2, <2>3, <2>4, <2>5
<1>3. CASE ~PatientEnters(p)
  <2>1. RoomKept
    BY <1>3 DEF PatientNext, patientFrame, doctorVars, PatientMoves, PatientChecks, PatientRefused,
       PatientWalks, PatientQueues, PatientCounts, PatientLooks, PatientWakesDoctor,
       PatientWaits, PatientNaps, PatientSpins, PatientWaited, RoomKept, queue_add_refused
  <2>2. /\ QueueInv' /\ BookedOnce' /\ patients_to_treat' \in Seq(Patient) /\ Waiting' = Waiting
        /\ \A x : Booked(x)' <=> Booked(x)
    BY <1>0, <2>1, KeptRoom
  <2>3. RoundOK'
    <3>1. doctor_pc = "drain" => Len(Waiting') - Len(Waiting) <= late' - late
      <4>1. Len(Waiting') = Len(Waiting)
        BY <2>2
      <4>2. Len(Waiting) \in Nat
        BY <1>1
      <4>3. late \in Nat /\ late' \in Nat /\ (doctor_pc = "drain" => late' >= late)
        BY <1>1
      <4>4. Len(Waiting') - Len(Waiting) = 0
        BY <4>1, <4>2
      <4>5. QED
        BY <4>3, <4>4
    <3>2. QED
      BY <1>0, <1>1, <2>2, <3>1, RoundKept
  <2>4. PatientOK(p)'
    BY <1>0, <2>2, OwnStep
  <2>5. ASSUME NEW x \in Patient, x # p
        PROVE  PatientOK(x)'
    BY <1>0, <2>2, <2>5, OthersUntouched, PatientKept
  <2>6. QED
    BY <2>2, <2>3, <2>4, <2>5
<1>4. QED
  BY <1>2, <1>3

LEMMA RoomInvStep == HospitalInv /\ RoomInv /\ [Next]_vars => RoomInv'
<1> SUFFICES ASSUME HospitalInv, RoomInv, [Next]_vars
             PROVE  RoomInv'
  OBVIOUS
<1>0. /\ QueueInv /\ BookedOnce /\ patients_to_treat \in Seq(Patient) /\ RoundOK
      /\ \A x \in Patient : PatientOK(x)
  BY DEF RoomInv, RoundOK
<1>1. TreatmentsCounted'
  BY TreatmentsStep
<1>2. CASE DoctorNext
  <2>1. QueueInv' /\ BookedOnce'
    <3>1. CASE DoctorDrains
      BY <1>0, <3>1, DrainedRoom
    <3>2. CASE DoctorEndsTreatment
      BY <1>0, <3>2, TreatedRoom DEF HospitalInv, TreatingSomebody, DoctorEndsTreatment, DoctorGoes
    <3>3. CASE RoomKept
      BY <1>0, <3>3, KeptRoom
    <3>4. QED
      BY <1>2, <3>1, <3>2, <3>3 
         DEF DoctorNext, DoctorCheck, DoctorSleep, DoctorAwakes, DoctorPolls,
             DoctorPollsMedicine, DoctorPollsQueue, DoctorDrained, DoctorLocksQueue,
             DoctorUsesMedicine, DoctorStartsTreatment, DoctorCounts, DoctorEndsRound,
             DoctorAcceptsPharmacy, DoctorRefills, RoomKept, roundVars,
             roundVarsButDoctorMutex, roundVarsButQueueMutex, roundVarsButMutexes
  <2>2. QED
    BY <1>1, <1>2, <2>1, DoctorKeepsRound, DoctorKeepsPatients DEF RoomInv
<1>3. ASSUME NEW p \in Patient, PatientNext(p)
      PROVE  RoomInv'
  BY <1>1, <1>3, PatientKeepsRoom DEF RoomInv
<1>4. ASSUME RoomKept, UNCHANGED <<doctor_pc, patient_pc, patient_status>>
      PROVE  RoomInv'
  <2>1. /\ QueueInv' /\ BookedOnce' /\ patients_to_treat' \in Seq(Patient) /\ Waiting' = Waiting
        /\ \A x : Booked(x)' <=> Booked(x)
    BY <1>0, <1>4, KeptRoom
  <2>2. RoundOK'
    <3>1. /\ Waiting \in Seq(Patient) /\ late \in Nat /\ late' \in Nat
          /\ doctor_pc = "drain" => late' >= late
      BY <1>0, <1>4, LatecomersStep, InvWaiting DEF HospitalInv
    <3>2. doctor_pc = "drain" => Len(Waiting') - Len(Waiting) <= late' - late
      <4>1. Len(Waiting') = Len(Waiting)
        BY <2>1
      <4>2. Len(Waiting) \in Nat
        BY <3>1
      <4>3. late \in Nat /\ late' \in Nat /\ (doctor_pc = "drain" => late' >= late)
        BY <3>1
      <4>4. Len(Waiting') - Len(Waiting) = 0
        BY <4>1, <4>2
      <4>5. QED
        BY <4>3, <4>4
    <3>3. QED
      BY <1>0, <1>4, <2>1, <3>1, <3>2, RoundKept DEF RoomKept
  <2>3. \A x \in Patient : PatientOK(x)'
    BY <1>0, <1>4, <2>1, PatientKept
  <2>4. QED
    BY <1>1, <2>1, <2>2, <2>3 DEF RoomInv
<1>5. ASSUME NEW q \in Pharmacist, PharmacistNext(q)
      PROVE  RoomInv'
  BY <1>4, <1>5 DEF PharmacistNext, pharmacistFrame, doctorVars, patientVars, RoomKept
<1>6. CASE MainNext
  BY <1>4, <1>6 DEF MainNext, mainFrame, doctorVars, patientVars, RoomKept
<1>7. CASE UNCHANGED vars \/ \E t \in Threads : SpuriousWakeup(t)
  BY <1>4, <1>7 DEF vars, SpuriousWakeup, doctorVars, patientVars, RoomKept
<1>8. QED
  BY <1>2, <1>3, <1>5, <1>6, <1>7 DEF Next

LEMMA RoomInvInit == Init => RoomInv
<1> SUFFICES ASSUME Init
             PROVE  RoomInv
  OBVIOUS
<1>1. QueueInv /\ Waiting = <<>>
  BY InitStep, EmptyIsEmpty DEF Init, queue_init, queue_is_empty
<1>2. patients_to_treat = <<>> /\ \A p : ~InArray(p, patients_to_treat)
  BY DEF Init, InArray
<1>3. BookedOnce
  BY <1>1, <1>2 DEF BookedOnce, NoRepeats
<1>4. RoundOK
  BY <1>2 DEF Init, RoundOK
<1>5. ASSUME NEW p \in Patient
      PROVE  PatientOK(p)
  <2>1. patient_pc[p] = "check"
    BY DEF Init
  <2>2. ~Booked(p)
    BY <1>1, <1>2 DEF Booked
  <2>3. QED
    BY <2>1, <2>2 DEF PatientOK
<1>6. TreatmentsCounted
  <2>1. /\ counted = {} /\ patients_treated = 0 /\ dismissed = NULL /\ doctor_pc = "check"
        /\ \A p \in Patient : patient_status[p] = "ARRIVING"
    BY DEF Init
  <2>2. Cardinality(counted) = 0
    BY <2>1, FS_EmptySet
  <2>3. QED
    BY <2>1, <2>2 DEF TreatmentsCounted
<1>7. QED
  BY <1>1, <1>3, <1>4, <1>5, <1>6 DEF RoomInv

LEMMA RoomInvariant == Spec => [](HospitalInv /\ RoomInv)
<1>1. Init => HospitalInv /\ RoomInv
  BY HospitalInvInit, RoomInvInit
<1>2. (HospitalInv /\ RoomInv) /\ [Next]_vars => (HospitalInv /\ RoomInv)'
  BY HospitalInvStep, RoomInvStep
<1>3. QED
  BY <1>1, <1>2, PTL DEF Spec

\* Nobody is in the waiting room twice, nor both there and in the doctor's
\* array, although patient.c:126 lets a patient who reads TREATMENT go back to
\* the door: the doctor holds queue->mutex while he treats.
THEOREM NobodyIsBookedTwice == Spec => []NoDoubleBooking
<1>1. ASSUME RoomInv
      PROVE  NoDoubleBooking
  <2>1. /\ Waiting \in Seq(Patient) /\ patients_to_treat \in Seq(Patient) /\ BookedOnce
    BY <1>1, InvWaiting DEF RoomInv, RoundOK
  <2>2. NoRepeats(Waiting \o patients_to_treat)
    BY <2>1, ConcatOnce DEF BookedOnce
  <2>3. QED
    BY <2>2 DEF NoRepeats, NoDoubleBooking
<1>2. QED
  BY <1>1, RoomInvariant, PTL

\* A round that the count of a full queue started (doctor.c:122) finds somebody
\* to treat and pops no empty slot (doctor.c:139), in a clinic with more than
\* two places: with one or two, an empty queue has the same count.
THEOREM RoundsAreForPatients == CLINIC_QUEUE_SIZE > 2 => (Spec => []RoundHasPatients)
<1> SUFFICES ASSUME CLINIC_QUEUE_SIZE > 2
             PROVE  Spec => []RoundHasPatients
  OBVIOUS
<1>1. ASSUME RoomInv
      PROVE  RoundHasPatients
  <2>1. patients_to_treat \in Seq(Patient)
    BY <1>1 DEF RoomInv, RoundOK
  <2>2. ~InArray(NULL, patients_to_treat)
    BY <2>1, QueueAssumption DEF InArray
  <2>3. QED
    BY <1>1, <2>2 DEF RoomInv, RoundOK, RoundHasPatients
<1>2. QED
  BY <1>1, RoomInvariant, PTL

\* The doctor writes behind patients_to_treat (doctor.c:140) only in a round that
\* two patients or more have entered since its count, in a clinic with more than
\* two places: the count stood for one patient less than the array has elements,
\* so that a single latecomer still fits.
THEOREM OverrunTakesTwoLatecomers == CLINIC_QUEUE_SIZE > 2 => (Spec => OverrunByLatecomers)
<1> SUFFICES ASSUME CLINIC_QUEUE_SIZE > 2
             PROVE  Spec => OverrunByLatecomers
  OBVIOUS
<1>1. ASSUME HospitalInv, RoomInv, [Next]_vars, ~smashed, smashed'
      PROVE  late >= 2
  <2>1. DoctorDrains
    BY <1>1, RoomSteps DEF RoomKept, DoctorEndsTreatment, PatientNext, patientFrame, doctorVars
  <2>2. doctor_pc = "drain" /\ Len(patients_to_treat) = CLINIC_QUEUE_SIZE
    BY <1>1, <2>1 DEF DoctorDrains, DoctorGoes
  <2>3. Waiting \in Seq(Patient) /\ Waiting # <<>>
    BY <1>1, <2>1, InvWaiting, PopStep DEF DoctorDrains, RoomInv
  <2>4. Len(Waiting) \in Nat /\ Len(Waiting) >= 1
    BY <2>3
  <2>5. late \in Nat /\ CLINIC_QUEUE_SIZE \in Nat
    BY <1>1, QueueAssumption DEF HospitalInv, TypeOK
  <2>6. Len(patients_to_treat) + Len(Waiting) <= CLINIC_QUEUE_SIZE - 1 + late
    BY <1>1, <2>2 DEF RoomInv, RoundOK
  <2>7. QED
    BY <2>2, <2>4, <2>5, <2>6
<1>2. (HospitalInv /\ RoomInv) /\ [Next]_vars => [~smashed /\ smashed' => late >= 2]_vars
  BY <1>1
<1>3. QED
  BY <1>2, RoomInvariant, PTL DEF Spec, OverrunByLatecomers

\* Whoever has left is accounted for: since his admission the doctor has counted
\* his treatment (doctor.c:63), or counts it next, or he was refused more than
\* MAX_VISIT_RETRIES times; and no counted patient is missing in the counter.
THEOREM NobodyLeavesUnaccounted == Spec => []EveryoneAccountedFor
<1>1. RoomInv => EveryoneAccountedFor
  BY DEF RoomInv, TreatmentsCounted, PatientOK, EveryoneAccountedFor
<1>2. QED
  BY <1>1, RoomInvariant, PTL

\* A room that nobody was popped from wraps around with a move of tail.
LEMMA WrapMovesTail == 
    ASSUME CLINIC_QUEUE_SIZE > 2, QueueInv, NEW p \in Patient, queue_add(p),
           head = 0, Len(Waiting) = IndexCycle
    PROVE  tail' # tail
<1>1. IndexCycle \in Nat /\ IndexCycle >= 2 /\ Limit(0) = IndexCycle /\ 0 \in Slots
  BY CycleFacts, QueueAssumption DEF Limit, Slots
<1>2. tail = At(0, IndexCycle) /\ tail' = Advance(tail)
  BY InvWaiting DEF Holds, queue_add
<1>3. At(0, IndexCycle) \in Slots
  BY <1>1, AtInSlots
<1>4. Advance(tail) = At(At(0, IndexCycle), 1)
  BY <1>2, <1>3, AtNext
<1>5. At(At(0, IndexCycle), 1) = At(0, IndexCycle + 1)
  BY <1>1, AtAt
<1>6. At(0, 1) # At(0, IndexCycle)
  <2>1. IndexCycle \in 0 .. Limit(0) /\ 1 \in 0 .. IndexCycle - 1
    BY <1>1
  <2>2. QED
    BY <1>1, <2>1, AtDistinct
<1>7. QED
  BY <1>2, <1>4, <1>5, <1>6, AtCycle

\* A patient gets lost only by an admission while the queue wraps around,
\* because nobody has been popped yet (queue.c:43), or when patient.c:112
\* overwrites the GONE of a treatment that was quicker than he: no pop, no
\* round of the doctor and no other step of a patient loses anybody.  In a
\* clinic with one or two places a wrap does not move tail.
THEOREM TwoWaysToGetLost == CLINIC_QUEUE_SIZE > 2 => (Spec => LostInTwoWays)
<1> SUFFICES ASSUME CLINIC_QUEUE_SIZE > 2
             PROVE  Spec => LostInTwoWays
  OBVIOUS
<1> DEFINE Known(x) == \/ head = 0 /\ tail' # tail
                       \/ patient_pc[x] = "admitted" /\ patient_status[x] = "GONE"
<1>1. ASSUME HospitalInv, RoomInv, [Next]_vars, NEW x \in Patient, ~Lost(x), Lost(x)'
      PROVE  Known(x)
  <2>0. /\ QueueInv /\ BookedOnce /\ patients_to_treat \in Seq(Patient) /\ TypeOK
        /\ TreatmentIsByDoctor /\ TreatingSomebody /\ \A p \in Patient : PatientOK(p)
        /\ patient_status \in [Patient -> PatientStatus]
    BY <1>1 DEF RoomInv, RoundOK, HospitalInv, TypeOK
  <2>1. ASSUME patient_pc'[x] = patient_pc[x], patient_status'[x] = patient_status[x],
               Booked(x) => Booked(x)'
        PROVE  FALSE
    BY <1>1, <2>1 DEF Lost
  <2>2. CASE RoomKept /\ UNCHANGED <<patient_pc, patient_status>>
    BY <2>0, <2>1, <2>2, KeptRoom
  <2>3. CASE DoctorNext
    <3>0. patient_pc' = patient_pc
      BY <2>3 DEF DoctorNext, doctorFrame
    <3>1. CASE DoctorDrains
      BY <2>0, <2>1, <3>0, <3>1, DrainedRoom DEF DoctorDrains
    <3>2. CASE DoctorStartsTreatment
      <4>1. RoomKept /\ patient_status' = [patient_status EXCEPT ![Head(patients_to_treat)] = "TREATMENT"]
        BY <3>2 DEF DoctorStartsTreatment, SetPatientStatus, RoomKept
      <4>2. x # Head(patients_to_treat)
        BY <1>1, <2>0, <4>1 DEF Lost
      <4>3. QED
        BY <2>0, <2>1, <3>0, <4>1, <4>2, KeptRoom
    <3>3. CASE DoctorEndsTreatment
      <4>1. patient_status' = [patient_status EXCEPT ![Head(patients_to_treat)] = "GONE"]
        BY <3>3 DEF DoctorEndsTreatment, SetPatientStatus
      <4>2. x # Head(patients_to_treat)
        BY <1>1, <2>0, <4>1 DEF Lost
      <4>3. Booked(x) => Booked(x)'
        BY <2>0, <3>3, <4>2, TreatedRoom DEF TreatingSomebody, DoctorEndsTreatment, DoctorGoes
      <4>4. QED
        BY <2>0, <2>1, <3>0, <4>1, <4>2, <4>3
    <3>4. QED
      BY <2>2, <2>3, <3>0, <3>1, <3>2, <3>3 
         DEF DoctorNext, DoctorCheck, DoctorSleep, DoctorAwakes, DoctorPolls,
             DoctorPollsMedicine, DoctorPollsQueue, DoctorDrained, DoctorLocksQueue,
             DoctorUsesMedicine, DoctorCounts, DoctorEndsRound, DoctorAcceptsPharmacy, DoctorRefills,
             RoomKept, roundVars, roundVarsButDoctorMutex, roundVarsButQueueMutex,
             roundVarsButMutexes
  <2>4. ASSUME NEW p \in Patient, PatientNext(p)
        PROVE  Known(x)
    <3>0. UNCHANGED patients_to_treat
      BY <2>4 DEF PatientNext, patientFrame, doctorVars
    <3>1. CASE PatientEnters(p)
      <4>1. queue_add(p) /\ ~Booked(p) /\ patient_pc[p] = "enter"
        BY <2>0, <1>1, <3>1, NotBooked DEF PatientEnters, PatientGoes
      <4>2. CASE head = 0 /\ Len(Waiting) = IndexCycle
        BY <2>0, <4>1, <4>2, WrapMovesTail
      <4>3. CASE \A y : Booked(y)' <=> Booked(y) \/ y = p
        <5>1. x # p
          BY <1>1, <4>3 DEF Lost
        <5>2. QED
          BY <1>1, <2>1, <2>4, <4>3, <5>1, OthersUntouched
      <4>4. QED
        BY <2>0, <3>0, <4>1, <4>2, <4>3, EnteredRoom
    <3>2. CASE RoomKept /\ ~PatientEnters(p)
      <4>1. Booked(x)' <=> Booked(x)
        BY <2>0, <3>2, KeptRoom
      <4>2. x = p
        BY <1>1, <2>1, <2>4, <4>1, OthersUntouched
      <4> HIDE DEF Booked
      <4>3. CASE PatientQueues(p)
        <5>1. patient_pc[x] = "admitted"
          BY <4>2, <4>3 DEF PatientQueues, PatientGoes
        <5>2. ~Booked(x)
          BY <1>1, <4>1 DEF Lost
        <5>3. patient_status[x] # "TREATMENT"
          <6>1. patients_to_treat # <<>> => InArray(Head(patients_to_treat), patients_to_treat)
            BY <2>0, TailOnce
          <6>2. QED
            BY <2>0, <5>2, <6>1 DEF TreatmentIsByDoctor, Booked
        <5>4. QED
          BY <1>1, <5>1, <5>2, <5>3 DEF Lost
      <4>4. CASE PatientWalks(p)
        BY <1>1, <4>2, <4>4, <2>0 DEF PatientWalks, PatientGoes, Lost, TypeOK
      <4>5. CASE PatientSpins(p)
        BY <1>1, <4>2, <4>5, <2>0 DEF PatientSpins, PatientGoes, Lost, TypeOK
      <4>6. CASE /\ patient_status' = patient_status
                 /\ \E from, to : /\ PatientGoes(p, from, to)
                                  /\ \/ from \in {"count", "look", "wake", "wait", "nap"}
                                     \/ to \in {"enter", "refused", "check", "done"}
        BY <1>1, <4>1, <4>2, <4>6, <2>0 DEF PatientGoes, Lost, TypeOK
      <4>7. QED
        BY <2>4, <3>2, <4>3, <4>4, <4>5, <4>6 
           DEF PatientNext, PatientMoves, PatientChecks, PatientRefused, PatientCounts,
               PatientLooks, PatientWakesDoctor, PatientWaits, PatientNaps, PatientWaited
    <3>3. RoomKept \/ PatientEnters(p)
      BY <2>4 DEF PatientNext, patientFrame, doctorVars, PatientMoves, PatientChecks, PatientRefused,
         PatientWalks, PatientQueues, PatientCounts, PatientLooks, PatientWakesDoctor,
         PatientWaits, PatientNaps, PatientSpins, PatientWaited, RoomKept, queue_add_refused
    <3>4. QED
      BY <3>1, <3>2, <3>3
  <2>5. ASSUME NEW q \in Pharmacist, PharmacistNext(q)
        PROVE  Known(x)
    BY <2>2, <2>5 DEF PharmacistNext, pharmacistFrame, doctorVars, patientVars, RoomKept
  <2>6. CASE MainNext
    BY <2>2, <2>6 DEF MainNext, mainFrame, doctorVars, patientVars, RoomKept
  <2>7. CASE UNCHANGED vars \/ \E t \in Threads : SpuriousWakeup(t)
    BY <2>2, <2>7 DEF vars, SpuriousWakeup, doctorVars, patientVars, RoomKept
  <2>8. QED
    BY <1>1, <2>3, <2>4, <2>5, <2>6, <2>7 DEF Next
<1>2. (HospitalInv /\ RoomInv) /\ [Next]_vars 
        => [\A p \in Patient : ~Lost(p) /\ Lost(p)' 
              => \/ head = 0 /\ tail' # tail
                 \/ patient_pc[p] = "admitted" /\ patient_status[p] = "GONE"]_vars
  BY <1>1
<1>3. QED
  BY <1>2, RoomInvariant, PTL DEF Spec, LostInTwoWays

-----------------------------------------------------------------------------
(***************************************************************************)
(* The queue within the hospital.                                          *)
(***************************************************************************)
\* The doctor pops, the patients add; nobody clears the queue, or pops an empty
\* one, while there is somebody who uses it.
QueueUse == queue_pop \/ \E p \in Patient : queue_add(p)

LEMMA UseIsOfQueue == QueueUse => QueueNext
BY DEF QueueUse, QueueNext

\* Whatever the threads do, all that happens to the queue is that patients are
\* added and popped, one call after the other: doctor.c:139, patient.c:84.
THEOREM QueueIsAddedToAndPopped == Spec => queue_init /\ [][QueueUse]_queueVars
<1>1. Init => queue_init
  BY DEF Init
<1>2. ASSUME [Next]_vars
      PROVE  [QueueUse]_queueVars
  BY <1>2, RoomSteps DEF QueueUse, RoomKept, DoctorDrains, DoctorEndsTreatment, PatientEnters, 
     roundVarsButMutexes, queueVars
<1>3. QED
  BY <1>1, <1>2, PTL DEF Spec

\* So what is proved of the queue alone holds of it in the hospital: it is the
\* waiting room of which the doctor and the patients are users, its indices stay
\* inside its array, and the count that they compare to CLINIC_QUEUE_SIZE without
\* the lock, or with it, is that of a full queue.
THEOREM QueueKeepsItsPromises == 
    Spec => ImplementsWaitingRoom /\ [](QueueTypeOK /\ CountOfWaiting /\ FullIsCounted)
<1>1. Spec => QueueSpec
  <2>1. [QueueUse]_queueVars => [QueueNext]_queueVars
    BY UseIsOfQueue
  <2>2. QED
    BY <2>1, QueueIsAddedToAndPopped, PTL DEF QueueSpec
<1>2. QED
  BY <1>1, IndicesInBounds, CountIsOfWaiting, WakingCountIsFull, QueueImplementsWaitingRoom, PTL

\* From the first patient popped to the end nobody who is waiting is lost or
\* overtaken: a step appends one patient, takes the first, or leaves the room alone.
THEOREM FifoOnceServed == 
    Spec => [][head # 0 => /\ head' # 0
                           /\ \/ Waiting' = Waiting 
                              \/ Waiting # <<>> /\ Waiting' = Tail(Waiting)
                              \/ \E p \in Patient : Waiting' = Append(Waiting, p)]_queueVars
<1>1. ASSUME QueueInv, [QueueUse]_queueVars, head # 0
      PROVE  /\ head' # 0
             /\ \/ Waiting' = Waiting 
                \/ Waiting # <<>> /\ Waiting' = Tail(Waiting)
                \/ \E p \in Patient : Waiting' = Append(Waiting, p)
  <2>1. CASE queue_pop
    <3>1. head' # 0
      BY <1>1, <2>1, ModRange, QueueAssumption DEF queue_pop, Advance, QueueInv, QueueTypeOK, Slots
    <3>2. QED
      BY <1>1, <2>1, <3>1, PopStep
  <2>2. ASSUME NEW p \in Patient, queue_add(p)
        PROVE  head' = head /\ Waiting' = Append(Waiting, p)
    BY <1>1, <2>2, AddStep DEF queue_add
  <2>3. CASE UNCHANGED queueVars
    BY <1>1, <2>3, StutterStep DEF queueVars
  <2>4. QED
    BY <1>1, <2>1, <2>2, <2>3 DEF QueueUse
<1>2. Spec => []QueueInv
  <2>1. [QueueUse]_queueVars => [QueueNext]_queueVars
    BY UseIsOfQueue
  <2>2. QED
    BY <2>1, QueueIsAddedToAndPopped, QueueInvariant, PTL DEF QueueSpec
<1>3. QueueInv /\ [QueueUse]_queueVars => 
        [head # 0 => /\ head' # 0
                     /\ \/ Waiting' = Waiting 
                        \/ Waiting # <<>> /\ Waiting' = Tail(Waiting)
                        \/ \E p \in Patient : Waiting' = Append(Waiting, p)]_queueVars
  BY <1>1
<1>4. QED
  BY <1>2, <1>3, QueueIsAddedToAndPopped, PTL
=============================================================================
