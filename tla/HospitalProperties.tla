-------------------------- MODULE HospitalProperties --------------------------
(***************************************************************************)
(* What is claimed of the hospital of src/lab9, on top of its types.       *)
(***************************************************************************)
EXTENDS Hospital

-----------------------------------------------------------------------------
(***************************************************************************)
(* Safety.                                                                 *)
(***************************************************************************)
InArray(p, seq) == \E i \in DOMAIN seq : seq[i] = p

\* A patient waits to be popped or has been popped and not yet treated.
Booked(p) == InArray(p, patients_to_treat) \/ InArray(p, Waiting)

DoctorPolling == doctor_pc \in {"poll", "pollMedicine", "pollQueue"}

\* The doctor polls holding doctor->mutex and needs medicine_mutex, a
\* pharmacist holds medicine_mutex and needs doctor->mutex.
LockInversion == 
    /\ doctor_pc = "pollMedicine"
    /\ \E q \in Pharmacist : pharmacist_pc[q] = "wakeDoctor"

CabinetOK == 
    /\ medicine_count \in 0 .. MEDICINE_CABINET_CAPACITY
    /\ doctor_pc \in {"drain", "lockQueue", "useMedicine"} 
         => medicine_count >= MIN_MEDICINE_REQUIRED

\* Beside the types: the medicine the doctor checked while polling (doctor.c:122)
\* is still there when he uses it (doctor.c:151), although both mutexes were free
\* in between; the cabinet never holds less than nothing nor more than its capacity.
MedicineInCabinet == TypeOK /\ CabinetOK

\* A status TREATMENT is never left over, whatever the patient's thread writes
\* to its own status meanwhile: it is that of the patient the doctor treats,
\* so that the busy loop of patient.c:130 waits for somebody.
TreatmentIsByDoctor == 
    \A p \in Patient : patient_status[p] = "TREATMENT" 
        => /\ doctor_pc = "treating"
           /\ patients_to_treat # <<>>
           /\ Head(patients_to_treat) = p

\* Nobody is booked twice, in the queue or in the doctor's array, although a
\* patient may go back to the door while he is treated (patient.c:126, 136):
\* the doctor holds queue->mutex until the last treatment has ended.
NoDoubleBooking == 
    LET booked == Waiting \o patients_to_treat
    IN  \A i, j \in DOMAIN booked : i # j => booked[i] # booked[j]

\* A count of CLINIC_QUEUE_SIZE read under the lock is enough for the unlocked
\* loop of doctor.c:139 to find somebody, and it pops no empty slot: medicine
\* is not used up for nobody.
RoundHasPatients == 
    doctor_pc = "lockQueue" => patients_to_treat # <<>> /\ ~InArray(NULL, patients_to_treat)

\* Since the patient was last admitted the doctor has counted his treatment
\* (doctor.c:63), or has just dismissed him to count him next, or he has given up.
Accounted(p) == 
    p \in counted \/ p = dismissed \/ visit_attempts[p] > MAX_VISIT_RETRIES

\* Every patient who has left is accounted for, himself and not by the second
\* treatment of another: with the doctor between doctor.c:62 and 63 at most one
\* of them is not yet counted.  And patients_treated, which main prints, covers
\* every patient who was counted.
EveryoneAccountedFor == 
    /\ \A p \in Patient : patient_pc[p] = "done" => Accounted(p)
    /\ TREATED_CAP >= Cardinality(Patient) => Cardinality(counted) <= patients_treated

\* The owner of the mutex that a thread's next action locks.
OwnerWaitedFor(t) == 
    IF t = Doctor THEN
        CASE doctor_pc = "lock" \/ (doctor_pc = "asleep" /\ Doctor \notin condition) -> doctor_mutex
          [] doctor_pc \in {"pollMedicine", "useMedicine", "refill"} -> medicine_mutex
          [] doctor_pc \in {"pollQueue", "drain", "lockQueue"} -> queue_mutex
          [] OTHER -> NULL
    ELSE IF t = Main THEN
        CASE main_pc \in {"setDone1", "setDone2", "broadcast1", "broadcast2"} -> medicine_mutex
          [] main_pc \in {"signal1", "signal2"} -> doctor_mutex
          [] OTHER -> NULL
    ELSE IF t \in Patient THEN
        CASE patient_pc[t] \in {"enter", "count"} -> queue_mutex
          [] patient_pc[t] = "wake" -> doctor_mutex
          [] OTHER -> NULL
    ELSE
        CASE pharmacist_pc[t] \in {"arrive", "poll", "deliver", "handOver"} -> medicine_mutex
          [] pharmacist_pc[t] = "await" /\ t \notin condition -> medicine_mutex
          [] pharmacist_pc[t] = "wakeDoctor" -> doctor_mutex
          [] OTHER -> NULL

\* Three mutexes are locked in different orders by four kinds of threads, but
\* the only circular wait is that of the polling doctor and a pharmacist
\* (doctor.c:115, pharmacist.c:87).
OnlyOneDeadlock == 
    (\E T \in (SUBSET Threads) \ {{}} : \A t \in T : OwnerWaitedFor(t) \in T) => LockInversion

-----------------------------------------------------------------------------
(***************************************************************************)
(* Action properties.                                                      *)
(***************************************************************************)

\* The loop of doctor.c:139 also pops whoever enters while it runs, but it writes
\* behind patients_to_treat only after two patients or more have: the count that
\* began the round stood for one patient less than the array has elements, and
\* nobody is popped twice.
OverrunByLatecomers == [][~smashed /\ smashed' => late >= 2]_vars

\* The doctor polls an empty cabinet and no pharmacist has got past him.
Starving == 
    /\ DoctorPolling
    /\ medicine_count < MIN_MEDICINE_REQUIRED
    /\ \/ waiting_pharmacists = 0
       \/ /\ \E q \in Pharmacist : pharmacist_pc[q] = "wakeDoctor"
          /\ doctor_pc = "pollQueue" => pharm_waiting = 0

\* If the doctor is woken with an empty cabinet before any pharmacist has come
\* he polls as long as there are patients, keeping doctor->mutex, and the first
\* pharmacist to come deadlocks with him: nothing else ends the state.
StarvingForever == [][Starving /\ ~all_patients_done => Starving']_vars

\* The patient waits for a treatment that nobody will give him.
Lost(p) == 
    /\ patient_pc[p] \in {"admitted", "count", "look", "wake", "wait", "nap"}
    /\ patient_status[p] \notin {"TREATMENT", "GONE"}
    /\ ~Booked(p)

\* There are two ways to get lost, and popping is none of them: somebody enters
\* while the queue wraps around because nobody has been popped yet (head = 0),
\* or patient.c:112 overwrites the doctor's GONE.
LostInTwoWays == 
    [][\A p \in Patient : ~Lost(p) /\ Lost(p)' 
         => \/ head = 0 /\ tail' # tail
            \/ patient_pc[p] = "admitted" /\ patient_status[p] = "GONE"]_vars

-----------------------------------------------------------------------------
(***************************************************************************)
(* The inductive invariant behind the safety properties that are proved.   *)
(***************************************************************************)

\* Who owns a mutex follows from where the threads are.
LockOwners == 
    /\ doctor_mutex = Doctor <=> DoctorPolling
    /\ queue_mutex = Doctor <=> doctor_pc \in {"useMedicine", "treat", "treating", "counting"}
    /\ \A q \in Pharmacist : medicine_mutex = q <=> pharmacist_pc[q] = "wakeDoctor"

\* The numbers the doctor has read are the current ones as far as it matters.
ReadingsHold == doctor_pc = "pollQueue" => 
    /\ med_count = medicine_count
    /\ pharm_waiting > 0 => waiting_pharmacists > 0

TreatingSomebody == doctor_pc = "treating" => patients_to_treat # <<>>

\* Types, locks, and what the doctor knows: inductive as a whole.
HospitalInv == 
    /\ TypeOK
    /\ TreatingSomebody
    /\ LockOwners
    /\ ReadingsHold
    /\ CabinetOK
    /\ TreatmentIsByDoctor

-----------------------------------------------------------------------------
(***************************************************************************)
(* Liveness.                                                               *)
(***************************************************************************)

\* A patient who saw his treatment begin leaves.
TreatmentEnds == \A p \in Patient : patient_pc[p] = "spin" ~> patient_pc[p] = "done"

\* Once every patient has left, main ends the doctor wherever he is: asleep,
\* polling, or about to sleep.  Only the lock inversion, or a smashed stack,
\* keeps main from returning.
ShutdownCompletes == 
    (\A p \in Patient : patient_pc[p] = "done") ~> (~Running \/ LockInversion)
=============================================================================
