\* Liveness.
SPECIFICATION FairSpec
CONSTANTS
    CLINIC_QUEUE_SIZE = 3
    Patient = {p1, p2}
    Pharmacist = {f1}
    Doctor = Doctor
    Main = Main
    NULL = NULL
    MEDICINE_CABINET_CAPACITY = 6
    MIN_MEDICINE_REQUIRED = 3
    MAX_VISIT_RETRIES = 0
    TREATED_CAP = 1
    WAITING_CAP = 1
    SpuriousWakeups = FALSE
PROPERTIES
    TreatmentEnds
    ShutdownCompletes
CHECK_DEADLOCK FALSE
