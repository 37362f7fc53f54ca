\* Two patients, two pharmacists: locks, signals and medicine.
SPECIFICATION Spec
CONSTANTS
    CLINIC_QUEUE_SIZE = 3
    Patient = {p1, p2}
    Pharmacist = {f1, f2}
    Doctor = Doctor
    Main = Main
    NULL = NULL
    MEDICINE_CABINET_CAPACITY = 6
    MIN_MEDICINE_REQUIRED = 3
    MAX_VISIT_RETRIES = 1
    TREATED_CAP = 1
    WAITING_CAP = 1
    SpuriousWakeups = TRUE
SYMMETRY Symmetry
INVARIANTS
    MedicineInCabinet
    OnlyOneDeadlock
PROPERTIES
    StarvingForever
CHECK_DEADLOCK FALSE
