\* Four patients wrap the queue around; no pharmacist arrives in time.
SPECIFICATION Spec
CONSTANTS
    CLINIC_QUEUE_SIZE = 3
    Patient = {p1, p2, p3, p4}
    Pharmacist = {}
    Doctor = Doctor
    Main = Main
    NULL = NULL
    MEDICINE_CABINET_CAPACITY = 6
    MIN_MEDICINE_REQUIRED = 3
    MAX_VISIT_RETRIES = 0
    TREATED_CAP = 4
    WAITING_CAP = 1
    SpuriousWakeups = FALSE
SYMMETRY Symmetry
CONSTRAINT StatusUnread
INVARIANTS
    TreatmentIsByDoctor
    NoDoubleBooking
    RoundHasPatients
    EveryoneAccountedFor
PROPERTIES
    LostInTwoWays
    OverrunByLatecomers
CHECK_DEADLOCK FALSE
