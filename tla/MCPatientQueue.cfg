SPECIFICATION QueueSpec
CONSTANTS
    CLINIC_QUEUE_SIZE = 3
    Patient = {p1, p2, p3}
    NULL = NULL
INVARIANTS
    QueueTypeOK
    CountOfWaiting
    FullIsCounted
PROPERTIES
    ImplementsWaitingRoom
