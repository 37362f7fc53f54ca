\* Two slots, two identifiers and one that is refused, from one address;
\* a signal hits either thread at any time.
SPECIFICATION Spec
CONSTANTS
    Addr = {a1}
    Id = {alice, bob, digit}
    NoId = NoId
    Invalid = {digit}
    Lossy = TRUE
    NET_CAP = 1
    MAX_CLIENTS = 2
    KEEPALIVE_INTERVAL = 1
    MAX_INACTIVE_COUNT = 2
    SignalTo = {"main", "keepalive"}
    NULL = NULL
    Sent = {"LIST", "2ALL", "2ONE", "STOP", "ALIVE_RESPONSE"}
INVARIANTS
    OneSlotEach
    StuckInKnownWays
PROPERTY
    LeavingDeafens
CHECK_DEADLOCK FALSE
