\* Two connections, under one name or two, every type of message and a signal at any time.
SPECIFICATION Spec
CONSTANTS
    c1 = c1
    c2 = c2
    alice = alice
    bob = bob
    Conn = {c1, c2}
    digit = digit
    Id = {alice, bob, digit}
    Invalid = {digit}
    NoName = NoName
    NULL = NULL
    MAX_CLIENTS = 2
    MAX_INACTIVE_COUNT = 2
    Sent = {"LIST", "2ALL", "2ONE", "STOP", "ALIVE_RESPONSE"}
    Signals = TRUE
    STREAM_CAP = 1
SYMMETRY Symmetry
INVARIANTS
    TableAgrees
    StuckInKnownWays
PROPERTY
    WhoActs
CHECK_DEADLOCK FALSE
