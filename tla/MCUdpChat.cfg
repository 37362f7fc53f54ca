\* One client with its ways to leave and a signal on either thread, and the server.
SPECIFICATION ChatSpec
CONSTANTS
    a1 = a1
    a2 = a2
    alice = alice
    bob = bob
    Addr = {a1}
    Id = {alice}
    NoId = NoId
    Invalid = {}
    Lossy = FALSE
    NET_CAP = 0
    MAX_CLIENTS = 1
    KEEPALIVE_INTERVAL = 1
    MAX_INACTIVE_COUNT = 2
    SignalTo = {}
    NULL = NULL
    ClientId <- MCClientId
    Commands = {"quit", "EOF", "2one", "help"}
    Signalled = {"main", "receive"}
PROPERTIES
    EofIsNoticed
    QuitterMayHang
CHECK_DEADLOCK FALSE
