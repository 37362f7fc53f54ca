\* A signal on either thread of the client and a stop of the server, or an orphan;
\* what 2all and 2one send is to this client like its answers to pings.
SPECIFICATION Spec
CONSTANTS
    Commands = {"help", "list", "quit", "EOF"}
    Signalled = {"main", "receive"}
    Orphans = {"orphan"}
    MAX_INACTIVE_COUNT = 2
    STREAM_CAP = 1
CONSTRAINT OneTrouble
PROPERTIES
    QuitterExits
    LeaverExits
    EndIsNoticed
CHECK_DEADLOCK FALSE
