\* The buffer and the twenty items of the code.
SPECIFICATION FairSpec
CONSTANTS
    BUF_SIZE = 3
    ITEMS = 20
INVARIANTS
    NobodyWaitsInVain
    CountersAgree
PROPERTIES
    ImplementsFifo
    AllDone
