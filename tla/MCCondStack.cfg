\* The code has a stack of 10 and 20 values: the contents of the stack depend on
\* the interleaving, so that the instance is smaller.  The producer blocks on
\* the full stack, several times over, and the consumer on the empty one.
SPECIFICATION FairSpec
CONSTANTS
    BUFFER_SIZE = 4
    VALUE_COUNT = 12
    NULL = NULL
INVARIANTS
    SumConserved
    NothingFails
PROPERTIES
    AllGraded
