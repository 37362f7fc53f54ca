\* Three producers and three consumers overtake each other in a ring of two.
SPECIFICATION FairSpec
CONSTANTS
    Producer = {p1, p2, p3}
    Consumer = {c1, c2, c3}
    MaxItems = 2
    BufferSize = 2
    NoItem = NoItem
INVARIANTS
    SlotsConserved
PROPERTIES
    ImplementsFifo
    AllDone
