\* Two clients fill a ring of two slots, which two printers empty.
SPECIFICATION FairSpec
CONSTANTS
    Clients = {"c1", "c2"}
    Printers = {"p1", "p2"}
    MAX_MESSAGES = 2
    MAX_JOBS = 4
    MAX_PRINTS = 4
INVARIANTS
    FifoUnlessDisturbed
    EmptyOrFull
PROPERTIES
    JobsArePrinted
CONSTRAINT NotYetDisturbed
CHECK_DEADLOCK FALSE
