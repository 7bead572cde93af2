SPECIFICATION FairSpec
CONSTANTS
    Ops = {a, b}
    ZeroSQE = zero
    Modulus = 8
    Entries = 4
    SQPoll = TRUE
    MovAtomics = FALSE
INVARIANTS
    NoLostWakeup
PROPERTIES
    FIFO
    EventuallyTaken
