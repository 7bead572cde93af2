SPECIFICATION Spec
CONSTANTS
    Ops = {a, b}
    ZeroSQE = zero
    Modulus = 8
    Entries = 4
    SQPoll = FALSE
    MovAtomics = TRUE
SYMMETRY OpSymmetry
INVARIANTS
    IndexOrder
PROPERTIES
    PublishedStable
