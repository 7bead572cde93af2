SPECIFICATION FairSpec
CONSTANTS
    Goroutines = {g1, g2}
    Nobody = Nobody
    Sides = {"read", "write"}
    Deadlines = {"past", "future"}
    MaxRequests = 2
    MaxSets = 1
    Closable = TRUE
INVARIANTS
    OwnResult
    EventAwaited
PROPERTIES
    
    SetterInterrupts
CHECK_DEADLOCK FALSE
