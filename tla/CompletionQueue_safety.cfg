SPECIFICATION Spec
CONSTANTS
    Requests = {r1, r2, r3}
    Timers = {}
    NoRequest = none
    Modulus = 4
    Entries = 2
    SQEntries = 2
    ExtArg = TRUE
    Calls = {"Wait", "WaitTimeout", "SubmitAndWait"}
    MaxWait = 2
    BatchSize = 3
SYMMETRY RequestSymmetry

    
PROPERTIES
    EventFIFO
    HeldStable
