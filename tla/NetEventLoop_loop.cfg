SPECIFICATION FairSpec
CONSTANTS
    Clients = {c1}
    MaxNonce = 2
    MaxCancels = 1
    SQEntries = 2
    BatchSize = 2
    BusCap = 1
INVARIANTS
    RequestHasCallback
    NoSendOnClosed
PROPERTIES
    Served
    RunReturns
CHECK_DEADLOCK FALSE
