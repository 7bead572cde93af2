SPECIFICATION FairSpec
CONSTANTS
    Clients = {c1}
    MaxNonce = 2
    MaxCancels = 1
    SQEntries = 2
    BatchSize = 2
INVARIANTS
    NoLostSubmit
    CallbackPresent
    NoSendOnClosed
PROPERTIES
    Served
    QueueReturns
    RunReturns
CHECK_DEADLOCK FALSE
