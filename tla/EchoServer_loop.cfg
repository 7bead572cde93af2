SPECIFICATION FairSpec
CONSTANTS
    Server = srv
    Fds = {f1, f2}
    Limits = {1, 2}
    MaxDials = 2
    MaxBytes = 2
    MaxMsgLen = 2
    Backlog = 2
    ShortSends = FALSE
INVARIANTS
    OneOperation
    EchoesInOrder
PROPERTIES
    Echoed
CHECK_DEADLOCK FALSE
