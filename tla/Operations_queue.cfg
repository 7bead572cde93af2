SPECIFICATION Spec
CONSTANTS
    Ops = {o1, o2}
    Kinds = {"Nop", "ReadV", "WriteV", "Timeout", "Accept", "Cancel", "LinkTimeout", "Recv", "Send", "ProvideBuffers", "Close", "Read", "Write", "Connect"}
    Buffers = {b1, b2}
    Entries = 2
    MaxCalls = 3
    AddrSizes = {1}
    KeepsOps = TRUE
SYMMETRY ObjectSymmetry
INVARIANTS
    SQEAsAsked
    MemoryLive
    
CHECK_DEADLOCK FALSE
