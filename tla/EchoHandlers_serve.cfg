SPECIFICATION FairServerSpec
CONSTANTS
    Acceptors = {a1, a2}
    Peers = {p1, p2}
    NoPeer = NoPeer
    Closable = TRUE
    MaxConns = 2
    MaxMsgs = 2
INVARIANTS
    OneEventPerAccept
    ConnectionsConserved
    EchoesOwn

    
CHECK_DEADLOCK FALSE
