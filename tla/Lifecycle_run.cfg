SPECIFICATION FairLifeSpec
CONSTANTS
    MaxCount = 6
INVARIANTS
    PoolsShared
    CloseReleases
    UnmapsOnce
    RingsOutliveLoops

    
CHECK_DEADLOCK FALSE
