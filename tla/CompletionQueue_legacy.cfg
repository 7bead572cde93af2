SPECIFICATION FairTimerSpec
CONSTANTS
    Requests = {r1}
    Timers = {t1, t2}
    NoRequest = none
    Modulus = 4
    Entries = 2
    SQEntries = 1
    ExtArg = FALSE
    Calls = {"Wait", "WaitTimeout"}
    MaxWait = 1
    BatchSize = 2
PROPERTIES
    
    EventuallyRead
