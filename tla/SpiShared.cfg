SPECIFICATION FairSpec
CONSTANTS
    t1 = t1
    t2 = t2
    Nobody = Nobody
    Threads = {t1, t2}
    Readers = {t1}
    Kinds = {"event", "raw", "register", "status"}
    NumBuffer = 2
    NumChan = 2
    MaxXfers = 5
    MaxCalls = 2
    MaxFaults = 2
INVARIANTS
    TypeOK
    NoLateReceive
    OwnData
    CachesHold
PROPERTY CallsReturn
CHECK_DEADLOCK FALSE
