SPECIFICATION FairSpec
CONSTANTS
    t1 = t1
    t2 = t2
    Nobody = Nobody
    Threads = {t1, t2}
    Readers = {t1}
    Kinds = {"register", "clear_buffer"}
    NumBuffer = 2
    NumChan = 2
    MaxXfers = 5
    MaxCalls = 2
    MaxFaults = 0
PROPERTY CallsReturn
CHECK_DEADLOCK FALSE
