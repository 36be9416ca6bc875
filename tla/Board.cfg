SPECIFICATION Spec
CONSTANTS
    NumBeams = 2
    NumScalers = 3
    MaxFaults = 1
    Volts = {12, 13}
    Sizes = {3}
    MinBuf = 5
    MaxDevices = 2
    MaxHkFaults = 1
    MaxCalls = 3
    NS = 10
    HZ = 7
    RES = 2
    U32 = 4
INVARIANTS
    ReadsBack RecordsTrue TimesTrue PowerTrue ChargeTrue
CHECK_DEADLOCK FALSE
