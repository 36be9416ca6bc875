SPECIFICATION Spec
CONSTANTS
    NumBuffer = 2
    Calls = {"single", "clear", "cancel", "sw_trigger", "ext_trigger", "drop"}
    MaxTriggers = 4
    MaxReads = 3
    MaxResets = 1
    MaxFaults = 1
INVARIANTS
    TypeOK
    IInv
    NoSyncIssue
    NothingLost
    NoBufferLeak
    CounterTracksBoard
    HardwareAgrees
PROPERTIES
    DeliveredInOrder
    ImplementsStream
