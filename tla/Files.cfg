SPECIFICATION Spec
CONSTANTS
    Types = {"header", "event", "status", "hk"}
    Values = {0, 1}
    NumChan = 1
    MaxLength = 1
    MaxCells = 13
INVARIANTS
    TypeOK
    ReadBack
    NoFalseRecord
    StoredKept
    MissingZero
    ChecksumDetects
CHECK_DEADLOCK FALSE
