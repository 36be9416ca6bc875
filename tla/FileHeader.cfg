SPECIFICATION Spec
CONSTANTS
    Types = {"header"}
    Values = {0, 1}
    NumChan = 1
    MaxLength = 0
    MaxCells = 7
INVARIANT VersionsHandled
CHECK_DEADLOCK FALSE
