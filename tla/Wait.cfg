SPECIFICATION FairSpec
CONSTANTS
    Waiters = {w1, w2}
    Users = {u1}
    Closer = closer
    Nobody = nobody
    Destroyed = destroyed
    Closes = TRUE
    MaxWaits = 3
    MaxCancels = 1
    MaxUses = 1
INVARIANTS
    TypeOK
    OneWaiter
    CancelInterrupts
    SuccessHasData
    FreedAfterWait
    WaitInv
PROPERTIES
    CancelEndsWait
    CloseReturns
