SPECIFICATION Spec
CONSTANTS
    Waiters = {w1}
    Users = {}
    Closer = closer
    Nobody = nobody
    Destroyed = destroyed
    Closes = TRUE
    MaxWaits = 2
    MaxCancels = 0
    MaxUses = 0
INVARIANT LocksLiveMutex
