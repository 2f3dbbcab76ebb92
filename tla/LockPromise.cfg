CONSTANTS
    Threads = {"monitor", "tick", "basket"}
    LastDay = 2
    MaxEntered = 1
    MaxFaults = 1
    Attempts = 1
    MarketRequired = TRUE
SPECIFICATION Spec
INVARIANT TypeOK
INVARIANT LockMirrored
INVARIANT ReadyIsEarned
PROPERTY KeepsPromise
