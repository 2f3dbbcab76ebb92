CONSTANTS
    Threads = {"monitor", "login"}
    LastDay = 1
    MaxEntered = 0
    MaxFaults = 1
    Attempts = 1
    MarketRequired = FALSE
SPECIFICATION FairSpec
PROPERTY LockEnds
PROPERTY LockedIsFlattened
