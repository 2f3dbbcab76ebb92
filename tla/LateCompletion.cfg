CONSTANTS
    Threads = {"monitor", "tick"}
    LastDay = 1
    MaxEntered = 0
    MaxFaults = 1
    Attempts = 1
    MarketRequired = TRUE
SPECIFICATION Spec
INVARIANT CompletionIsObserved
