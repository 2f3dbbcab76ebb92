CONSTANTS
    Lots = 2
    LastDay = 1
    MaxAsked = 0
    MaxFaults = 1
SPECIFICATION Spec
INVARIANT OneExitAtATime
