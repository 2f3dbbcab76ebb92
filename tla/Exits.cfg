CONSTANTS
    Lots = 1
    LastDay = 2
    MaxAsked = 1
    MaxFaults = 1
SPECIFICATION FairSpec
INVARIANT TypeOK
INVARIANT OneExitWhileRemembered
INVARIANT LiquidationNeverReverses
PROPERTY ExitsEnd
