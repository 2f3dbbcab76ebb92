CONSTANTS
    Pages = {"reading", "stalled"}
    Stallers = {"stalled"}
    MaxVersion = 2
SPECIFICATION FairSpec
INVARIANT TypeOK
INVARIANT NothingMissed
PROPERTY PagesCatchUp
PROPERTY MonitorGoesOn
PROPERTY PagesClose
CHECK_DEADLOCK FALSE
