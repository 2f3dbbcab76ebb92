CONSTANTS
    Tokens = {"t1", "t2"}
    Prices = {1, 3}
    Overnights <- FirstLots
    Close = 2
    Limit <- Loss
    MaxFills = 1
SPECIFICATION FairSpec
INVARIANT TypeOK
INVARIANT LiveIsOneMoment
INVARIANT ReadyIsCurrent
PROPERTY OpenBreachLocks
