CONSTANTS
    b1 = b1
    b2 = b2
    s1 = s1
    s2 = s2
    Buys = {b1, b2}
    Sells = {s1, s2}
    Quantity <- TwoLots
SPECIFICATION FairSpec
INVARIANT TypeOK
INVARIANT ShortsCovered
INVARIANT RolledBackIsFlat
INVARIANT AttentionIsRaised
INVARIANT CompleteIsFilled
PROPERTY UnwindIsLast
PROPERTY BasketEnds
