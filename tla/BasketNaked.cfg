CONSTANTS
    b1 = b1
    b2 = b2
    s1 = s1
    s2 = s2
    Buys = {b2}
    Sells = {s2}
    Quantity <- TwoLots
SPECIFICATION Spec
INVARIANT NeverNaked
