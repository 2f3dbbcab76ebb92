CONSTANTS
    Keys = {k1, k2}
    Legs = 2
    MaxRequests = 4
    MaxFaults = 2
SPECIFICATION Spec
SYMMETRY Symmetry
INVARIANT TypeOK
INVARIANT ReplaysAreTrue
 
PROPERTY KeepsKeys
