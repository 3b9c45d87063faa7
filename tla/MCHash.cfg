CONSTANTS
    k1 = k1
    k2 = k2
    k3 = k3
    k4 = k4
    Key <- MCKey
    HashOf <- MCHashOf
    Capacity = 2
    MaxValues = 5
    None = None
SPECIFICATION FairSpec
\* A destroyed hash is not used again.
CHECK_DEADLOCK FALSE
INVARIANTS
    TypeOK
    WellChained
    OwnedOrFreedOnce
    VisitsEachOnce
PROPERTIES
    ImplementsMap
    WalkEnds
