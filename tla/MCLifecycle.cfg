CONSTANTS
    Timeout = 2
    MaxSigInt = 2
SPECIFICATION FairSpec
\* The process ends.
CHECK_DEADLOCK FALSE
INVARIANTS
    LeavesOnlyWhenAsked
PROPERTIES
    AtMostOneMoreWait
    StopsAfterSigInt
