CONSTANTS
    Positions <- MCPositions
    Num = 3
    Den = 2
    IdSpace = 2
    MaxTime = 3
    MaxTouches = 2
    MaxHandled = 4
SPECIFICATION Spec
\* The client may stop.
CHECK_DEADLOCK FALSE
INVARIANTS
    TypeOK
    Tracks
PROPERTIES
    LateMovesNothing
    NoJump
