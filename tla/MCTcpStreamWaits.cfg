CONSTANTS
    Byte <- MCByte
    ZeroByte = 0
    Capacity = 7
    UintRange = 32
    HeaderSize = 2
    GoodPackets <- MCGoodPackets
    MalformedPackets <- MCMalformedPackets
    MaxLength = 4
    MaxRecv = 3
    MaxPackets = 4
SPECIFICATION Spec
\* A removed connection takes no further step.
CHECK_DEADLOCK FALSE
INVARIANT WaitsOnlyForData
