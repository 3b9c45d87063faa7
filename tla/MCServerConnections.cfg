CONSTANTS
    Hosts = {h1, h2}
    UdpPorts = {11}
    PongPort = 13
    Kinds = {"input"}
    Messages = {}
    MaxConns = 3
    MaxFd = 4
    MaxTokens = 2
    MaxQueue = 0
    AcceptErrors = FALSE
SYMMETRY MCSymmetry
SPECIFICATION Spec
\* A destroyed server takes no further step.
CHECK_DEADLOCK FALSE
INVARIANTS
    TypeOK
    OwnFd
    RecvWouldNotBlock
    LeakOnlyByReconnect
    PacketsAreWhole
PROPERTIES
    NoEviction
