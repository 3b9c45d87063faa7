CONSTANTS
    Hosts = {h1, h2}
    UdpPorts <- MCUdpPorts
    PongPort = 13
    Kinds = {"input", "ping", "discover"}
    Messages = {"input", "ping", "discover", "unparsable", "empty"}
    MaxConns = 1
    MaxFd = 3
    MaxTokens = 2
    MaxQueue = 1
    AcceptErrors = TRUE
SYMMETRY MCSymmetry
SPECIFICATION Spec
\* A destroyed server takes no further step.
CHECK_DEADLOCK FALSE
INVARIANTS
    AnswersGoHome
