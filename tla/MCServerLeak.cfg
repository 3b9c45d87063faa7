CONSTANTS
    Hosts = {h1, h2}
    UdpPorts = {11}
    PongPort = 13
    Kinds = {"input"}
    Messages = {}
    MaxConns = 2
    MaxFd = 4
    MaxTokens = 1
    MaxQueue = 0
    AcceptErrors = FALSE
SPECIFICATION FairSpec
\* A destroyed server takes no further step.
CHECK_DEADLOCK FALSE
PROPERTY HangupCloses
