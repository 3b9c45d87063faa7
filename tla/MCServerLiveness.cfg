CONSTANTS
    Hosts = {h1, h2}
    UdpPorts = {11}
    PongPort = 13
    Kinds = {"input"}
    Messages = {"unparsable"}
    MaxConns = 2
    MaxFd = 4
    MaxTokens = 1
    MaxQueue = 1
    AcceptErrors = FALSE
SPECIFICATION FairSpec
\* A destroyed server takes no further step.
CHECK_DEADLOCK FALSE
PROPERTIES
    Served
    HangupReleases
    PendingIsAccepted
    StopsEventually
