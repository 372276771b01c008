SPECIFICATION Spec
CONSTANTS
    fd_max = 2
    recvCap = 2
    sendCap = 2
    Dests <- SomeDests
    MaxConns = 3
    MaxFrames = 0
    MaxSends = 4
INVARIANTS
    TableSound
    AtMostOneSendBlockLost
PROPERTIES
    BroadcastReachesAll
CHECK_DEADLOCK FALSE
