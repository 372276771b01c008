SPECIFICATION FairSpec
CONSTANTS
    fd_max = 1
    recvCap = 2
    sendCap = 1
    Dests <- SomeDests
    MaxConns = 2
    MaxFrames = 4
    MaxSends = 0
INVARIANTS
    ReceiveSound
    NoDataBeforeHandshake
    ReusedFdAnnounced
PROPERTIES
    DisconnectReported
CHECK_DEADLOCK FALSE
