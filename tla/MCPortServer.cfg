SPECIFICATION FairSpec
CONSTANTS
    fd_max = 2
    Cap = 2
    MaxConns = 3
    MaxFrames = 2
INVARIANTS
    PortSound
    StrayOnlyAfterClose
    EndAnnounced
PROPERTIES
    InputIsRead
    AnswersLeave
CHECK_DEADLOCK FALSE
