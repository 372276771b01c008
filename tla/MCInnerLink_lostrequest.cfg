SPECIFICATION FairSpec
CONSTANTS
    cap = 1
    Frames = {}
    MaxAsks = 1
    MaxCloses = 0
    MaxFrames = 0
    MaxSends = 0
PROPERTIES
    RequestServed
CHECK_DEADLOCK FALSE
