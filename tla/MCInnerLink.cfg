SPECIFICATION FairSpec
CONSTANTS
    cap = 2
    Frames = {"good", "bad"}
    MaxAsks = 2
    MaxCloses = 1
    MaxFrames = 1
    MaxSends = 3
INVARIANTS
    LinkSound
    SettledOnLastAddress
    AtMostOneBlockLost
PROPERTIES
    EndReported
CHECK_DEADLOCK FALSE
