SPECIFICATION EngineSpec
CONSTANTS
    MaxTime = 3
    MaxEdits = 2
    MaxRemoves = 1
    Interval = 1
INVARIANTS
    EngineSound
    WatchdogJustified
PROPERTIES
    ProcessEnds
    WatchedEditLoaded
CHECK_DEADLOCK FALSE
