SPECIFICATION PkSpec
CONSTANTS
    Limits <- SomeLimits
    CharMax = 2
    Start = 10
    MaxTime = 4
    MaxMsgs = 5
    MaxSets = 2
INVARIANTS
    LimitKept
    RefusedOnlyAfterBurst
