SPECIFICATION LogFairSpec
CONSTANTS
    cap = 2
    MaxIds = 2
    FlushEvery = 2
    Names <- SomeNames
    Div <- SomeDivs
    Headed <- SomeNames
    Stamps = {"t1"}
    MaxSeconds = 1
    MaxLines = 3
    MaxEnds = 1
    MaxFails = 1
INVARIANTS
    LogSound
    LoggedOrUrgent
PROPERTIES
    LineReachesDisk
