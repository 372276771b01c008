SPECIFICATION FairSpec
CONSTANTS
    Cap = 2
    MaxRequests = 4
INVARIANTS
    HttpSound
    SentOnceInOrder
PROPERTIES
    RequestSettled
CHECK_DEADLOCK FALSE
