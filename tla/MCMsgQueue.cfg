SPECIFICATION FairSpec
CONSTANTS
    p1 = p1
    p2 = p2
    m1 = m1
    m2 = m2
    NULL = NULL
    Producers <- TwoProducers
    Msgs <- TwoMsgs
    cap = 4
    multi_push = TRUE
INVARIANTS
    RingSound
PROPERTIES
    RefinesFifo
    PushedIsPopped
    LockIsReleased
