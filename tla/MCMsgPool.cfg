SPECIFICATION Spec
CONSTANTS
    t1 = t1
    t2 = t2
    t3 = t3
    NULL = NULL
    Threads <- ThreeThreads
    cap = 3
SYMMETRY Symmetry
INVARIANTS
    PoolSound
PROPERTIES
    MinTopIsLowWater
    RefinesPool
