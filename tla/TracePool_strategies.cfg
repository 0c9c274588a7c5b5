SPECIFICATION Spec
CONSTANTS
    MaxTraces = 4
    BlockSeqs <- MCBlockSeqs
    Strategies <- MCStrategies
    Tests = {t1, t2, t3}
    MaxArrivals = 5
    None = None
CONSTRAINT OnePool
INVARIANTS
    PoolInv
    GraphHoldsTraces
    EveryTraceOnce
    NoneMeansDone
    TestsFIFO
PROPERTIES
    Drained
CHECK_DEADLOCK FALSE
