SPECIFICATION FairSpec
CONSTANTS
    Instances = 2
    MaxYield = 1
    Distributed = TRUE
    Tests = {t1}
    Initial = initial
    None = none
    Faults = {"vm", "guest", "file"}
    MaxFaults = 2
    MaxRounds = 1
INVARIANTS
    NodeInv
    NotDuplicated
    NotLost
    TraceIsOfTest
    AbortOnlyInNextTest
PROPERTIES
    ImplementsWorkNode
    EveryTestTraced
    ResetReturns
CHECK_DEADLOCK FALSE
