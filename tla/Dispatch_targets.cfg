CONSTANTS
    VMNodes = {v1}
    SVMNodes = {s1}
    None = None
    Instances = 1
    MaxYield = 1
    Distributed = TRUE
    UpdateImage = TRUE
    Targets = 2
    NodeQueue = 1
    TraceInterval = 3
    TestInterval = 3
    TimeElapses = TRUE
    DistinctTests = 1
    MaxOut = 1
    MaxErrors = 1
    MaxSent = 2
SPECIFICATION Spec
INVARIANTS
    IndInv
    SupplyInv
    ConvergedIsQuiescent
    ResetBeforeResults
    TargetQueueNotOverrun
