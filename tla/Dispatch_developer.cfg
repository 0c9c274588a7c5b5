CONSTANTS
    VMNodes = {v1}
    SVMNodes = {s1}
    None = None
    Instances = 1
    MaxYield = 2
    Distributed = FALSE
    UpdateImage = FALSE
    Targets = 0
    NodeQueue = 1
    TraceInterval = 2
    TestInterval = 3
    TimeElapses = FALSE
    DistinctTests = 2
    MaxOut = 2
    MaxErrors = 0
    MaxSent = 2
SPECIFICATION FairSpec
INVARIANTS
    TypeOK
    SupplyInv
    QueueBounded
    ResultsAreThere
PROPERTIES
    QuiescenceDetected
