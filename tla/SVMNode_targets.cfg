SPECIFICATION FairSpec
CONSTANTS
    Instances = 2
    MaxYield = 1
    Traces = {r1, r2}
    None = none
    Faults = {"svm", "other", "race"}
    MaxFaults = 2
    MaxRounds = 1
INVARIANTS
    TypeOK
    ResultOfTrace
PROPERTIES
    ImplementsWorkNode
    EveryTraceExecuted
