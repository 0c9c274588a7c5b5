SPECIFICATION Spec
CONSTANTS
    Instances = 2
    MaxYield = 1
    Distributed = TRUE
    Tests = {t1, t2}
    Initial = initial
    None = none
    Faults = {"race"}
    MaxFaults = 1
    MaxRounds = 0
INVARIANTS
    TraceIsOfTest
