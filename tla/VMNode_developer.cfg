SPECIFICATION Spec
CONSTANTS
    Instances = 2
    MaxYield = 1
    Distributed = FALSE
    Tests = {t1}
    Initial = initial
    None = none
    Faults = {"vm", "guest", "file", "race"}
    MaxFaults = 2
    MaxRounds = 1
INVARIANTS
    TypeOK
PROPERTIES
    ImplementsWorkNode
CHECK_DEADLOCK FALSE
