SPECIFICATION Spec
CONSTANTS
    Instances = 1
    MaxYield = 1
    Traces = {r1, r2}
    None = none
    Faults = {"svm"}
    MaxFaults = 1
    MaxRounds = 1
INVARIANTS
    TestsOfTarget
