SPECIFICATION Spec
CONSTANTS
    VMNodes = {v1}
    SVMNodes = {s1}
    None = none
    MaxResets = 1
    MayShutDown = FALSE
INVARIANTS
    OneFSMPerNode
