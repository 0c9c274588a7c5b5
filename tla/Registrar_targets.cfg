SPECIFICATION FairSpec
CONSTANTS
    VMNodes = {v1, v2}
    SVMNodes = {s1}
    None = none
    MaxResets = 2
    MayShutDown = TRUE
INVARIANTS
    TypeOK
    OneFSMUntilReset
PROPERTIES
    StableWhileWalked
    NoDispatchAfterDisconnect
    JoinersListed
