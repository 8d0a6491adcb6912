SPECIFICATION FairSpec
CONSTANTS
    Demos = {d1, d2}
    NoDemo = NoDemo
    MayAbort = TRUE
INVARIANTS
    TypeOK
    RunWhole
    HermesClaimsTrue
    NoLiveRunUnreported
PROPERTIES
    LockReleased
CHECK_DEADLOCK FALSE
