SPECIFICATION Spec
CONSTANTS
    Conns = {c1, c2}
    NoConn = NoConn
    Runs = {r1, r2}
    Approvals = {a1}
    Scopes = {s1, s2}
    MaxFresh = 7
    MaxDepth = 2
SYMMETRY StoreSymmetry
INVARIANTS
    TypeOK
    EventsChained
    AppendNeverCollides
    DecidedOnceAsRequested
PROPERTIES
    AppendOnly
    BatchesWhole
    ImplementsLedger
CHECK_DEADLOCK FALSE
