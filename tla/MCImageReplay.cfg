SPECIFICATION Spec
CONSTANTS
    Workers = {w1, w2, w3, w4}
    Requests = {q1}
    Operations <- Everything
    MaxOutputs = 1
    MayAbort = TRUE
SYMMETRY FlowSymmetry
INVARIANTS
    AttemptedOnce
CHECK_DEADLOCK FALSE
