SPECIFICATION ProjectionFairSpec
CONSTANTS
    Workers = {w1, w2, w3}
    Requests = {q1}
    Operations <- Everything
    MaxOutputs = 1
    MayAbort = FALSE
INVARIANTS
    QueueJoined
    LaterReadsCatchUp
PROPERTIES
    DecisionRecorded
    AttemptFinishes
CHECK_DEADLOCK FALSE
