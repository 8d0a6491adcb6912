CONSTANTS
    Demos = {d1}
    NoDemo = NoDemo
    MayAbort = FALSE
SPECIFICATION Spec
INVARIANT DegradedReported
CHECK_DEADLOCK FALSE
