CONSTANTS
    Demos = {d1}
    NoDemo = NoDemo
    MayAbort = FALSE
SPECIFICATION Spec
INVARIANT RowModeTruthful
CHECK_DEADLOCK FALSE
