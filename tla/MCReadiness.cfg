SPECIFICATION Spec
CONSTANTS
    Order <- TwoProviders
    Models = {m1}
    Ratios = {square}
    Unlisted = Unlisted
    None = None
    MaxVariants = 1
INVARIANTS
    TypeOK
    SubmittedIsEligible
    UnblockedIsExecutable
    InvalidOnlyIfPreceded
CHECK_DEADLOCK FALSE
