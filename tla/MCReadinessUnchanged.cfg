SPECIFICATION Spec
CONSTANTS
    Order <- TwoProviders
    Models = {m1}
    Ratios = {square}
    Unlisted = Unlisted
    None = None
    MaxVariants = 1
INVARIANTS
    UnchangedApprovalValid
CHECK_DEADLOCK FALSE
