SPECIFICATION ReviewSpec
CONSTANTS
    Writers = {demo, review, import, execute}
    InTx = {demo, review}
    Reviewers = {review}
    Importers = {import}
    Reviewed <- SomeInputs
    Paths = {p1, p2}
    NoPath = NoPath
    NoWriter = NoWriter
SYMMETRY PathSymmetry
INVARIANTS
    ReviewTypeOK
    RowHasFile
    ImportEvidence
    StrayOnlyAfterRollback
    ReviewWhole
    ClaimsNeverPass
PROPERTIES
    FilesImmutable
CHECK_DEADLOCK FALSE
