SPECIFICATION DocSpec
CONSTANTS
    Servers = {s1, s2}
    ProjectIds <- TwoProjects
    Docs <- SeededAndAdded
    Contexts <- TheContext
    Fields = {f1, f2}
    Editors = {e1, e2}
    NoServer = NoServer
    NoDocument = NoDocument
    Template = Template
    MaxCrashes = 3
SYMMETRY EditSymmetry
INVARIANTS
    DocTypeOK
    EventsSeededOnce
    DraftWhole
    FailsOnlyIfDisturbed
    OnlyOverlapLoses
PROPERTIES
    RerunChangesNothing
    EditsSurviveStart
