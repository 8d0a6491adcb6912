SPECIFICATION FairSpec
CONSTANTS
    Servers = {s1}
    ProjectIds <- TwoProjects
    MaxCrashes = 1
PROPERTIES
    StartupRecovers
