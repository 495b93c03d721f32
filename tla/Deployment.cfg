SPECIFICATION DeploymentSpec
CONSTANTS
    u1 = u1
    u2 = u2
    u3 = u3
    Updates <- MCUpdates
    Hooks = {h1}
    First = First
    NoTree = NoTree
    Partial = Partial
    Releases <- MCReleases
    Archive <- MCArchive
    FirstRelease = "r1"
    MaxPacks = 2
    MaxFaults = 2
    IcgEntries = {"icg1", "icg2"}
    ForeignEntries = {"f1", "f2"}
    MaxCuts = 1
    Tools = {"git", "bd", "kubectl"}
    NeverShadowed = {"kubectl"}
    MaxCalls = 1
SYMMETRY Symmetry
INVARIANTS
    PacksAreWhole
    TreesAreAccountedFor
    ConfigurationsSurvive
    WrapperReportIsTrue
CHECK_DEADLOCK FALSE
