\* The documentation's example: a release without a type.
SPECIFICATION Spec
CONSTANTS
    Kids = {1, 2}
    CRDs = {}
    Excluded = {}
    CreateOnly = {}
    Merged = {}
    Rendered <- MCSampleRendered
    Legacy = {}
    ReleaseInfo <- MCSampleRelease
    OnlyOwned = TRUE
    Caching = FALSE
    Mode = "ssa"
    UserEdits = {}
    Touched = {}
    MaxGen = 2
    MaxUID = 1
    MaxEdits = 1
    MaxFaults = 0
PROPERTIES SparesTheRendered
CHECK_DEADLOCK FALSE
