\* Child 1 is a Deployment of a legacy owner, 2 is dropped by generation 2,
\* 3 is a CustomResourceDefinition, 4 is create-only.
SPECIFICATION Spec
CONSTANTS
    Kids = {1, 2, 3, 4}
    CRDs = {3}
    Excluded = {}
    CreateOnly = {4}
    Merged = {1}
    Rendered <- MCRendered
    Legacy = {1}
    ReleaseInfo <- MCReleases
    OnlyOwned = TRUE
    Caching = TRUE
    Mode = "ssa"
    UserEdits = {"drift", "tune", "release", "manage"}
    Touched = {1, 2}
    MaxGen = 2
    MaxUID = 2
    MaxEdits = 2
    MaxFaults = 1
INVARIANTS Settled
PROPERTIES SparesTheRendered TuningIsLostOnlyInRaces ComesToRest
CHECK_DEADLOCK FALSE
