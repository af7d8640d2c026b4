SPECIFICATION PartsSpec
CONSTANTS
    Workers = {w1, w2}
    Instances = {i1, i2}
    Rendered <- MCRendered
    CreateOnlyKinds = {"ConfigMap"}
    OwnedKinds = {"Deployment"}
    ExcludedKinds = {"Role"}
    Late = "Widget"
    DynamicWatches <- MCDynamicWatches
    MaxDeletes = 1
    MaxFailures = 1
    NoOne = NoOne
    ClusterProfiles <- MCProfiles
    Adherences = {"NoOpinion", "Strict", "Future"}
    MaxChanges = 2
    MaxLoadErrors = 1
    Creations = {r1, r2, r3}
    Tests = {"t1", "t2", "t3"}
    BuildResults <- MCBuildResults
    ExcludedTests = {"t3"}
    NaN = NaN
    Bad = Bad
    Threshold = 20
    MinRuns = 2
    WindowBuilds = 4
    MaxBuilds = 5
    MaxFaults = 2
INVARIANTS RegistersOnce FailsClosed OnlyOverlapsDuplicate QuarantineIsEarned
    FlakinessReportsAreSound TLSSettingsAreFaithful ResourceDecisionsAgree
    PlatformIsKnown OptionsKeepOneController IngressIsUnambiguous ValidatorIsExact
PROPERTIES EverythingIsWatched FollowsTheCluster ListConverges
CHECK_DEADLOCK FALSE
