\* Two finalizers, one action, every outcome except a stopping finalizer.
SPECIFICATION FairSpec
CONSTANTS
    Ready = Ready
    Prov = Prov
    Avail = Avail
    Types = {Ready, Prov}
    Target = Ready
    Dependents = {Prov}
    HealthyWhenFalse = {}
    Rank <- MCRank
    Reasons = {"", "Error", "PreConditionFailed", "ConditionNotSet"}
    NoReason = ""
    NotSet = "ConditionNotSet"
    Generations <- MCGenerations
    Provisioning = Prov
    PreConditionFailed = "PreConditionFailed"
    ErrorReason = "Error"
    NumActions = 1
    NumFinalizers = 2
    ActionOutcomes = {"ok", "error"}
    FinalizerOutcomes = {"ok", "error"}
    HasPreApply = FALSE
    SkipCleanup = FALSE
    SkipStatus = FALSE
    DefaultRequeue = FALSE
    MaxGen = 3
    MaxUid = 2
    MaxFaults = 2
INVARIANTS
    TypeOK
    NoOrphans
    PipelineIsGuarded
PROPERTIES
    HonoursFinalizerContract
    DeletionCompletes
    EventuallyProcessed
CHECK_DEADLOCK FALSE
