\* A finalizer action that returns a StopError.
SPECIFICATION Spec
CONSTANTS
    Ready = Ready
    Prov = Prov
    Avail = Avail
    Types = {Ready, Prov}
    Target = Ready
    Dependents = {Prov}
    HealthyWhenFalse = {}
    Rank <- MCRank
    Reasons = {"", "Error", "PreConditionFailed", "ConditionNotSet"}
    NoReason = ""
    NotSet = "ConditionNotSet"
    Generations <- MCGenerations
    Provisioning = Prov
    PreConditionFailed = "PreConditionFailed"
    ErrorReason = "Error"
    NumActions = 1
    NumFinalizers = 2
    ActionOutcomes = {"ok", "error"}
    FinalizerOutcomes = {"ok", "stop"}
    HasPreApply = FALSE
    SkipCleanup = FALSE
    SkipStatus = FALSE
    DefaultRequeue = FALSE
    MaxGen = 3
    MaxUid = 1
    MaxFaults = 1
INVARIANTS
    NoOrphans
CHECK_DEADLOCK FALSE
