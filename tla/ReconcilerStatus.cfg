\* Two dependents, a precondition, an action of every outcome.
SPECIFICATION Spec
CONSTANTS
    Ready = Ready
    Prov = Prov
    Avail = Avail
    Types = {Ready, Prov, Avail}
    Target = Ready
    Dependents = {Prov, Avail}
    HealthyWhenFalse = {Avail}
    Rank <- MCRank
    Reasons = {"", "Error", "PreConditionFailed", "ConditionNotSet"}
    NoReason = ""
    NotSet = "ConditionNotSet"
    Generations <- MCGenerations
    Provisioning = Prov
    PreConditionFailed = "PreConditionFailed"
    ErrorReason = "Error"
    NumActions = 1
    NumFinalizers = 1
    ActionOutcomes = {"ok", "requeue", "stop", "stopRequeue", "error"}
    FinalizerOutcomes = {"ok", "stop", "error"}
    HasPreApply = TRUE
    SkipCleanup = FALSE
    SkipStatus = TRUE
    DefaultRequeue = FALSE
    MaxGen = 3
    MaxUid = 1
    MaxFaults = 2
INVARIANTS
    ReadyIsHonest
    ReadyIsCurrent
    FailureIsReported
    QuiescentMeansProcessed
CHECK_DEADLOCK FALSE
