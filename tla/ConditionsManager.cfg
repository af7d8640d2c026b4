\* A target with two dependents of opposite polarity.
SPECIFICATION Spec
CONSTANTS
    Ready = Ready
    Provisioned = Provisioned
    Degraded = Degraded
    Types = {Ready, Provisioned, Degraded}
    Target = Ready
    Dependents = {Provisioned, Degraded}
    HealthyWhenFalse = {Degraded}
    Rank <- MCRank
    Reasons = {"", "failed", "late", "ConditionNotSet"}
    NoReason = ""
    NotSet = "ConditionNotSet"
    Generations = {0}
    Options <- MCOptions
INVARIANTS
    TypeOK
    TargetReflectsDependents
    InheritedTimeMeansInheritedStatus
PROPERTY
    HappyNeedsEveryDependent
