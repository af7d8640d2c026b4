\* Two dependents, another writer, no attempt, one or two, both clients.
SPECIFICATION Spec
CONSTANTS
    RootTypes = {"Ready", "Deps", "Prov", "Other"}
    Happy = "Ready"
    RootDependents <- MCDependents
    RootReasons = {""}
    ForeignType = "Other"
    Checks <- MCChecks
    Inherited <- MCInherited
    Clusters = {"OpenShift", "Kubernetes"}
    Retries <- MCRetries
    Clients = {"direct", "cached"}
    Mutation = "own"
    MaxGen = 2
    MaxForeign = 1
    MaxCalls = 1
    MaxClock = 2
    MaxRounds = 1
INVARIANTS
    UnhappyIsVisible
    StopIsReported
    ForeignSurvives
    SuccessIsStored
    ExhaustedMeansContention
CHECK_DEADLOCK FALSE
