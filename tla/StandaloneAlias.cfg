\* The mutateFn of the documented example.
SPECIFICATION Spec
CONSTANTS
    RootTypes = {"Ready", "Deps", "Prov", "Other"}
    Happy = "Ready"
    RootDependents <- MCDependents
    RootReasons = {""}
    ForeignType = "Other"
    Checks <- MCChecks
    Inherited <- MCInherited
    Clusters = {"OpenShift"}
    Retries <- MCOneRetry
    Clients = {"direct"}
    Mutation = "alias"
    MaxGen = 1
    MaxForeign = 1
    MaxCalls = 1
    MaxClock = 1
    MaxRounds = 1
INVARIANTS
    SuccessIsStored
CHECK_DEADLOCK FALSE
