SPECIFICATION Spec
CONSTANTS
    Names <- MCNames
    Desired <- MCDesired
    CreateOnly <- MCNone
    Owned <- MCNames
    OnlyOwned = TRUE
    RenderCaching = TRUE
    DeployCaching = TRUE
    ContinueOnError = TRUE
    Adopted <- MCNone
    Edits <- MCNone
    MaxGen = 2
    MaxEdits = 0
    MaxFaults = 1
INVARIANTS NothingStale
CHECK_DEADLOCK FALSE
