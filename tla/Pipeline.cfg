SPECIFICATION Spec
CONSTANTS
    Names <- MCNames
    Desired <- MCDesired
    CreateOnly <- MCNone
    Owned <- MCNames
    OnlyOwned = TRUE
    RenderCaching = TRUE
    DeployCaching = TRUE
    ContinueOnError = TRUE
    Adopted <- MCOne
    Edits <- MCKeepEdits
    MaxGen = 2
    MaxEdits = 2
    MaxFaults = 1
INVARIANTS OwnedIsCurrent
PROPERTIES CollectsOnlyStale
CHECK_DEADLOCK FALSE
