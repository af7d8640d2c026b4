SPECIFICATION FairSpec
CONSTANTS
    Names <- MCThreeNames
    Desired <- MCThreeDesired
    CreateOnly <- MCOne
    Owned <- MCThreeNames
    OnlyOwned = TRUE
    RenderCaching = FALSE
    DeployCaching = FALSE
    ContinueOnError = FALSE
    Adopted <- MCOne
    Edits <- MCAllEdits
    MaxGen = 2
    MaxEdits = 1
    MaxFaults = 1
PROPERTIES Converges
CHECK_DEADLOCK FALSE
