SPECIFICATION FairSpec
CONSTANTS
    Half = 4
    DepthLimit = 3
    RegMax = 65535
    Grid <- MCGrid
    Chunks <- MCChunks
    Expected <- MCExpected
    Known <- MCKnown
    MaxOut = 20
    MaxArrays = 4
INVARIANTS
    MTypeOK
    AgreesSoFar
    RegistersWritten
    ProofsHold
PROPERTIES
    Ends
    FollowsMachine
CHECK_DEADLOCK FALSE
