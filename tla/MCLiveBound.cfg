SPECIFICATION Spec
CONSTANTS
    Half = 4
    DepthLimit = 3
    RegMax = 65535
    Grid <- MCGrid
    Chunks <- MCLiveBoundChunks
    Expected <- MCLiveBoundExpected
    Known <- MCLiveBoundKnown
    MaxOut = 20
    MaxArrays = 4
INVARIANT AgreesSoFar
CHECK_DEADLOCK FALSE
