SPECIFICATION NumbersSpec
CONSTANTS
    LimbBits = 4
    WideBits = 20
    CountLimit = 17
    MostTimes = 9
    WordBits = 2
    Limbs = 3
    PowerLimit = 3
    Half = 4
    DepthLimit = 0
    Grid <- MCGrid
    Formats <- MCFormats
    Constants <- MCConstants
    Fetches <- MCFetches
PROPERTIES
    FloatsRoundOnce
    DecimalsInReach
    NothingIsLost
    EnginesCompute
