CONSTANTS
    File = "boxed"
    Regs = {1, 2}
    Funcs = {"f"}
    DepthLimit = 2
    Scalars = {"num"}
    Limit = {1}
    MaxMade = 2
    MaxLen = 1
    UsizeMax = 1
    Threshold = 1
    CompiledArrayCalls = TRUE
SPECIFICATION TSpec
INVARIANT HandlesGood
CHECK_DEADLOCK FALSE
