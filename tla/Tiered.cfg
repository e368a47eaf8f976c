CONSTANTS
    File = "boxed"
    Regs = {1}
    Funcs = {"f", "g"}
    DepthLimit = 3
    Scalars = {"num", "text"}
    Limit = {1}
    MaxMade = 2
    MaxLen = 1
    UsizeMax = 1
    Threshold = 1
    CompiledArrayCalls = FALSE
SPECIFICATION TSpec
INVARIANTS TTypeOK HandlesGood NoDeeper LentWhileKept OfferedOnce TablesMatch
CHECK_DEADLOCK FALSE
