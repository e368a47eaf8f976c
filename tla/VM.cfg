CONSTANTS
    File = "split"
    Regs = {1, 2}
    Funcs = {"f"}
    DepthLimit = 1
    Scalars = {"num", "text"}
    Limit = {2}
    MaxMade = 3
    MaxLen = 1
    UsizeMax = 3
SPECIFICATION Spec
INVARIANTS TypeOK RegistersGood HeapBounded
PROPERTY CallersKeepRegisters
CHECK_DEADLOCK FALSE
