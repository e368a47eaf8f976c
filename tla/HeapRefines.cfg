CONSTANTS
    Cells = {c1, c2}
    Data = {0}
    MaxMade = 3
    MaxLen = 2
    MaxDepth = 2
    UsizeMax = 1
SPECIFICATION FairSpec
INVARIANTS TypeOK Safe FreeListSound MarkedIsLive
PROPERTIES SweptClean CollectionEnds ImplementsArrayStore
CHECK_DEADLOCK FALSE
