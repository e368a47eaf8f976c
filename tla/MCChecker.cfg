SPECIFICATION Spec
CONSTANTS
    Half = 8
    DepthLimit = 3
    Grid <- MCGrid
    Halves <- MCHalves
    Spelling <- MCSpelling
    Programs <- MCPrograms
    Starts <- MCStarts
INVARIANTS
    SlotsMeanTheNames
    StraightIsAccepted
