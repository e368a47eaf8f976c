SPECIFICATION FairSpec
CONSTANTS
    Half = 4
    DepthLimit = 3
    Grid <- MCGrid
    ByHand <- MCByHand
    Compiled <- MCCompiled
    Fragile <- MCFragile
    Damage <- MCDamage
    RegMax = 63
INVARIANTS
    ReadsBack
    DamageRefused
    LoadedIsHonest
    CompiledLoads
PROPERTY LoadEnds
CHECK_DEADLOCK FALSE
