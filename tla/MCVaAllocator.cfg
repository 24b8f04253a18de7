SPECIFICATION Spec
CONSTANTS
    NULL = NULL
    Handles = {h1, h2, h3}
    Impls = {i1, i2, i3, i4, i5}
    MaxBlocks = 2
    OneAtATime = TRUE
SYMMETRY Symmetry
INVARIANTS
    TypeOK
    HandleReachesItsImpl
    NoImplIsLost
    
CHECK_DEADLOCK FALSE
