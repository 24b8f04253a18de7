SPECIFICATION Spec
CONSTANTS
    NULL = NULL
    Handles = {h1, h2, h3}
    Impls = {i1, i2, i3, i4}
    MaxBlocks = 2
    OneAtATime = FALSE
SYMMETRY Symmetry
INVARIANTS
    HeldBlocksAreInUse
    ReachedImplHasOwner
CHECK_DEADLOCK FALSE
