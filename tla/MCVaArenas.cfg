SPECIFICATION Spec
CONSTANTS
    arena_info_table <- MCTable
    NumSlabs = 1
    Places = {3, 9, 15}
    Width = 5
    Requests = {2, 3, 4, 7}
    Faults = {"calloc", "stray free"}
    ExtraFrees = 0
INVARIANTS
    TypeOK
    AllocatedBlocksAreLive
    SlabsCountTheirBits
    ObjectHeapsWellFormed
    FreeFindsItsClass
    ListsAndTrackerAgree
PROPERTIES
    ReservesOnlyWhenFull
    KeepsPromise
VIEW MCView
CHECK_DEADLOCK FALSE
