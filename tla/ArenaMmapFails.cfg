SPECIFICATION Spec
CONSTANTS
    arena_info_table <- MCTable
    NumSlabs = 1
    Places = {2, 8}
    Width = 4
    Requests = {0, 2, 3, 4, 7}
    Faults = {"mmap"}
    ExtraFrees = 0
INVARIANT AnswersAreReserved
CHECK_DEADLOCK FALSE
