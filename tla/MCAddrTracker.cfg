SPECIFICATION Spec
CONSTANTS
    NULL = NULL
    Nodes <- MCNodes
    Ranges <- MCRanges
    Width = 5
    Lo = 0
    AfterHi = 11
    Probes <- MCProbes
INVARIANTS
    TypeOK
    SearchTree
    Balanced
    FindNodeFindsRange
    RangeQueriesAnswer
    NextInOrder
PROPERTIES
    KeepsIndex
    CallsReturn
CHECK_DEADLOCK FALSE
