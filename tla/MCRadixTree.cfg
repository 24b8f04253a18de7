SPECIFICATION Spec
CONSTANTS
    NULL = NULL
    Nodes = {n1, n2, n3, n4}
    KeyBits = 4
SYMMETRY Symmetry
INVARIANTS
    TypeOK
    PointersAgree
    KeysInPlace
    FindGEQIsLeast
    InsertEndsInTime
PROPERTY KeepsIndex
