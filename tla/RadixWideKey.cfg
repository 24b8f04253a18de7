SPECIFICATION Spec
CONSTANTS
    NULL = NULL
    Nodes = {n1, n2, n3}
    KeyBits = 2
INVARIANT FindGEQReachesKey
