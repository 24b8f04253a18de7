SPECIFICATION Spec
CONSTANTS
    NULL = NULL
    Vectors = {v1, v2}
    BITS_PER_CHUNK = 2
    Width = 5
    Sizes <- MCSizes
INVARIANTS
    TypeOK
    UpdatesAnswer
    QueriesAnswer
