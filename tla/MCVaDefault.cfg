SPECIFICATION Spec
CONSTANTS
    Base = 3
    Total = 9
    Requests <- MCRequests
    FreeArgs <- MCFreeArgs
INVARIANTS
    TypeOK
    BlocksTileReservation
    FreeNeighboursMerged
    SizeTreeIsFreeList
    UsedBlocksAreLive
    UsedSizeIsLiveBytes
    WalksAgree
PROPERTIES
    BestFitTaken
    KeepsPromise
CHECK_DEADLOCK FALSE
