SPECIFICATION Spec
CONSTANTS
    Base = 3
    Total = 5
    Requests <- MCRequests
    FreeArgs <- MCFreeArgs
INVARIANTS
    DestroyReleasesReservation
CHECK_DEADLOCK FALSE
