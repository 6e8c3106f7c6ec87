SPECIFICATION Spec
CONSTANTS
    KeepaliveOn = TRUE
    Faults = FALSE
    MaxRequests = 3
    MaxLate = 3
    MaxAsync = 0
INVARIANT RowsComplete
CHECK_DEADLOCK FALSE
