SPECIFICATION Spec
CONSTANTS
    KeepaliveOn = FALSE
    Faults = TRUE
    MaxRequests = 3
    MaxLate = 3
    MaxAsync = 0
INVARIANT NoResultResume
CHECK_DEADLOCK FALSE
