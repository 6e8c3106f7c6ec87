SPECIFICATION FairSpec
CONSTANTS
    KeepaliveOn = FALSE
    Faults = TRUE
    MaxRequests = 2
    MaxLate = 1
    MaxAsync = 2
INVARIANTS
    TypeOK
    InStep
    TruthfulStatus
    RowsComplete
    TxnInStep
    CancelsInFlight
    NotificationsKept
PROPERTY
    CallReturns
CHECK_DEADLOCK FALSE
