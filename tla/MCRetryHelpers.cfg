SPECIFICATION FairSpec
CONSTANTS
    MaxCalls = 2
    NumOps = 2
    MaxRetries = 2
    RetryConnectionErrors = TRUE
    RetryTransactionErrors = TRUE
INVARIANTS
    AppliedAtMostOnce
    ReportsTrue
PROPERTY
    HelperReturns
CHECK_DEADLOCK FALSE
