SPECIFICATION FairSpec
CONSTANTS
    Threads = {t1, t2}
    Handles = {c1, c2, c3, c4}
    NoConn = NoConn
    MinConnections = 1
    MaxConnections = 2
    TestOnCheckout = TRUE
    AcquireTimeout = 2
CONSTRAINT WhileIntact
INVARIANT TypeOK
INVARIANT LeaseExclusive
INVARIANT Ownership
INVARIANT LeaseUsable
INVARIANT FreedForgotten
INVARIANT OvershootBound
PROPERTY ImplementsLease
PROPERTY AcquireReturns
