SPECIFICATION FairSpec
CONSTANTS
    t1 = t1
    t2 = t2
    r1 = r1
    r2 = r2
    Threads = {t1, t2}
    Requests = {r1, r2}
    NoRequest = NoRequest
    FailureThreshold = 2
    SuccessThreshold = 1
    HalfOpenMax = 1
    RecoveryTimeout = 1
    CounterRange = 4
INVARIANTS
    TypeOK
    TripsWhenDue
    ClosesWhenDue
    HalfOpenLimit
PROPERTY
    RecoversFromOpen
