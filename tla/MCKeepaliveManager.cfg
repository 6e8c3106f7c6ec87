SPECIFICATION FairSpec
CONSTANTS
    Callers = {t1, t2}
    Ids = {c1, c2}
    MaxStarts = 2
INVARIANTS
    ClosedAfterStopUntouched
PROPERTY
    StopReturns
CHECK_DEADLOCK FALSE
