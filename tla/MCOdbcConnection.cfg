SPECIFICATION Spec
CONSTANTS
    N = 2
    MaxRows <- MCMaxRows
    BatchSize = 2
    MaxFaults = 1
    FailureThreshold = 2
    SuccessThreshold = 1
    HalfOpenMax = 1
INVARIANTS
    TypeOK
    EndTranSettles
    BatchAllOrNothing
    EnvCommitDurable
PROPERTY
    SlotsReturned
