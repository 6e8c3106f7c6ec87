SPECIFICATION Spec
CONSTANTS
    Params <- MCParams
    MaxParamset = 2
    MaxLen = 1
    MaxStatements = 2
    MaxRows = 2
    ValueLen = 3
    MaxBuffer = 3
CONSTRAINT
    OneHalf
INVARIANTS
    TypeOK
    NeedDataAnswerable
    ExecutesWhatWasPut
    PieceInStep
