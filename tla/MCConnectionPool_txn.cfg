SPECIFICATION Spec
CONSTANTS
    Threads = {t1, t2}
    Handles = {c1, c2}
    NoConn = NoConn
    MinConnections = 1
    MaxConnections = 1
    TestOnCheckout = TRUE
    AcquireTimeout = 1
SYMMETRY Symmetry
PROPERTY NoMidTransactionCheckout
