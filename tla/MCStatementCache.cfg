SPECIFICATION Spec
CONSTANTS
    Threads = {t1, t2}
    Conns = {c1, c2, c3}
    Sqls = {q1, q2, q3}
    Stmts = {p1, p2, p3, p4}
    NoStmt = NoStmt
    MaxSize = 2
    MaxGets = 5
INVARIANTS TypeOK LruIndexesEntries LruByLastUse OneOwner
SYMMETRY Symmetry
PROPERTY ReturnsUsable
CHECK_DEADLOCK FALSE
