SPECIFICATION Spec
CONSTANTS
    Workers = {w1}
    MaxBatch = 2
    Sql <- SqlOfFive
    MaxFaults = 0
    ExecThreads = {t1}
    Conns = {c1}
    NoConn = NoConn
    Changes <- Mixed
INVARIANT ResultMapping
CHECK_DEADLOCK FALSE
