SPECIFICATION Spec
CONSTANTS
    Workers = {w1, w2}
    MaxBatch = 2
    Sql <- SqlOfThree
    MaxFaults = 1
    ExecThreads = {t1, t2}
    Conns = {c1, c2}
    NoConn = NoConn
    Changes <- Mixed
CHECK_DEADLOCK FALSE
INVARIANTS EachCompleted CacheSound WriteCountExact
PROPERTIES OwnAnswer AllAnswered
