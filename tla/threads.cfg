SPECIFICATION MCSpec
CONSTANTS
    th1 = th1  th2 = th2  th3 = th3  t1 = t1  t2 = t2  p1 = p1  p2 = p2  p3 = p3
    None = None
    Threads = {th1, th2, th3}
    Kinds = {"write", "sync"}  Sizes = {1, 2}
    WriteBuffer = 0  SmallBatch = 1  MaxBatch = 3
    Trigger = 1  Slowdown = 1  Stop = 2
    Parts = 1  MaxCalls = 3  MaxFailures = 2
INVARIANTS
    WritersAnswered LocksExclude CacheAgrees
PROPERTIES
    EvictsOldest
SYMMETRY Interchangeable
CHECK_DEADLOCK FALSE
