SPECIFICATION MCSpec
CONSTANTS
    r1 = r1  th1 = th1  th2 = th2  th3 = th3
    Threads = {th1, th2, th3}  MaxMmaps = 1  MaxOpenFiles = 1
INVARIANTS
    LevelsSound ReadsAgree RepairKeeps ReuseKeeps LimitsKept
CHECK_DEADLOCK FALSE
