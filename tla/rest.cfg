SPECIFICATION FairSpec
CONSTANTS
    th1 = th1  th2 = th2  th3 = th3
    Databases = {th1, th2, th3}  MaxItems = 2
INVARIANTS
    RunsInOrder
PROPERTIES
    Settles CallsReturn SearchesEnd
CHECK_DEADLOCK FALSE
