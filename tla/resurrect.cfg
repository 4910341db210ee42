SPECIFICATION Spec
CONSTANTS
    NumKeys = 2
    NumLevels = 4
    MaxMemCompactLevel = 2
    CompactionTrigger = 1
    LevelOneBytes = 10
    GrandParentLimit = 10
    ExpansionLimit = 25
    MaxFileSize = 2
    Recovered <- OneTable
    Batches <- PutFirstDeleteSecond
    WriteBuffer = 0
    StopTrigger = 3
    AllowedSeeks = 1
    Readers = {}
    Ranges = {}
    MaxWrites = 4
    MaxSnapshots = 1
    MaxCalls = 0
INVARIANTS DeletedStaysDeleted
CHECK_DEADLOCK FALSE
