SPECIFICATION Spec
CONSTANTS
    WriteBuffer = 1  ManifestLimit = 3  MaxWrites = 3  ReuseLogs = {FALSE}
    MaxFailures = 1  MaxExits = 1  MaxCrashes = 1  MaxFile = 6
INVARIANTS
    DiskSound
PROPERTIES
    KeepsPromise
CHECK_DEADLOCK FALSE
