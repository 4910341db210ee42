SPECIFICATION MCSpec
CONSTANTS
    MaxKey = 4  MaxHeight = 2  Readers = {r1}
INVARIANTS
    SkipListRight CursorAgrees TableRight BlockRight LogRight
CHECK_DEADLOCK FALSE
