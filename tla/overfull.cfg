SPECIFICATION Spec
CONSTANTS
    p1 = p1  p2 = p2  ali = ali  veli = veli  m1 = m1  m2 = m2  s1 = s1  s2 = s2
    None = None
    Users = {ali, veli}
    Matches = {m1}
    Slots = {s1}
    Devices = {p1, p2}
    Owner <- OwnerDuo
    Admins = {ali}
    Capacity = 1
    Existing = {m1}
    Ending = {m1}
    Gestures = {"join"}
    Budget <- BudgetDuo
    Faults = {}
    MaxFaults = 0
INVARIANTS SquadNeverExceedsCapacity
CHECK_DEADLOCK FALSE
