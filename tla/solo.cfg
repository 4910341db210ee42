SPECIFICATION Spec
CONSTANTS
    p1 = p1  p2 = p2  ali = ali  veli = veli  m1 = m1  m2 = m2  s1 = s1  s2 = s2
    None = None
    Users = {ali}
    Matches = {m1, m2}
    Slots = {s1, s2}
    Devices = {p1}
    Owner <- OwnerSolo
    Admins = {ali}
    Capacity = 1
    Existing = {m1}
    Ending = {}
    Gestures = {"refresh", "open", "reappear", "join", "leave", "delete", "place", "vacate", "plan", "comment", "create"}
    Budget <- BudgetSolo
    Faults = {}
    MaxFaults = 0
INVARIANTS TypeOK PitchAgrees ScreensAgree
PROPERTIES SpinnerEndsWithWork
CHECK_DEADLOCK FALSE
