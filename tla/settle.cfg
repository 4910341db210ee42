SPECIFICATION FairSpec
CONSTANTS
    p1 = p1  p2 = p2  ali = ali  veli = veli  m1 = m1  s1 = s1
    ann = ann  bob = bob  six = six  sixer = sixer  burak = burak  None = None
    Users = {ali, veli, ann}  MaxLoads = 3  MaxWrites = 2
INVARIANTS
    PlayersRight
PROPERTIES
    EveryCallSettles CallsAnswered
CHECK_DEADLOCK FALSE
