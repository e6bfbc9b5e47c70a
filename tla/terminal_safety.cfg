SPECIFICATION Spec
CONSTANTS
  c1 = c1
  c2 = c2
  w1 = w1
  k1 = k1
  u1 = u1
  none = none
  Conns = {c1, c2}
  Warners = {}
  Reapers = {}
  Users = {u1}
  NoConn = none
  Buffer = 1
  StopFails = FALSE
  InspectFails = FALSE
CHECK_DEADLOCK FALSE
SYMMETRY Symmetry
INVARIANTS
  HubIsServed
  StreamClosedLast
  
