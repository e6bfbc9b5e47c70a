SPECIFICATION FairSpec
CONSTANTS
  c1 = c1
  c2 = c2
  w1 = w1
  k1 = k1
  u1 = u1
  none = none
  Conns = {c1}
  Warners = {w1}
  Reapers = {k1}
  Users = {u1}
  NoConn = none
  Buffer = 1
  StopFails = TRUE
  InspectFails = TRUE
CHECK_DEADLOCK FALSE
PROPERTIES
  JobsFinish
  NothingLeftBehind
  DeadPeerIsClosed
  AbandonedTerminalEnds
