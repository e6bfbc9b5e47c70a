SPECIFICATION FairSpec
CONSTANTS
  s1 = s1
  r1 = r1
  r2 = r2
  t1 = t1
  t2 = t2
  i1 = i1
  dev = dev
  Slots = {s1}
  DevSlot = dev
  DevMode = FALSE
  Requests = {r1}
  TtlReapers = {t1}
  IdleReapers = {i1}
  TTL = 2
  IdleTimeout = 0
  Durable = TRUE
  Faults = {"stop", "inspect", "exit"}
  MaxSessions = 2
  MaxTime = 2
  MaxCrashes = 0
CHECK_DEADLOCK TRUE
INVARIANTS
  OneLivePerSlot
PROPERTIES
  ExpiredAreReaped
  IdleAreReaped
