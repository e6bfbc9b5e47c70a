SPECIFICATION FairSpec
CONSTANTS
  s1 = s1
  r1 = r1
  r2 = r2
  t1 = t1
  t2 = t2
  i1 = i1
  dev = dev
  Slots = {s1}
  DevSlot = dev
  DevMode = FALSE
  Requests = {r1}
  TtlReapers = {t1}
  IdleReapers = {}
  TTL = 1
  IdleTimeout = 1
  Durable = TRUE
  Faults = {}
  MaxSessions = 1
  MaxTime = 3
  MaxCrashes = 0
CHECK_DEADLOCK TRUE
PROPERTIES
  ContainersEndOnExpiry
