SPECIFICATION Spec
CONSTANTS
  s1 = s1
  r1 = r1
  r2 = r2
  t1 = t1
  t2 = t2
  i1 = i1
  dev = dev
  Slots = {s1}
  DevSlot = dev
  DevMode = FALSE
  Requests = {r1, r2}
  TtlReapers = {t1}
  IdleReapers = {}
  TTL = 1
  IdleTimeout = 1
  Durable = FALSE
  Faults = {"boot", "stop", "inspect", "exit", "store"}
  MaxSessions = 1
  MaxTime = 2
  MaxCrashes = 1
CHECK_DEADLOCK TRUE
SYMMETRY Symmetry
INVARIANTS
  ActiveHasContainer
PROPERTIES
  NeverRevived
