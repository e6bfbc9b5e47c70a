SPECIFICATION Spec
CONSTANTS
  s1 = s1
  r1 = r1
  r2 = r2
  t1 = t1
  t2 = t2
  i1 = i1
  dev = dev
  Slots = {s1}
  DevSlot = dev
  DevMode = TRUE
  Requests = {r1, r2}
  TtlReapers = {t1}
  IdleReapers = {i1}
  TTL = 1
  IdleTimeout = 1
  Durable = TRUE
  Faults = {"boot", "stop", "inspect", "exit"}
  MaxSessions = 1
  MaxTime = 3
  MaxCrashes = 1
CHECK_DEADLOCK TRUE
SYMMETRY Symmetry
INVARIANTS
  TerminatingHasKiller
  BootingHasStart
  RunningIsOwned
  TtlReaperJustified
PROPERTIES
  OnlyExitsStopActive
  ImplementsContract
