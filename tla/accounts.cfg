SPECIFICATION Spec
CONSTANTS
  p1 = p1
  p2 = p2
  e1 = e1
  e2 = e2
  n1 = n1
  n2 = n2
  w1 = w1
  w2 = w2
  blank = blank
  Procs = {p1, p2}
  Emails = {e1, e2}
  Names = {n1, n2}
  Passwords = {w1}
  Blank = blank
  CodeTTL = 1
  ReadFails = TRUE
  MaxRequests = 4
  MaxTime = 1
CHECK_DEADLOCK FALSE
SYMMETRY Symmetry
INVARIANTS
  CodeProvesEmail
  OneAccountPerCode
  UnusedCodesBounded
  MfaConfirmed
