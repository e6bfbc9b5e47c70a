SPECIFICATION Spec
CONSTANTS
  f1 = f1
  f2 = f2
  Challenges = {c1, c2}
  Nothing = Nothing
  Zero = Zero
  Known = {c1}
  Fetches = {f1, f2}
  MaxSessions = 2
  MaxClosing = 1
SYMMETRY Symmetry
INVARIANTS
  CompletedIsRecorded
  FlagsAreRecorded
  QuietPageIsCurrent
  ConnectedIsBacked
