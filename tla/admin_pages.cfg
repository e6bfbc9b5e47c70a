SPECIFICATION FairSpec
CONSTANTS
  r1 = r1
  r2 = r2
  f1 = f1
  f2 = f2
  Nothing = Nothing
  Rows <- MCRows
  Keys <- MCKeys
  Fetches <- MCFetches
  Errands <- MCErrands
INVARIANTS
  TypeOK
  PasswordIsOfTarget
  AskedIsStored
  BusyIsBacked
  QuietPageIsCurrent
PROPERTIES
  GoneForGood
  SlotIsFreed
