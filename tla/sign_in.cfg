SPECIFICATION FairSpec
CONSTANTS
  a1 = a1
  f1 = f1
  f2 = f2
  Accounts <- MCAccounts
  Nobody = Nobody
  Fetches <- MCFetches
  MaxSecrets = 2
CHECK_DEADLOCK FALSE
INVARIANTS
  OneRequestPerButton
  NoLockout
  RoutesAreGuarded
PROPERTIES
  SignedInTogether
  HandlersEnd
