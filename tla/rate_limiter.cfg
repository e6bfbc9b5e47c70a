SPECIFICATION FairSpec
CONSTANTS
  a = a
  b = b
  Clients = {a, b}
  Limit = 2
  Window = 2
  MaxTime = 5
CHECK_DEADLOCK TRUE
PROPERTIES
  ImplementsWindow
  GoneClientsAreDropped
