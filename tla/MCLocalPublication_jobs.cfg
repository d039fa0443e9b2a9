SPECIFICATION FairSpec
CONSTANTS
  a = a
  b = b
  p = p
  q = q
  None = None
  Clients = {a, b}
  Profiles = {p, q}
  MaxCalls = 3
  MaxSaves = 2
  Scenarios <- ScenariosAtWork
INVARIANT NoCircularWait
INVARIANT JobTellsTruth
PROPERTY PreparationEnds
CHECK_DEADLOCK FALSE
