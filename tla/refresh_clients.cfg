SPECIFICATION Spec
CONSTANTS
  s1 = s1
  c1 = c1
  c2 = c2
  p1 = p1
  p2 = p2
  NoOne = NoOne
  Server = {}
  Client = {c1, c2}
  Provider = {p1, p2}
  ResetProvider = {}
  RefreshMs <- MCShort
  StaleMs <- MCLong
  CapMs = 3
  MaxRetryAfter = 1
  MaxFailures = 2
  MaxDelay = 1
  MaxCrashes = 1
SYMMETRY MCClients
INVARIANTS
  ClientsDoNotStampede
PROPERTIES
  ClientsKeepOthersRecords
