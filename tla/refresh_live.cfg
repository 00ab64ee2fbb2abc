SPECIFICATION FairSpec
CONSTANTS
  s1 = s1
  c1 = c1
  c2 = c2
  p1 = p1
  p2 = p2
  NoOne = NoOne
  Server = {s1}
  Client = {}
  Provider = {p1}
  ResetProvider = {p1}
  RefreshMs <- MCOne
  StaleMs <- MCOneStale
  CapMs = 3
  MaxRetryAfter = 1
  MaxFailures = 2
  MaxDelay = 1
  MaxCrashes = 1
INVARIANTS
  SingleFlight

  
  
