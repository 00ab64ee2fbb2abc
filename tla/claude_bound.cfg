SPECIFICATION Spec
CONSTANTS
  p1 = p1
  p2 = p2
  l1 = l1
  l2 = l2
  a1 = a1
  a2 = a2
  NoOne = NoOne
  Process = {p1, p2}
  Bound = {p2}
  Path = {l1, l2}
  Paths <- MCSame
  Account = {a1, a2}
  ArmedAccount = a1
  FirstOrg = a1
  MaxExpiries = 1
  MaxMishaps = 1
INVARIANTS
  BoundReadsOneAccount
