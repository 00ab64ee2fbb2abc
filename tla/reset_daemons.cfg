SPECIFICATION Spec
CONSTANTS
  d1 = d1
  d2 = d2
  w1 = w1
  w2 = w2
  a1 = a1
  a2 = a2
  NoOne = NoOne
  NoAccount = NoAccount
  Daemon = {d1, d2}
  Worker = {w1, w2}
  Home <- MCHomeTwo
  Account = {a1}
  Credit = {1, 2}
  Owner <- MCOwnerOne
  ExpiresAt <- MCExpiresOne
  AllowConsume = FALSE
  MaxArms = 2
  MaxClaims = 0
  MaxClock = 0
  MaxCrashes = 1
  MaxEvents = 1
SYMMETRY MCSymmetryTwo
INVARIANTS
  MutualExclusion
  SpendAtMostOnce
PROPERTIES
  ClaimDurableBeforePost
  CancelIsFinal
  UnknownIsSticky
