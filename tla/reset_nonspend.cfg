SPECIFICATION Spec
CONSTANTS
  d1 = d1
  d2 = d2
  w1 = w1
  w2 = w2
  a1 = a1
  a2 = a2
  NoOne = NoOne
  NoAccount = NoAccount
  Daemon = {d1}
  Worker = {w1}
  Home <- MCHomeSolo
  Account = {a1, a2}
  Credit = {1, 2}
  Owner <- MCOwnerTwo
  ExpiresAt <- MCExpiresTwo
  AllowConsume = TRUE
  MaxArms = 1
  MaxClaims = 0
  MaxClock = 1
  MaxCrashes = 0
  MaxEvents = 1
INVARIANTS
  NonSpendIsConfirmed
