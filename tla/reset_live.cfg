SPECIFICATION FairSpec
CONSTANTS
  d1 = d1
  d2 = d2
  w1 = w1
  w2 = w2
  a1 = a1
  a2 = a2
  NoOne = NoOne
  NoAccount = NoAccount
  Daemon = {d1}
  Worker = {w1, w2}
  Home <- MCHomeOne
  Account = {a1}
  Credit = {1}
  Owner <- MCOwnerSolo
  ExpiresAt <- MCExpiresSolo
  AllowConsume = FALSE
  MaxArms = 1
  MaxClaims = 0
  MaxClock = 0
  MaxCrashes = 1
  MaxEvents = 2
PROPERTIES
  
  ArmedActs
  SpentOutcomeIsSettled
