SPECIFICATION Spec
CONSTANTS
  a1 = a1
  a2 = a2
  Account = {a1, a2}
  Vendors <- MCVendors
  Level = {0, 1}
  MaxConcurrent = 1
  MaxChanges = 1
  MaxInterrupts = 1
INVARIANTS
  FetchIsSound
  
PROPERTIES
  RowsAreItsOwn
  OutageKeepsLevels
