SPECIFICATION Spec
CONSTANTS
  Process = {"c1", "c2"}
  Commands <- MCCommandLines
  Files <- MCFiles
  UserFiles <- MCUserFiles
  Cursors <- MCCursors
  MaxCalls = 1
INVARIANTS
  PolicyIsKept
  OneSpendPerArm
  
PROPERTIES
  CursorKeepsItsDaemon
CHECK_DEADLOCK FALSE
