SPECIFICATION FairSpec
CONSTANTS
  p1 = p1
  i1 = i1
  i2 = i2
  NoReading = NoReading
  NoLog = NoLog
  Provider = {p1}
  Item = {i1}
  Of <- MCOf
  Kind <- MCKind
  MaxLevel = 3
  MinimumIncrease = 1
  Shape = {1}
  Weekly = TRUE
  Monthly = FALSE
  SessionBelow = 2
  PageSize = 2
  MaxChanges = 2
  MaxStops = 1
  MaxStreams = 2
  MaxTouches = 1
  MaxMishaps = 1
INVARIANTS
  
  ReportedOnce
  NoRiseSwallowed
  UnreadStaysUnread
PROPERTIES
  ReadStaysRead
  UnreadIsShown
