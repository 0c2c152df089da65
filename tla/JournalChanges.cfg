SPECIFICATION Spec
CONSTANTS
  Scan = {s1, s2}
  NoScan = NoScan
  Source = {apps, drivers}
  Value = {a, b}
  NoValue = NoValue
  Invalid = Invalid
  EventLog = EventLog
  NoSource = NoSource
  NoCursor <- NoneYet
  OldCursor <- FirstTime
  MaxClock = 0
  MaxChanges = 1
  FirstWindow = 1
  Overlap = 0
  QueryLimit = 3
  Retain = 1
SYMMETRY Symmetry
INVARIANTS
  EventsReplay
  OkIsComplete
PROPERTIES
  ImplementsChangeLog
  ReportsAreTrue
CHECK_DEADLOCK FALSE
