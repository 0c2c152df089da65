SPECIFICATION Spec
CONSTANTS
  Scan = {s1, s2}
  NoScan = NoScan
  Source = {}
  Value = {a}
  NoValue = NoValue
  Invalid = Invalid
  EventLog = EventLog
  NoSource = NoSource
  NoCursor <- NoneYet
  OldCursor <- FirstTime
  MaxClock = 2
  MaxChanges = 0
  FirstWindow = 1
  Overlap = 1
  QueryLimit = 1
  Retain = 0
SYMMETRY Symmetry
INVARIANTS
  NoSymptomSkipped
CHECK_DEADLOCK FALSE
