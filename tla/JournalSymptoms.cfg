SPECIFICATION Spec
CONSTANTS
  Scan = {s1, s2}
  NoScan = NoScan
  Source = {}
  Value = {a}
  NoValue = NoValue
  Invalid = Invalid
  EventLog = EventLog
  NoSource = NoSource
  NoCursor <- NoneYet
  OldCursor <- AnyTime
  MaxClock = 3
  MaxChanges = 0
  FirstWindow = 1
  Overlap = 1
  QueryLimit = 4
  Retain = 1
SYMMETRY Symmetry
INVARIANTS
  NoSymptomSkipped
  RetentionHolds
PROPERTY
  PrunedStaysPruned
CHECK_DEADLOCK FALSE
