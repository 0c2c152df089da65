SPECIFICATION Spec
CONSTANTS
  Thread = {t1, t2}
  Id = {i1, i2}
  Legacy = Legacy
  Name = {"game", "tool"}
  Absent = "Absent"
  Temporal <- Decay
  Tolerance = 1
  Limit = 8
  MaxGap = 4
  ReadLimit = 10
  DraftLookback = 28
  MaxTicks = 1
  Histories <- AllHistories
INVARIANTS
  CandidateIsEarned
  CoverageIsRead
  UnlimitedIsWatched
  FeedbackNamesLead
PROPERTY
  DeletedStaysDeleted
SYMMETRY Interchangeable
CHECK_DEADLOCK FALSE
