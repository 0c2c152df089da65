SPECIFICATION FairSpec
CONSTANTS
  PipeSize = 1
  Review = {r1, d1}
  Draft = {d1}
  Call = {c1, c2}
  ListLimit = 2
  CountLimit = 2
  MaxGivenUp = 1
INVARIANT NoOrphan
PROPERTIES EditsMirrorJournal StartupEnds ViewCatchesUp HandlersEnd
CHECK_DEADLOCK FALSE
