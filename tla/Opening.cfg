SPECIFICATION OpeningSpec
CONSTANTS
  Opener = {watcher, api}
  Latest = 7
  Base <- BaseMarks
  Backfill = 3
  MaxDeaths = 1
  Markers = 2
  DraftId = {d1, d2}
  Requests = {crash}
  Batch = 1
  Null = Null
  Deleted = Deleted
  Pruned = Pruned
INVARIANTS
  VersionIsBacked
  RecordIsTrue
  OpenIsComplete
  RunOnce
  LinksLead
PROPERTIES
  EndsUpCurrent
  RepairArrives
