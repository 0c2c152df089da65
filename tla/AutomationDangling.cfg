SPECIFICATION Spec
CONSTANTS
  Runner = {p1, p2}
  NoRunner = NoRunner
  Crash = {hang}
  Change = {}
  Hardware = {}
  MinorHardware = {}
  Quiet = {}
  Burst = 2
  Draft = {d1, d2}
  Unused = Unused
  Deleted = Deleted
  NoMarker = NoMarker
  Null = Null
  Configs <- AllOn
  MaxEvents = 1
  MaxFaults = 1
  MaxDeletes = 1
INVARIANT
  NoDanglingNotification
