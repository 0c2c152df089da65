SPECIFICATION FairSpec
CONSTANTS
  Runner = {p1, p2}
  NoRunner = NoRunner
  Crash = {hang}
  Change = {}
  Hardware = {driver}
  MinorHardware = {}
  Quiet = {}
  Burst = 2
  Draft = {d1, d2}
  Unused = Unused
  Deleted = Deleted
  NoMarker = NoMarker
  Null = Null
  Configs <- AllOn
  MaxEvents = 2
  MaxFaults = 2
  MaxDeletes = 0
PROPERTY
  EventuallyHandled
