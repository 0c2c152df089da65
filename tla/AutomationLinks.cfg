SPECIFICATION Spec
CONSTANTS
  Runner = {p1, p2}
  NoRunner = NoRunner
  Crash = {hang, stop}
  Change = {}
  Hardware = {driver}
  MinorHardware = {part}
  Quiet = {}
  Burst = 2
  Draft = {d1, d2, d3}
  Unused = Unused
  Deleted = Deleted
  NoMarker = NoMarker
  Null = Null
  Configs <- OnOrOff
  MaxEvents = 2
  MaxFaults = 1
  MaxDeletes = 1
SYMMETRY Symmetry
INVARIANTS
  TypeOK
  NotifiedOnce
  DraftsAreLinked
  NoEventSkipped
PROPERTIES
  DraftsStick
