SPECIFICATION Spec
CONSTANTS
  Process = {watcher, api}
  None = None
  TriggerStart = {"bits"}
  MinPairs = 2
  Snapshots <- AllSnapshots
  OldStates <- AllOldStates
INVARIANTS
  NoConfigurationUnreported
  SignInNoiseBounded
  DriversCompareAlike
