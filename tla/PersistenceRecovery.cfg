SPECIFICATION Spec
CONSTANTS
  Originals = {original}
  Replays = {replay}
  ReplayStates = {"completed"}
  MaxVersions = 1
  MaxFaults = 0
  MaxStops = 1
INVARIANTS
  RecoverySucceeds
CHECK_DEADLOCK FALSE
