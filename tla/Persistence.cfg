SPECIFICATION Spec
CONSTANTS
  Originals = {original}
  Replays = {replay}
  ReplayStates = {"completed", "failed", "queued"}
  MaxVersions = 2
  MaxFaults = 1
  MaxStops = 1
INVARIANTS
  NoPhantomRows
  AllOrNothing
  StoredIsServed
  ReplayOutcomeDurable
PROPERTIES
  ImplementsDurableHistory
CHECK_DEADLOCK FALSE
