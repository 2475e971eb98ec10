CONSTANTS
  original = original
  replay = replay
  Originals = {original}
  Replays = {replay}
  SourceOf <- MCSourceOf
  MaxAttempts = 2
  MaxNoise = 1
SPECIFICATION Spec
INVARIANTS
  TimelineCausal
  TraceTellsOutcome
  CountedOnce
  QuietReplayMatches
  MatchMeansSameRun
CHECK_DEADLOCK FALSE
