SPECIFICATION Spec
CONSTANTS
  model = model
  Requests = {r1, r2, r3}
  Streaming = {r2}
  Models = {model}
  ModelOf <- MCModelOf
  MaxEntries = 2
  MaxQueueSize = 2
  QueueTimeout = 1
  MaxBatchSize = 2
  MaxActiveRequests = 2
  WindowLength = 1
  ScanLimit = 2
  MaxCandidates = 1
  MinDispatchMembers = 1
  Injections = {"batch_creation_failure", "scheduler_crash"}
  MaxBatches = 2
  MaxTime = 2
  MaxTicks = 1
  Ticker = Ticker
INVARIANTS
  CompletedWasExecuted
  RunningHoldsSlot
  DoneIsSettled
PROPERTY PathsReturn
CHECK_DEADLOCK FALSE
