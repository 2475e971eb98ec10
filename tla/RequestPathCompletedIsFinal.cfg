SPECIFICATION Spec
CONSTANTS
  model = model
  Requests = {r1, r2}
  Streaming = {}
  Models = {model}
  ModelOf <- MCModelOf
  MaxEntries = 2
  MaxQueueSize = 2
  QueueTimeout = 1
  MaxBatchSize = 2
  MaxActiveRequests = 2
  WindowLength = 1
  ScanLimit = 2
  MaxCandidates = 2
  MinDispatchMembers = 1
  Injections = {}
  MaxBatches = 2
  MaxTime = 2
  MaxTicks = 0
  Ticker = Ticker
PROPERTY CompletedIsFinal
CHECK_DEADLOCK FALSE
