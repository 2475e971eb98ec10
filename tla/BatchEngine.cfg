SPECIFICATION Spec
CONSTANTS
  r1 = r1
  r2 = r2
  r3 = r3
  r4 = r4
  mA = mA
  mB = mB
  Requests = {r1, r2, r3, r4}
  Models = {mA, mB}
  ModelOf <- MCModelOf
  MaxBatchSize = 2
  MaxActiveRequests = 3
  WindowLength = 1
  MaxBatches = 4
  MaxTime = 2
  Injections = {"batch_admission_failure", "batch_creation_failure", "scheduler_invalid_batch_assignment"}
SYMMETRY Symmetry
INVARIANTS
  BatchesWellFormed
  SlotsExclusive
  ActiveIndexExact
  MembershipAgrees
PROPERTY TerminalBatchesFrozen
