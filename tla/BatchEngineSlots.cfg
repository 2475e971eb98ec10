SPECIFICATION Spec
CONSTANTS
  r1 = r1
  r2 = r2
  r3 = r3
  r4 = r4
  mA = mA
  mB = mB
  Requests = {r1, r2, r3, r4}
  Models = {mA, mB}
  ModelOf <- MCModelOf
  MaxBatchSize = 2
  MaxActiveRequests = 2
  WindowLength = 1
  MaxBatches = 3
  MaxTime = 1
  Injections = {"batch_admission_failure", "batch_creation_failure", "scheduler_invalid_batch_assignment"}
SYMMETRY Symmetry
INVARIANT GlobalCapacityRespected
PROPERTY ImplementsSlotPool
