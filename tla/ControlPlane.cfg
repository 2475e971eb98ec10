SPECIFICATION Spec
CONSTANTS
  Requests = {r1, r2, r3, r4}
  MaxEntries = 3
  MaxQueueSize = 2
  QueueTimeout = 1
  MaxTime = 3
SYMMETRY Symmetry
INVARIANTS
  QueueWellFormed
  FailureRecordAgrees
  WaitingWasAdmitted
PROPERTIES
  NoResurrection
  FifoOrderKept
