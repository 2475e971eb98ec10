SPECIFICATION Spec
CONSTANTS
  r1 = r1
  r2 = r2
  r3 = r3
  Requests = {r1, r2, r3}
  Class <- MCClass
  Job <- MCJob
  Weight <- MCWeight
  QueueObjective = 1
  AgeObjective = 2
  Threads = {t1, t2}
  NoThread = NoThread
  ScanLimit = 3
  MaxCandidates = 1
  Loads <- MCProcessLoad
PROPERTY DrainingIsFinal
CHECK_DEADLOCK FALSE
