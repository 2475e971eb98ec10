SPECIFICATION Spec
CONSTANTS
  Backends = {1, 2, 3}
  Registered <- MCRegistered
  Known = {"fall", "fast", "fixed", "good"}
  Record <- MCRecord
  Requests = {1, 2}
  Backend <- MCBackend
  ServerModels = {"fall", "other"}
  DefaultBackend = 1
  Setups <- MCSetups
INVARIANTS
  OfferedInOrder
  RefusedMeansExhausted
  AcceptedWasExecuted
  ExecutedPerOffer
PROPERTY SubmissionsEnd
CHECK_DEADLOCK FALSE
