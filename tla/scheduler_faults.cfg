SPECIFICATION Spec
CONSTANTS
  j1 = j1
  w1 = w1
  Jobs = {j1}
  Workers = {w1, w2}
  NoJob = NoJob
  NoWorker = NoWorker
  Handles <- AllHandles
  RaftModes = {TRUE, FALSE}
  AvailableCap = 2
  DeadCap = 1
  ResultBuffer = 2
  MaxRetries = 2
  FaultKinds = {"crash", "suspect", "rpc", "evict", "restart"}
  MaxFaults = 1
SYMMETRY WorkerSymmetry
INVARIANTS TypeOK PendingCustody FailedExhausted ResultCopyFresh OnlyStoredJobs FailedInDLQ
PROPERTIES TerminalStable ImplementsLifecycle
CHECK_DEADLOCK FALSE
