CONSTANTS
  Requests <- MCRequests
  Targets <- MCTargets
  MaxEntries = 3
  MaxRunning = 2
  MaxPerComponent = 2
  MaxPerRequester = 2
  ConflictMode = "WAIT"
  AuthorizationOK = TRUE
  QueueTimeout = 1
  ExecTimeout = 1
  Retention = 0
  MaxTime = 2
SPECIFICATION Spec
INVARIANTS QueueSafe AdmissionHolds
PROPERTIES TerminalStays FifoWithinPriority ImplementsPool
