CONSTANTS
  MaxIssued = 2
  Titles = {"a", "b"}
  Stages = {s1, s2}
  MaxConcurrent = 2
  EdgeBudget = 2
  EdgePool = 2
  PipelineTtl = 0
  Entries = 2
  MaxRunning = 1
  MaxWaiting = 1
  MaxAttempts = 1
  MaxBoost = 1
  AgingInterval = 1
  EntryLife = 1
  Urgencies = {1}
  MaxEntries = 3
  Workflows = {w1, w2}
  MaxCheckpoints = 3
  PerWorkflow = 1
  CheckpointAge = 1
  FailureSlots = {f1}
  DecisionSlots = {d1}
  EscalationLife = 0
  MaxSerial = 2
  Keys = {k1, k2}
  DefaultKeys = {k1}
  Missing = Missing
  Torn = Torn
  BufferRoom = 2
  MaxVersion = 2
  MaxDirtyCount = 2
  ResourceNames = {"cpu", "mem"}
  Operations = {"o1"}
  MaxResources = 2
  MaxReservations = 2
  Total = 2
  MaxRegistered = 3
  DeviceIds = {"d1", "d2"}
  DeviceSlots = 2
  StreamSlots = {"t1"}
  MaxBuffer = 5
  MaxDepth = 3
  MaxUnits = {1, 2, 3}
  PullSize = 2
  MaxNegative = 1
  Endpoints = {"e1", "e2", "e3"}
  Streams = {"x"}
  MaxRoutes = 3
  LoopDepth = 4
  MaxNodes = 4
  MaxPerNode = 2
  MaxEdges = 3
  ReportedStates = {"FAILED"}
  MaxReported = 1
  LastStep = 3
  MaxPhaseResults = 4
  TotalTimeout = 1
  IntMax = 3
  MaxUptime = 6
SPECIFICATION ContinuitySpec
INVARIANTS PipelinesSafe SchedulingSafe RecoverySafe SavedForGood PromisesKept FlowSafe OrderSafe
PROPERTIES CheckpointsKept RecoveryHonest
CHECK_DEADLOCK FALSE
