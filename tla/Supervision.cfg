CONSTANTS
  Services <- OneService
  Groups <- OneGroup
  Configs <- Budgets
  MaxGroup = 1
  Unset = Unset
  Calls = {c1, c2, c3, c4}
  FailureThreshold = 2
  SuccessThreshold = 3
  MaxTrialCalls = 2
  OpenTimeout = 1
  Components = {"EventEngine", "Scheduler"}
  MaxComponents = 2
  MaxFailures = 2
  CrashWindow = 2
  Cooldown = 2
  MaxCrashRestarts = 4
  Watched = {w1}
  HeartbeatTimeout = 1
  CheckInterval = 2
  MaxSilences = 2
  QuietCap = 7
  Types = {"A", "B"}
  Capacity = 2
  MaxSubscribers = 2
  MaxEvents = 3
SPECIFICATION MCSpec
INVARIANTS SupervisionSafe BreakerSafe EventsInOrder
PROPERTIES HalfBudgetAvailable ClosesOnSuccesses HalfOpenEnds CooldownHolds FailedAfterSilence EventuallyDispatched
CHECK_DEADLOCK FALSE
