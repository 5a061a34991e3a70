CONSTANTS
  MaxWorkflows = 2
  MaxStages = 2
  MaxStagesPer = 2
  MaxDependencies = 2
  MaxDepth = 1
  MaxConcurrent = 1
  WorkflowTimeout = 1
  StageTimeout = 0
  MaxResets = 1
  None = None
SPECIFICATION MCSpec
INVARIANTS OrchestratorSafe DependentsWait
PROPERTIES TerminalStays VerdictHonest ActiveEnds
