CONSTANTS
  Hole = Hole
  core = core
  plugin = plugin
  Tasks <- MCTasks
  Sources <- TwoSources
  Priorities <- LowAndHigh
  Types <- BothTypes
  MaxReady = 3
  MaxWaiting = 1
  MaxBlocked = 1
  MaxPerSource = 3
  Interval = 1
  MaxBoost = 1
SPECIFICATION RuntimeSpec
PROPERTY TerminalNotRerun
