CONSTANTS
  t1 = t1
  t2 = t2
  t3 = t3
  core = core
  plugin = plugin
  Hole = Hole
  Sources <- OneSource
  Tasks <- MCTasks
  Priorities <- LowAndHigh
  MaxReady = 2
  MaxWaiting = 2
  MaxBlocked = 1
  MaxPerSource = 4
  Interval = 1
  MaxBoost = 1
SPECIFICATION Spec
INVARIANT AcceptedIsHeld
