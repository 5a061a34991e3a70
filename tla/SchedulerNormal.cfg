CONSTANTS
  t1 = t1
  t2 = t2
  t3 = t3
  core = core
  plugin = plugin
  Hole = Hole
  Sources <- OneSource
  Tasks <- MCTasks
  Priorities <- NormalAndUp
  MaxReady = 2
  MaxWaiting = 1
  MaxBlocked = 1
  MaxPerSource = 2
  Interval = 1
  MaxBoost = 2
SPECIFICATION FairSpec
PROPERTY NormalServed
