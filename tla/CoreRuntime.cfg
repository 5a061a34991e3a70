CONSTANTS
  Hole = Hole
  core = core
  plugin = plugin
  Tasks <- MCTasks
  Sources <- TwoSources
  Priorities <- LowAndHigh
  Types <- OneType
  MaxReady = 3
  MaxWaiting = 2
  MaxBlocked = 1
  MaxPerSource = 2
  Interval = 1
  MaxBoost = 1
  MaxComponents = 3
  LastPhase = 1
  ReloadNames = {"a", "b", "u"}
  Capability <- AllCapabilities
  Versions = {1, 2}
  NoVersion = 0
  ReloadSlots = 2
  QuiesceTimeout = 1
  MaxWork = 1
  Pids = {1, 2}
  ProcessCapacity = 4
  Peers = {peer1, peer2}
  Slots = 2
  Ids = {ai}
  Uids <- AnyOrOne
  InParts = {"REQUEST"}
  MaxUnread = 2
SYMMETRY CoreSymmetry
SPECIFICATION CoreSpec
INVARIANTS TasksSafe CoreSafe ProcessesAndPeersSafe AnswersAuthorized
PROPERTIES AgingOnlyRaises
CHECK_DEADLOCK FALSE
