CONSTANTS
 Ids = {i1, i2}
 Claimants = {i1}
 MaxIdentities = 1
 MaxSessions = 2
 MaxPerIdentity = 1
 IdleTimeout = 1
 Lifetime = 2
 MaxTracked = 1
 MaxMisses = 2
 MissWindow = 2
 BlockTime = 5
 DelayAfter <- Delays
 CleanupInterval = 4
 MaxTrying = 1
 Policies = {p}
 MaxPolicies = 1
 FactorSets = {{"PASSWORD"}, {"PASSWORD","TOKEN"}}
 Implemented = {"PASSWORD"}
 Confirmed = {"PASSWORD"}
 MaxTransactions = 2
 TxTimeout = 1
 Objects = {o1, o2}
 MaxObjects = 2
 MaxVersions = 3
 Suspects = {i1}
 MaxIncidents = 2
 LockdownThreshold = 2
 RequestIds = {"", "r"}
 References = {{"session"}}
 Contexts = {{}, {"authorization"}}
 RequestRoom = 1
 DecisionRoom = 2
 MaxReassessed = 1
 DefaultLife = 1
 MaxJudged = 3
 Kinds = {"review", "revoke"}
 ResponsePolicies <- BothPolicies
 MaxPlans = 1
 MaxActions = 2
 PlanLife = 0
 AlertKeys = {k1}
 Reported = {2}
 AlertRoom = 2
 MaxActive = 2
 DedupRoom = 2
 DedupWindow = 1
 RaiseAfter = 2
 MaxEscalation = 1
 BurstLimit = 2
 BurstWindow = 1
 NotifyRoom = 2
 NotifyRate = 2
 NotifyWindow = 1
 MaxNotifyRetries = 1
 ProviderFails = 2
 RetainResolved = 1
 MaxAlerts = 3
 MaxDuplicates = 2
 MaxNotices = 2
 MaxProviders = 1
 Roles = {"r"}
 MaxRolePerms = 2
 MaxAssignments = 2
 ResourceTypes = {"camera"}
 ResourceActions = {"read"}
 PermIds = {"p"}
 GrantScopes = {"GLOBAL", "USER"}
 AskedScopes = {"user", "USER"}
 ResourceRefs = {"front"}
 MaxProtected = 2
 PolicyProviders = {"v", "w"}
 MaxPolicyProviders = 2
 AlertIds = {a}
 AlertSeverities = {1,3}
 Channels = {"LOCAL","DESKTOP"}
 ChannelPolicies = {{"LOCAL","DESKTOP"}, {"DESKTOP"}}
 Rules <- RoutingRules
 MaxRules = 1
 NotificationRoom = 2
 Attempts = 2
 NotificationLife = 1
 SendRate = 2
 SendWindow = 1
 ChannelProviders = 1
 MaxNotified = 2
SPECIFICATION SecuritySpec
INVARIANTS IdentitiesSafe AnswersSafe NoticesSafe KeysSafe DispatchSafe
PROPERTIES BlocksHold
CHECK_DEADLOCK FALSE
