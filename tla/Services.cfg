\* One service at a time.
SPECIFICATION Spec
CONSTANTS
  JobIds = {j1, j2}
  Observers = {g1, g2}
  Policies <- SmallPolicies
  ManualAges = {0, 1}
  MaxTime = 2
  MaxNotices = 2
  MaxChecks = 2
  BacklogPolicies <- SmallBacklogPolicies
  Threshold = 3
  HistoryLimit = 2
  TickSeconds = 60
  MaxTicks = 2
  MaxPending = 3
  MaxCancels = 1
  MaxChanges = 3
  Schedules = {"s1", "s2"}
  Loops = {g1, g2}
  Free = Free
  Hosts = {"h1"}
  Targets <- SmallTargets
  OptionsOf <- SmallOptions
  Capacities <- SmallCapacities
  QueueCapacity = 3
  MaxBacklog = 1
  MaxExecutionCost = 2
  Appenders = {g1, g2}
  Streams = {j1, j2}
  Limit = 2
  Buffer = 1
  ReplayLimit = 2
  MaxEvents = 3
  Restores = TRUE
  Runs = {j1, j2}
  Requests = {g1, g2}
  MaxSnapshots = 2
  MaxCrashes = 1
SYMMETRY Symmetry
INVARIANTS TypeOK RecoveredAccounted AlertsSound DispatchGuarded LogIntegrity BackupIntegrity
CHECK_DEADLOCK FALSE
