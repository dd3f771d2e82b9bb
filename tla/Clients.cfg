\* One kind of client of the queue at a time, or the planner or the executor:
\* four resources, every relation from one end and at most one edge from the other.
SPECIFICATION MCSpec
CONSTANTS
  j1 = j1
  j2 = j2
  j3 = j3
  q1 = q1
  q2 = q2
  t1 = t1
  t2 = t2
  Free = Free
  ClientJobs = {j1, j2}
  QuietJobIds = {j1, j2, j3}
  Callers = {q1, q2}
  MaxNotices = 1
  MaxRunNotices = 2
  Keys = {k1}
  MaxLocks = 2
  MaxQuietLocks = 4
  Runs = {r1}
  QuietRuns = {r1, r2}
  Workflows = {w1}
  Templates = {t1, t2}
  StepInputs <- MCSteps
  QuietStepInputs <- MCQuietSteps
  CanaryIds = {c1}
  Loops = {l1, l2}
  Threshold = 2
  MaxRefused = 1
  Environments = {prod}
  Paths = {p1, p2}
  Retained = 1
  MaxChanges = 2
  Ids = {1, 2, 3, 4}
  DependsInputs <- MCFew
  BeforeInputs <- MCRelations
  Plans <- MCPlans
  MaxRetries = 1
SYMMETRY Symmetry
INVARIANTS TypesOK LocksExclude StepsFollow RecoveredStaysLapsed CanaryCounts DispatchedOnce
  Topological CycleIffRefused LeastOrder OutcomeJustified RelationsKept
PROPERTIES EndIsFinal
CHECK_DEADLOCK FALSE
