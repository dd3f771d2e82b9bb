\* A run started from the command line; no other client is at work.
SPECIFICATION ExecutorSpec
CONSTANTS
  j1 = j1
  j2 = j2
  j3 = j3
  q1 = q1
  q2 = q2
  t1 = t1
  t2 = t2
  Free = Free
  ClientJobs = {j1, j2}
  QuietJobIds = {j1, j2, j3}
  Callers = {q1, q2}
  MaxNotices = 1
  MaxRunNotices = 2
  Keys = {k1}
  MaxLocks = 2
  MaxQuietLocks = 4
  Runs = {r1}
  QuietRuns = {r1, r2}
  Workflows = {w1}
  Templates = {t1, t2}
  StepInputs <- MCSteps
  QuietStepInputs <- MCQuietSteps
  CanaryIds = {c1}
  Loops = {l1, l2}
  Threshold = 2
  MaxRefused = 1
  Environments = {prod}
  Paths = {p1, p2}
  Retained = 1
  MaxChanges = 2
  Ids = {1}
  DependsInputs <- MCFew
  BeforeInputs <- MCRelations
  Plans <- MCCommandLine
  MaxRetries = 1
INVARIANTS NotifiedHandlersFound
CHECK_DEADLOCK FALSE
