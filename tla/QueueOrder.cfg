\* Five jobs in three classes, or three jobs with pauses and policy changes.
SPECIFICATION MCSpec
CONSTANTS
  MaxJobs = 5
  Keys = {}
  Priorities = {"high", "normal", "low"}
  Clients = {c1}
  Capacity = 2
  Ops = {"pause", "policy"}
  PolicyInputs <- MCStatelessInputs
INVARIANTS ServedInTurn PauseLag
