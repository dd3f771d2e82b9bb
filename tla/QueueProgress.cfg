\* Pauses, drains, policy changes, cancels and a shutdown under fair scheduling.
SPECIFICATION FairSpec
CONSTANTS
  MaxJobs = 2
  Keys = {}
  Priorities = {"high", "low"}
  Clients = {c1}
  Capacity = 1
  Ops = {"pause", "policy", "shutdown", "cancel", "drain"}
  PolicyInputs <- MCPolicyInputs
INVARIANTS GenerationBounded
PROPERTIES PendingServed ShutdownEnds DrainMeansIdle
