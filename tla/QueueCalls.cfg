\* Two callers, full channels, a reused key, failures, stuck-job recovery, freezes and emergency stops.
SPECIFICATION Spec
CONSTANTS
  MaxJobs = 2
  Keys = {k1}
  Priorities = {"normal"}
  Clients = {c1, c2}
  Capacity = 1
  Ops = {"cancel", "fail", "recover", "freeze", "emergency"}
  PolicyInputs <- MCPolicyInputs
SYMMETRY MCSymmetry
INVARIANTS TypeOK AtMostOnce NoLostJob NoGhostRunning OneJobPerKey
PROPERTIES SucceededIsFinal ImplementsLifecycle
