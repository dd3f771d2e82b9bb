\* Safe-drain when an operator fails a job.
SPECIFICATION Spec
CONSTANTS
  MaxJobs = 2
  Keys = {}
  Priorities = {"normal"}
  Clients = {c1}
  Capacity = 1
  Ops = {"drain", "fail"}
  PolicyInputs <- MCPolicyInputs
PROPERTIES DrainMeansIdle
