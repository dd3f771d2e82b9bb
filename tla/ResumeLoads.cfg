\* The checkpoints alone: resumed configs and the loader.
SPECIFICATION ResumeSpec
CONSTANTS
  a1 = a1
  a2 = a2
  g1 = g1
  g2 = g2
INVARIANTS ResumeLoads
CHECK_DEADLOCK FALSE
