\* Two callers of the syndic topology, whose calls are scheduled fairly.
SPECIFICATION FairSpec
CONSTANTS
  Callers = {1, 2}
  Names = {"a", "b", "c"}
  MaxRoutes = 2
PROPERTIES CallsAnswered
CHECK_DEADLOCK FALSE
