SPECIFICATION Spec
CONSTANTS
  Servers = {s1}
  Jobs = {j1}
  Ops <- AllOps
  StaleTabs = FALSE
  Faults = {"list"}
  MaxFaults = 1
PROPERTIES
  SuccessRepliesAreTrue
CHECK_DEADLOCK FALSE
