SPECIFICATION Spec
CONSTANTS
  Servers = {s1}
  Jobs = {j1}
  Ops <- AllOps
  StaleTabs = FALSE
  Faults = {"probe", "command", "ack", "timeout", "agentCrash", "foreign"}
  MaxFaults = 2
INVARIANTS
  TypeOK
  NoSilentDivergence
  ForeignNeverTargeted
PROPERTIES
  RemoveDecisionDeletesCredential
  ImplementsContract
CHECK_DEADLOCK FALSE
