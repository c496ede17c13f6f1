SPECIFICATION RecoverySpec
CONSTANTS
  Servers = {s1}
  Jobs = {j1}
  Ops = {"prepareContainer", "create", "start", "stop", "restart", "remove", "health"}
  StaleTabs = FALSE
  Faults = {"probe", "list", "command", "ack", "timeout", "webCrash", "agentCrash"}
  MaxFaults = 3
PROPERTIES
  AlwaysReconciled
  RequestsEnd
CHECK_DEADLOCK FALSE
