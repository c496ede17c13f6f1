SPECIFICATION Spec
CONSTANTS
  Jobs = {j1}
  Ops <- AllOps
  Lifecycle = TRUE
  LastStamp = 2
  Faults = {"probe", "list", "command", "helper", "timeout", "disk", "crash", "damage"}
  MaxFaults = 2
INVARIANTS
  DeletedLeavesNothing
  ChecksumIsNeverReplaced
CHECK_DEADLOCK FALSE
