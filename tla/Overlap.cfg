SPECIFICATION Spec
CONSTANTS
  Servers = {s1}
  Jobs = {j1, j2}
  Ops <- LossyOps
  StaleTabs = TRUE
  Faults = {"ack", "timeout", "webCrash", "agentCrash"}
  MaxFaults = 1
INVARIANTS
  OnlyLicensedServersRun
  CredentialComesFirst
  RemovedDataIsGone
PROPERTIES
  SuccessRepliesAreTrue
  DataLossIsConfirmed
SYMMETRY JobSymmetry
CHECK_DEADLOCK FALSE
