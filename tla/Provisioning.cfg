SPECIFICATION Spec
CONSTANTS
  s1 = s1
  s2 = s2
  j1 = j1
  j2 = j2
  Servers <- TwoServers
  Jobs <- TwoJobs
  Leftover <- OneServer
  Faults <- AllFaults
  MaxFaults = 1
INVARIANTS
  VolumesAreAccountedFor
  RemovalRepliesAreTrue
PROPERTIES
  NetworkOutlivesContainers
  DraftIsLeft
  ImplementsContract
CHECK_DEADLOCK FALSE
