SPECIFICATION Spec
CONSTANTS
  Jobs = {j1, j2}
  Ops <- OverlapOps
  Lifecycle = FALSE
  LastStamp = 2
  Faults = {"disk", "helper", "timeout", "damage"}
  MaxFaults = 1
SYMMETRY JobSymmetry
INVARIANTS
  TypeOK
  ChecksumVouchesForArchive
  MismatchMeansDamage
  DownloadIsVerified
  FingerprintIsOfOneArchive
PROPERTIES
  ImplementsContract
CHECK_DEADLOCK FALSE
