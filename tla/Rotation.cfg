SPECIFICATION Spec
CONSTANTS
  Servers = {ext, man}
  Managed = {man}
  Keys = {k1, k2}
  Requests = {w1, w2}
  Runs = {r1, r2}
  MaxStored = 2
SYMMETRY RotationSymmetry
INVARIANTS
  SecretsKeepTheirValue
  SettledIsReadable
PROPERTIES
  RunsAreAllOrNothing
  ImplementsContract
CHECK_DEADLOCK FALSE
