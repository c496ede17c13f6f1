SPECIFICATION Spec
CONSTANTS
  j1 = j1
  j2 = j2
  h1 = h1
  h2 = h2
  h3 = h3
  t1 = t1
  t2 = t2
  Jobs <- TwoJobs
  LoginKeys <- OwnerLogin
  OwnerKeys <- OwnerLogin
  SetupKeys <- OneSetup
  ActionKeys <- OneAction
  HitIds <- ThreeHits
  Tokens <- TwoTokens
  MaxHits = 1
  Window = 2
  Retention = 2
  TTL = 2
  SetupLock = FALSE
  MaxTime = 3
SYMMETRY AccessSymmetry
INVARIANTS
  AttemptsAreBounded
  OneOwner
PROPERTIES
  CleanupsSpareWhatCounts
CHECK_DEADLOCK FALSE
