CONSTANTS
  Workers = {w1, w2}
  Jobs = {j1, j2}
  Admins = {a1}
  NoJob = NoJob
  NoWorker = NoWorker
  NoDraft = NoDraft
  MaxConcurrency = 1
  MaxRate = 2
  MaxStalledCount = 1
  MaxAttempts = 1
  MaxCrashes = 1
  MaxLockLosses = 1
SPECIFICATION FairSpec
INVARIANTS TypeOK PermitBacked PermitsAccounted ActiveBound RateBound
PROPERTIES ImplementsPool JobsSettleUnlessBlocked
CHECK_DEADLOCK FALSE
