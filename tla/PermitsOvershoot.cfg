CONSTANTS
  Workers = {w1, w2}
  Jobs = {j1, j2}
  Admins = {}
  NoJob = NoJob
  NoWorker = NoWorker
  NoDraft = NoDraft
  MaxConcurrency = 1
  MaxRate = 2
  MaxStalledCount = 1
  MaxAttempts = 2
  MaxCrashes = 0
  MaxLockLosses = 0
SPECIFICATION Spec
INVARIANT ConcurrencyRespected
CHECK_DEADLOCK FALSE
