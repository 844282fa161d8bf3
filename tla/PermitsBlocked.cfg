CONSTANTS
  Workers = {w1}
  Jobs = {j1, j2}
  Admins = {}
  NoJob = NoJob
  NoWorker = NoWorker
  NoDraft = NoDraft
  MaxConcurrency = 1
  MaxRate = 1
  MaxStalledCount = 1
  MaxAttempts = 2
  MaxCrashes = 1
  MaxLockLosses = 0
SPECIFICATION FairSpec
PROPERTY EveryJobSettles
CHECK_DEADLOCK FALSE
