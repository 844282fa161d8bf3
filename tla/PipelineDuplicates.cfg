CONSTANTS
  Jobs = {j1, j2}
  Schedules = {s1}
  Schedulers = {p1}
  Clients = {}
  Workers = {w1}
  RunTriggers = {}
  NoJob = NoJob
  NoSchedule = NoSchedule
  NoWorker = NoWorker
  MaxStalledCount = 1
  MaxAttempts = 3
  MaxTime = 1
  MaxDbFailures = 0
  MaxApiCrashes = 0
  MaxCrashes = 0
  MaxLockLosses = 0
  MayPause = FALSE
SPECIFICATION Spec
INVARIANT EveryThirtyMinutes
CHECK_DEADLOCK FALSE
