CONSTANTS
  Jobs = {j1}
  Schedules = {s1}
  Schedulers = {p1}
  Clients = {c1}
  Workers = {w1, w2}
  RunTriggers = {"manual"}
  NoJob = NoJob
  NoSchedule = NoSchedule
  NoWorker = NoWorker
  MaxStalledCount = 1
  MaxAttempts = 2
  MaxTime = 1
  MaxDbFailures = 2
  MaxApiCrashes = 1
  MaxCrashes = 1
  MaxLockLosses = 1
  MayPause = TRUE
SPECIFICATION Spec
SYMMETRY Symmetric
INVARIANTS QueuedRowsReachQueue StuckRowsAreDeadLettered
PROPERTY OutcomeStands
CHECK_DEADLOCK FALSE
