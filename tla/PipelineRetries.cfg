CONSTANTS
  Jobs = {j1, j2}
  Schedules = {s1}
  Schedulers = {}
  Clients = {c1}
  Workers = {w1}
  RunTriggers = {"scheduled"}
  NoJob = NoJob
  NoSchedule = NoSchedule
  NoWorker = NoWorker
  MaxStalledCount = 1
  MaxAttempts = 2
  MaxTime = 0
  MaxDbFailures = 1
  MaxApiCrashes = 0
  MaxCrashes = 1
  MaxLockLosses = 0
  MayPause = FALSE
SPECIFICATION FairSpec
INVARIANTS TypeOK RetriesCountLineage
PROPERTIES ImplementsLedger QueuedJobsSettle
CHECK_DEADLOCK FALSE
