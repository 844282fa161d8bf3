CONSTANTS
  Calls = {1, 2}
  SecondUser = u2
  Contexts <- TwoContexts
  Buttons = {"apply", "converse", "send", "authorize", "revoke", "sync", "prefer", "approve", "reject", "schedule", "run", "requeue", "bulk", "failedJob", "auditLog", "notification"}
  Handlers = {1}
  Users = {u1, u2}
  SeededUser = u1
  Orgs = {o1, o2}
  HomeOrg = o1
  LabOrg = o2
  Records = {r1}
  Placeholder = Placeholder
  Definitions = {1, d2}
  SeededDefinition = 1
  SeededInstance = i0
  Preferences = {p1, p2}
  SeededPreference = p1
  ConsolePreference = p2
  None = None
  NoData = NoData
  MaxTime = 2
  MaxFaults = 1
  Views = {"catalog", "instances", "snapshots", "connectors", "notifications", "jobs", "governance", "conversations", "detail"}
  Filters = {"", "failed"}
  Selections = {1, k1}
  MaxChanges = 2
  MaxLoads = 2
SPECIFICATION Spec
INVARIANTS
  ViewAgrees
  SummaryAgrees
  DemoSummaryAgrees
  MarksExplained
  UpgradesExplained
  AnsweredListed
CHECK_DEADLOCK FALSE
