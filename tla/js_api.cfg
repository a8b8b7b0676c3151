SPECIFICATION Spec
CONSTANTS
  hourly = hourly
  rare = rare
  refused = refused
  NoTime = NoTime
  NoCron = NoCron
  c1 = c1
  j1 = j1
  Grace = 2
  ScanLimit = 5
  Jobs = {j1}
  InitialJobs = {}
  Crons <- AllCrons
  InitialCron = hourly
  FireTimes <- AllFireTimes
  BadCrons = {refused}
  ExitJobs = {}
  Clients = {c1}
  Operations = {"create", "update", "enable", "disable", "delete", "run"}
  FireOnce = FALSE
  CommitMayFail = FALSE
  MaxTime = 2
  MaxCrashes = 1
INVARIANTS SchedulerFollowsTable
PROPERTIES FiresOnlyEnabled
CHECK_DEADLOCK FALSE
