SPECIFICATION FairSpec
CONSTANTS
  hourly = hourly
  rare = rare
  refused = refused
  NoTime = NoTime
  NoCron = NoCron
  j1 = j1
  j2 = j2
  Grace = 1
  ScanLimit = 5
  Jobs = {j1, j2}
  InitialJobs = {j1, j2}
  Crons <- OneCron
  InitialCron = hourly
  FireTimes <- OneFireTimes
  BadCrons = {}
  ExitJobs = {j2}
  Clients = {}
  Operations = {}
  FireOnce = TRUE
  CommitMayFail = FALSE
  MaxTime = 3
  MaxCrashes = 1
INVARIANTS TypeOK CatchupInv NoFireForgotten EvidenceNotAhead
PROPERTIES CommittedFireNotReplayed FiresOnlyEnabled FireSettles
CHECK_DEADLOCK FALSE
