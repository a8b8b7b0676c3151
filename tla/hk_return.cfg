SPECIFICATION FairSpec
CONSTANTS
  c1 = c1
  c2 = c2
  c3 = c3
  stopped = stopped
  started = started
  None = None
  Callers = {c1, c2, c3}
  Events = {1, 2}
  Flows = {12, 13}
  Foreign = {21}
  Values = {stopped}
  InitialTables <- JobTables
  Requests = {"updateJob", "createFlow"}
  Reach <- OneFlowEach
  MaxAttempts = 1
  GetMayFail = TRUE
  PutMayFail = FALSE
  MaxCrashes = 0
PROPERTIES JobCallsReturn
CHECK_DEADLOCK FALSE
