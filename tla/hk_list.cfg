SPECIFICATION Spec
CONSTANTS
  c1 = c1
  c2 = c2
  c3 = c3
  stopped = stopped
  started = started
  None = None
  Callers = {c1, c2}
  Events = {1, 2}
  Flows = {11, 12}
  Foreign = {21}
  Values = {stopped, started}
  InitialTables <- FirstTables
  Requests = {"createJob", "updateJob", "deleteJob", "createFlow", "updateFlow", "deleteFlow"}
  Reach <- JobAndFlow
  MaxAttempts = 2
  GetMayFail = FALSE
  PutMayFail = TRUE
  MaxCrashes = 1
INVARIANT HubFollowsTable
PROPERTIES OthersKept
CHECK_DEADLOCK FALSE
