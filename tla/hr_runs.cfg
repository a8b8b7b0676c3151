CONSTANTS
  x1 = x1
  x2 = x2
  Exec <- mc_Exec
  Together <- mc_Together
  Entities = 2
  MaxPolls = 1
  Retries = 2
  MaxGeneration = 2
SPECIFICATION Spec
INVARIANTS SuccessIsReal BrainReportsOwnBuild SubmittedOnce ScheduleFollowsRow
PROPERTY RunsEnd
CHECK_DEADLOCK FALSE
