CONSTANTS
  e1 = e1
  e2 = e2
  g1 = g1
  g2 = g2
  x1 = x1
  x2 = x2
  Entity <- mc_Entity
  GroupId <- mc_GroupId
  GroupOf <- mc_GroupOf
  Exec <- mc_Exec
  NoRequest = NoRequest
  Request <- mc_Request
  Asked <- mc_Asked
  MaxPolls = 1
SPECIFICATION Spec
INVARIANTS TypeOK RedoOnHold JobStaysOnTarget
PROPERTIES OutcomeSpec ExecutionsEnd
CHECK_DEADLOCK FALSE
