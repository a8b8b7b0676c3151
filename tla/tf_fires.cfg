CONSTANTS
  Fire <- mc_Fire
  Source <- mc_Source
  Waits = {"f2"}
  Origin <- mc_Origin
  AiRun = {"f1"}
  Target <- mc_Target
  Chains <- mc_Chains
  MaxEdits = 1
  MaxLog = 2
SPECIFICATION Spec
INVARIANTS TypeOK PostsItsChain LogIsTrue ErrorShownIsLatest
PROPERTY FiresEnd
CHECK_DEADLOCK FALSE
