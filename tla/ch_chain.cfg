SPECIFICATION FairSpec
CONSTANTS
  NoRun = NoRun
  e1 = e1
  e2 = e2
  r1 = r1
  r2 = r2
  Runs = {r1, r2}
  Chains <- AllChains
INVARIANTS TypeOK FiresAfterPreceding FiresOnFreshCallback NothingListensOutside AsyncEventsFired
PROPERTIES ChainEnds
CHECK_DEADLOCK FALSE
