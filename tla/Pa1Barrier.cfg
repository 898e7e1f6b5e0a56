SPECIFICATION FairSpec
CONSTANTS
  Children = 3
  Capacity = 2
  ForkMayFail = TRUE
  Mortal = {0, 1, 2, 3}
INVARIANT TypeOK BarriersHold NothingDropped FailureHasCause ParentReports
PROPERTY EveryoneEnds
