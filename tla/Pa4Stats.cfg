SPECIFICATION FairStatsSpecAfterStart
CONSTANTS
  Children = 3
  Iterations <- IdleFirst
  MutexEnabled = TRUE
  Capacity = 4
  ForkMayFail = FALSE
  Mortal = {}
  MaxClock = 60
INVARIANTS RowsAddUp CountersMatchPipes
PROPERTY EveryoneExits
