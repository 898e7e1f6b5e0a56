SPECIFICATION StatsSpec
CONSTANTS
  Children = 2
  Iterations <- Growing
  MutexEnabled = TRUE
  Capacity = 4
  ForkMayFail = FALSE
  Mortal = {}
  MaxClock = 60
INVARIANTS NoFailure WaitsCoverReplies
