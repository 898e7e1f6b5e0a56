SPECIFICATION TurnsAfterStart
CONSTANTS
  Children = 3
  Iterations <- MoreFirst
  MutexEnabled = TRUE
  Capacity = 4
  ForkMayFail = FALSE
  Mortal = {}
  MaxClock = 90
INVARIANT NobodyOvertakesTwice
