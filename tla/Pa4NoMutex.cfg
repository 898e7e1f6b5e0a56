SPECIFICATION Spec
CONSTANTS
  Children = 3
  Iterations <- FewerFirst
  MutexEnabled = FALSE
  Capacity = 4
  ForkMayFail = TRUE
  Mortal = {0, 1}
  MaxClock = 60
INVARIANTS BarriersHold SilentWithoutMutex ParentReports
CHECK_DEADLOCK FALSE
