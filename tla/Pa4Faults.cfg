SPECIFICATION SpecAfterStart
CONSTANTS
  Children = 3
  Iterations <- OneEach
  MutexEnabled = TRUE
  Capacity = 4
  ForkMayFail = FALSE
  Mortal = {0, 1, 2, 3}
  MaxClock = 14
INVARIANTS TypeOK GrantsInOrder MutexInv
CHECK_DEADLOCK FALSE
