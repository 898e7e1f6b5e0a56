SPECIFICATION SpecAfterStart
CONSTANTS
  Children = 3
  Iterations <- FewerFirst
  MutexEnabled = TRUE
  Capacity = 4
  ForkMayFail = FALSE
  Mortal = {}
  MaxClock = 90
INVARIANTS MutualExclusion ChannelsStayShort NothingUnread
PROPERTY ImplementsCriticalSection
