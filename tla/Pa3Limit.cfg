SPECIFICATION FairSpec
CONSTANTS
  Children = 2
  Initial <- Tens
  Orders <- LongRobbery
  HistoryLimit = 254
  MaxBalance = 32767
  MaxClock = 32767
  Capacity = 4
  ForkMayFail = FALSE
  Mortal = {}
PROPERTY RefusalReported
CHECK_DEADLOCK FALSE
