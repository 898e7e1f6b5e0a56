SPECIFICATION FairSpec
CONSTANTS
  Children = 3
  Initial <- Tens
  Orders <- RobberyAndMore
  HistoryLimit = 60
  MaxBalance = 100
  MaxClock = 60
  Capacity = 2
  ForkMayFail = FALSE
  Mortal = {}
INVARIANTS HistoriesMatchEvents TransfersInOrder BarriersHold NothingUnread
PROPERTY EveryoneExits
