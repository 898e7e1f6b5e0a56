SPECIFICATION FairSpec
CONSTANTS
  Children = 3
  Initial <- Tens
  Orders <- Onwards
  HistoryLimit = 1
  MaxBalance = 50
  Capacity = 4
  LastTime = 2
  ForkMayFail = TRUE
  Mortal = {2}
INVARIANTS HistoriesMatchEvents MoneyInTransit BarriersHold ParentReports
PROPERTIES EveryoneExits ImplementsAccounts
CHECK_DEADLOCK FALSE
