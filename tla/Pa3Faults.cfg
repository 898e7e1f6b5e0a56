SPECIFICATION Spec
CONSTANTS
  Children = 3
  Initial <- Tens
  Orders <- ThereAndBack
  HistoryLimit = 23
  MaxBalance = 50
  MaxClock = 40
  Capacity = 4
  ForkMayFail = TRUE
  Mortal = {0, 1, 2}
INVARIANTS TypeOK MoneyConserved ParentReports
PROPERTY ImplementsAccounts
CHECK_DEADLOCK FALSE
