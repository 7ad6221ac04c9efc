SPECIFICATION LiveSpec
CONSTANTS
  Requests <- TwoRequests
  Commands = {"c1"}
  Budgets <- CalmBudgets
PROPERTY RowsKeepTheirWindow
CHECK_DEADLOCK FALSE
