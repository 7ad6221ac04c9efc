SPECIFICATION LiveSpec
CONSTANTS
  Budgets <- StopBudgets
  Pages = "none"
PROPERTY RunsResolve
CHECK_DEADLOCK FALSE
