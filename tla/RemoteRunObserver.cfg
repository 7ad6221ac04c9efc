SPECIFICATION LiveSpec
CONSTANTS
  Budgets <- BreakBudgets
  Pages = "none"
PROPERTY RunsAreObserved
CHECK_DEADLOCK FALSE
