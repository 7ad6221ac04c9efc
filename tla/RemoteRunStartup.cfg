SPECIFICATION Spec
CONSTANTS
  Budgets <- CloneBudgets
  Pages = "none"
INVARIANT StartupVerdictIsTrue
CHECK_DEADLOCK FALSE
