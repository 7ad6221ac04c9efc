SPECIFICATION LiveSpec
CONSTANTS
  r1 = r1
  r2 = r2
  NoRun = NoRun
  Runs <- TwoRuns
  Budgets <- FaultBudgets
PROPERTY EndIsAlwaysObserved
CHECK_DEADLOCK FALSE
