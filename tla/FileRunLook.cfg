SPECIFICATION Spec
CONSTANTS
  r1 = r1
  r2 = r2
  NoRun = NoRun
  Runs <- TwoRuns
  Budgets <- FaultBudgets
INVARIANT ClosedIsQuiet
CHECK_DEADLOCK FALSE
