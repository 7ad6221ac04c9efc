SPECIFICATION LiveSpec
CONSTANTS
  r1 = r1
  r2 = r2
  NoRun = NoRun
  Runs <- TwoRuns
  Budgets <- FaultBudgets
INVARIANTS
  TypeOK
  OneActive
  EndedIsQuiet
  OutcomeTrue
  RunsWhatItClaimed
PROPERTY EndIsObserved
CHECK_DEADLOCK FALSE
