SPECIFICATION Spec
CONSTANTS
  Budgets <- AllBudgets
  Pages = "started"
INVARIANTS
  TypeOK
  CommandRunsOnce
  RowIsTrue
PROPERTIES
  TerminalIsFinal
  ImplementsRunLife
CHECK_DEADLOCK FALSE
