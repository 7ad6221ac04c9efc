SPECIFICATION Spec
CONSTANTS
  Budgets <- PageBudgets
  Pages = "all"
INVARIANTS
  ActiveIsObserved
CHECK_DEADLOCK FALSE
