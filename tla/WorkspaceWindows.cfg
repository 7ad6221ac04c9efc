SPECIFICATION Spec
CONSTANTS
  Requests <- ThreeRequests
  Commands = {"c1", "c2"}
  Budgets <- FaultBudgets
INVARIANTS
  TypeOK
  LaunchOnce
  OneWindowEach
  LockOwned
PROPERTY RunningUndisturbed
CHECK_DEADLOCK FALSE
