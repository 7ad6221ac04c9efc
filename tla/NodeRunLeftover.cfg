SPECIFICATION Spec
CONSTANTS
  Kinds = {"snapshot"}
  Entries = 1
  Crashes = 1
  Reboots = 0
INVARIANT DeletionLeavesNothing
CHECK_DEADLOCK FALSE
