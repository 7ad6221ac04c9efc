SPECIFICATION LiveSpec
CONSTANTS
  Kinds = {"snapshot", "git"}
  Entries = 2
  Crashes = 1
  Reboots = 1
INVARIANTS TypeOK ReportsAreFinal ServedWorkIsWhole
PROPERTIES ImplementsRunLife StartedRunIsReported
CHECK_DEADLOCK FALSE
