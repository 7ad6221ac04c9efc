SPECIFICATION LiveSpec
CONSTANTS
  c1 = c1
  c2 = c2
  Calls = {c1, c2}
  Kinds <- MixedKinds
  Frames = 3
  Window = 2
  Depth = 3
  MaxTombs = 2
  Slots = 1
  Impatient = {c1}
INVARIANTS
  TypeOK
  CancelHarmless
  CreditAgreed
  SourceComplete
PROPERTY LinkResolves
CHECK_DEADLOCK FALSE
