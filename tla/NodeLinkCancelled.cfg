SPECIFICATION Spec
CONSTANTS
  c1 = c1
  c2 = c2
  Calls = {c1, c2}
  Kinds <- PushKinds
  Frames = 1
  Window = 1
  Depth = 2
  MaxTombs = 2
  Slots = 1
  Impatient = {c1, c2}
INVARIANTS
  LateFramesHarmless
CHECK_DEADLOCK FALSE
