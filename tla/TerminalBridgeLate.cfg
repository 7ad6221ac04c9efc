SPECIFICATION BridgeSpec
CONSTANTS
  Clients = {c1, c2}
  Sizes = {s1, s2}
  NoClient = NoClient
  NoPlan = NoPlan
  NoResize = NoResize
  NoSize = NoSize
  Backends = {"ssh"}
  MaxFrames = 3
  MaxFaults = 1
INVARIANTS
  OneViewSizes
CHECK_DEADLOCK FALSE
SYMMETRY Symmetry
