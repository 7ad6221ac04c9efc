SPECIFICATION BridgeSpec
CONSTANTS
  Clients = {c1, c2}
  Sizes = {s1, s2}
  NoClient = NoClient
  NoPlan = NoPlan
  NoResize = NoResize
  NoSize = NoSize
  Backends = {"local", "ssh", "node"}
  MaxFrames = 3
  MaxFaults = 1
INVARIANTS
  BridgeTypeOK
  OwnersConnected
  BootstrapOnce
  AdmittedFinishes
  GridHasOneOwner
PROPERTIES
  ControlRevised
CHECK_DEADLOCK FALSE
SYMMETRY Symmetry
