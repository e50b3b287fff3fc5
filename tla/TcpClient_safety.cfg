SPECIFICATION Spec
CONSTANTS
  Clients = {c1, c2}
  Pcbs = {p1, p2}
  Null = Null
  Bridges = {"received", "error"}
  MaxCtx = 2
  PortMax = 3
  LwipPorts = {2, 3}
  PortStart = 3
SYMMETRY ClientPcbSymmetry
INVARIANTS
  TypeOK
  ActivePcbOwned
  HandleValid
  StaleUseExplained
  PortsDistinct
PROPERTY
  NoSilentEnd
CHECK_DEADLOCK FALSE
