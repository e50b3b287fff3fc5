SPECIFICATION Spec
CONSTANTS
  Clients = {c1}
  Pcbs = {p1}
  Null = Null
  Bridges = {"received", "fin"}
  MaxCtx = 2
  PortMax = 1
  LwipPorts = {1}
  PortStart = 0
INVARIANT
  NoFreedRx
CHECK_DEADLOCK FALSE
