SPECIFICATION Spec
CONSTANTS
  Clients = {c1}
  Pcbs = {p1}
  Null = Null
  Bridges = {"error"}
  MaxCtx = 1
  PortMax = 1
  LwipPorts = {1}
  PortStart = 0
INVARIANT
  NoLeakedPcb
CHECK_DEADLOCK FALSE
