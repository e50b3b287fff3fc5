SPECIFICATION Spec
CONSTANTS
  Clients = {c1, c2}
  Pcbs = {p1}
  Null = Null
  Bridges = {"connected", "error"}
  MaxCtx = 1
  PortMax = 1
  LwipPorts = {1}
  PortStart = 0
INVARIANT
  PcbUseValid
CHECK_DEADLOCK FALSE
