SPECIFICATION FairSpec
CONSTANTS
  Clients = {c1, c2}
  Pcbs = {p1}
  Null = Null
  Bridges = {"connected", "error"}
  MaxCtx = 2
  PortMax = 1
  LwipPorts = {1}
  PortStart = 0
PROPERTY
  Answered
CHECK_DEADLOCK FALSE
