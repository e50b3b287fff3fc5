SPECIFICATION Spec
CONSTANTS
  Pbufs = {b1, b2}
  Pcb = Pcb
  Null = Null
  TCP_WND = 3
  AckMax = 2
  MaxChain = 2
  MaxRequest = 4
  MaxBytes = 4
  DrainingHandler = FALSE
INVARIANT
  NoRecvedAfterFree
