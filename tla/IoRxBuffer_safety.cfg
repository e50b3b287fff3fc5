SPECIFICATION Spec
CONSTANTS
  Pbufs = {b1, b2, b3}
  Pcb = Pcb
  Null = Null
  TCP_WND = 4
  AckMax = 2
  MaxChain = 2
  MaxRequest = 5
  MaxBytes = 6
  DrainingHandler = FALSE
SYMMETRY PbufSymmetry
INVARIANTS
  TypeOK
  ChainOwned
  CursorOnStream
  CursorInSegment
  WindowConserved
  ExactConsume
PROPERTY
  FreedOnlyWhenTaken
