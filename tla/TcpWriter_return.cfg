SPECIFICATION Spec
CONSTANTS
  TCP_SND_BUF = 4
  TCP_MSS = 2
  PeerWnd = 2
  MaxSize = 5
  MaxWrites = 1
INVARIANT
  ReturnIsQueued
