SPECIFICATION FairSpec
CONSTANTS
  TCP_SND_BUF = 4
  TCP_MSS = 2
  PeerWnd = 2
  MaxSize = 5
  MaxWrites = 2
INVARIANTS
  TypeOK
  StreamInOrder
  SuccessWhole
  ErrorMeansNothing
PROPERTIES
  AllSent
  ImplementsTx
