SPECIFICATION FairSpec
CONSTANTS
  PAGES = 3
  WORDS = 2
  OurId <- RunsOld
  PeerIds <- RunsPeer
  NewId <- RunsNew
  MaxFaults = 2
INVARIANTS
  TypeOK
  WholeImage
  LossNeverBricks
PROPERTIES
  Propagates
  TransferEnds
