SPECIFICATION FairSpec
CONSTANTS
  ID_MOD = 4
  PRIORITY_SLOTS = 3
  MaxMoves = 3
  MaxFaults = 2
INVARIANTS
  TypeOK
  PlacedLast
  ReadsItsOwn
  ArrivalTold
PROPERTIES
  LetsGo
