CONSTANTS
  ReadChunk = 3
  MaxResponse = 13
SPECIFICATION FairSpec
INVARIANTS
  NetOrder
  NothingHeld
  ResponseWhole
PROPERTIES
  CallReturns
