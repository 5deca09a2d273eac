CONSTANTS
  MaxFetches = 3
  ReadChunk = 3
  MaxResponse = 7
SPECIFICATION FairSpec
CHECK_DEADLOCK FALSE
INVARIANTS
  TypeOK
  BodyOwned
PROPERTIES
  KeepsPromises
  FetchSettles
