CONSTANTS
  Paths = {"p", "q"}
  Bytes = {"x", "y"}
  MaxLength = 3
  Chunk = 2
SPECIFICATION Spec
INVARIANTS
  NothingLost
  PositionKnown
