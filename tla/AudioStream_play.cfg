CONSTANTS
  OutRate = 2
  Rates <- MCRates
  StreamCache = 2
  MaxFrames = 5
  MaxHole = 1
  MaxCalls = 4
  Wrap = 16
  FileSize = 7
  FmtSize = 4
SPECIFICATION FairOpenSpec
CHECK_DEADLOCK FALSE
INVARIANTS
  TypeOK
  HeardFrames
  HeardNeverBehind
PROPERTIES
  LoopGoesOn
  StreamEnds
  WalkEnds
