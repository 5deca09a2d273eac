CONSTANTS
  Blocks = {b0, b1, b2, b3}
  NULL = NULL
  MAX_TEXTURES = 2
  FontObjects = {f0, f1}
  Sizes = {1, 2}
SPECIFICATION GraphicsSpec
CHECK_DEADLOCK FALSE
INVARIANTS
  TypeOK
  OneOwner
  DrawsLiveFont
PROPERTIES
  IdsNeverReused
