CONSTANTS
  Blocks = {b0, b1}
  NULL = NULL
  MAX_TEXTURES = 2
SPECIFICATION Spec
CHECK_DEADLOCK FALSE
INVARIANTS
  HandleNamesTexture
