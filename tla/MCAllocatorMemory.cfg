SPECIFICATION Spec
CONSTANTS
  BufSize = 3
  StdBlock = 4
  MaxAlign = 4
  DefaultAlign = 2
  UintMod = 64
  Sizes = {0, 1, 3, 6}
  Aligns = {0, 1, 3, 4, 8}
  Bases = {0, 2}
  Doublings = 3
  MaxNodes = 3
  MaxBlocks = 4
INVARIANTS
  BlocksSound
CHECK_DEADLOCK FALSE
