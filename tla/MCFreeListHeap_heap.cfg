SPECIFICATION HeapSpec
CONSTANTS
  Callers = {a, b}
  Nobody = nobody
  Total = 28
  HeaderSize = 3
  MinBlockSize = 1
  PageSize = 8
  Sizes = {2, 8}
  Alignments = {1, 8}
  Null = null
SYMMETRY Exchange
CHECK_DEADLOCK FALSE
INVARIANTS
  Tiled
  ListIntact
  BlockFits
