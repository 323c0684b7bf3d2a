SPECIFICATION HeapSpec
CONSTANTS
  Callers = {a}
  Nobody = nobody
  Total = 28
  HeaderSize = 3
  MinBlockSize = 1
  PageSize = 8
  Sizes = {2, 8}
  Alignments = {1, 8}
  Null = null
CHECK_DEADLOCK FALSE
INVARIANT
  HeaderKept
