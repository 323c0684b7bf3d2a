SPECIFICATION Spec
CONSTANTS
  NoThread = NoThread
  Threads = {a, b}
  FrameCount = 5
  TableSize = 3
  DmaFrame = 2
  KernelEnd = 1
  Reserved = {1}
  BootMapped <- Boot
  RunLengths = {2}
  SlabBlocks <- Pools
  SlabBoot = {2}
INVARIANTS
  OneTableUser
PROPERTIES
  ImplementsFrameOwners
SYMMETRY Exchange
CHECK_DEADLOCK FALSE
