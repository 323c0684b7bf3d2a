SPECIFICATION FairSpec
CONSTANTS
  r = r
  a = a
  h = h
  NoBlock = NoBlock
  Threads = {r, h, a}
  Refiller = r
  Handler = h
  BlockCount = 4
  PoolSize = 2
  BootstrapPages = 1
  MappedPages = 2
  Word = 5
INVARIANTS
  TypeOK
  OneOwner
  SlotOwned
PROPERTIES
  ImplementsBlockPool
  EmptyPoolIsRefilled
CHECK_DEADLOCK FALSE
