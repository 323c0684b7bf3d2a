SPECIFICATION Spec
CONSTANTS
  Threads = {f, t, u}
  First = f
  NoThread = none
  Values = {0, 1}
  Default = 0
  PerSecond = 2
  YieldInterval = 1
  MaxTicks = 3
INVARIANTS
  OwnRegisters
  LastFpuThreadAlive
  UntornRead
  NoTickLost
SYMMETRY Others
\* yield() with no other ready thread waits for ever
CHECK_DEADLOCK FALSE
