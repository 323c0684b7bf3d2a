SPECIFICATION Spec
CONSTANTS
  a = a
  b = b
  c = c
  s = s
  s2 = s2
  NoThread = NoThread
  Threads = {a, b, c, s}
  Cleaner = c
  Spinners = {s}
  BootOrder <- Boot2
  Ops = {"sleep", "join", "exit", "kill", "ready", "alloc"}
  Durations = {0, 1}
  CleanerPeriod = 1
  QueueCapacity = 3
  ThreadQueueCapacity = 1
INVARIANTS
  TypeOK
  LockDiscipline
  TokenConservation
  NoEarlyReturn
PROPERTIES
  JoinMeansExit
