SPECIFICATION Spec
CONSTANTS
  a = a
  b = b
  c = c
  s = s
  s2 = s2
  NoThread = NoThread
  Threads = {a, b, c, s}
  Cleaner = c
  Spinners = {s}
  BootOrder <- Boot4
  Ops = {"join", "kill"}
  Durations = {0, 1}
  CleanerPeriod = 1
  QueueCapacity = 16
  ThreadQueueCapacity = 1
INVARIANTS
  NoUseAfterFree
