SPECIFICATION FairSpec
CONSTANTS
  a = a
  b = b
  c = c
  s = s
  s2 = s2
  NoThread = NoThread
  Threads = {a, b, c, s, s2}
  Cleaner = c
  Spinners = {s, s2}
  BootOrder <- Boot5
  Ops = {"sleep", "exit"}
  Durations = {1}
  CleanerPeriod = 0
  QueueCapacity = 16
  ThreadQueueCapacity = 2
INVARIANTS
  NoUseAfterFree
  SoundUnlessTorn
  NeverPollsEmptyQueue
PROPERTIES
  SleeperRunsAgain
  TerminatedIsFreed
