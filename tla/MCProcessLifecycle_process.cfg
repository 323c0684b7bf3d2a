SPECIFICATION FairSpec
CONSTANTS
  Loader = loader
  Main = main
  Workers = {w}
  Killers = {k}
  Joiners = {j}
  None = none
CHECK_DEADLOCK FALSE
INVARIANTS
  UserMemoryKept
  JoinMeansEnd
PROPERTIES
  CleanedUp
