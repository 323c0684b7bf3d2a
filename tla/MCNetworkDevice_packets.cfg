SPECIFICATION Spec
CONSTANTS
  NoThread = NoThread
  Garbage = Garbage
  Senders = {s, t}
  Drivers = {"Rtl8139", "Loopback"}
  Capacity = 3
  PoolSize = 2
  OutBuffers = {x, y}
  Descriptors = 2
  MaxArrived = 1
INVARIANTS
  CardOneOwner
  InFlightKept
  NeverWaitsInHandler
SYMMETRY Exchange
CHECK_DEADLOCK FALSE
