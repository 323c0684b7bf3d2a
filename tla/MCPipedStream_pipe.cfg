SPECIFICATION FairSpec
CONSTANTS
  w = w
  v = v
  r = r
  q = q
  NoThread = NoThread
  NoByte = NoByte
  Writers = {w, v}
  Readers = {r}
  BufferSize = 2
  Lengths = {2, 3}
  MaxBytes = 3
  Calls = {"bulk", "byte", "peek"}
INVARIANTS
  AvailableExact
  PeekedOnce
PROPERTIES
  ImplementsChannel
  WriteReturns
  AllDelivered
