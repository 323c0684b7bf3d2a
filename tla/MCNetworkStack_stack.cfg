SPECIFICATION FairSpec
CONSTANTS
  a = a
  b = b
  s = s
  t = t
  Apps = {a, b}
  Senders = {a}
  SocketOf <- OwnSockets
  Reader = reader
  Nobody = nobody
  Hosts = {h}
  Ports = {1}
  MaxRequestRetries = 2
  OutCapacity = 1
  Descriptors = 1
  MaxDatagrams = 2
CHECK_DEADLOCK FALSE
INVARIANTS
  SocketAlive
  ReceivedInOrder
  AddressUnique
PROPERTIES
  ReaderReturns
  CallsReturn
