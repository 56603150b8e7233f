SPECIFICATION Spec
CONSTANTS
  Capacity = 3
  Socket = {m, a, b, c}
  Master = m
  NULL = NULL
  MaxBacklog = 1
  UdpMaster = u
  Stdio = s
  MaxJunk = 1
  VirtualHeap = 2195872
  Connections = 257
SYMMETRY ClientSymmetry
VIEW WithoutStaleAddresses
CONSTRAINT TwoBusy
INVARIANTS
  TypeOK
  NoDescriptorLost
  HandlersMapped
  ServesWhenReady
PROPERTIES
  UsesHandlerAsSpecified
  OnlyEndedClientsClosed
CHECK_DEADLOCK FALSE
