SPECIFICATION Spec
CONSTANTS
  Capacity = 4
  Socket = {m, a, b, c, d}
  Master = m
  NULL = NULL
  MaxBacklog = 1
SYMMETRY ClientSymmetry
VIEW WithoutStaleAddresses
CONSTRAINT LeavingClients
INVARIANTS
  TypeOK
  NoDescriptorLost
  ScanCountExact
  DefinedUnlessDesynced
  SlotsKeepTheirView
CHECK_DEADLOCK FALSE
