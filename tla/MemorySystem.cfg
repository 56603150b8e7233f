SPECIFICATION SystemSpec
CONSTANTS
  HeapSize = 152
  Requests = {20, 90, 150}
  NULL = NULL
  None = None
  Node <- Addresses
  NumHeaps = 1
  Static = FALSE
  ForeignBytes = 8
  MaxBreak = 344
INVARIANTS
  TypeOK
  RegionsReadWhileMapped
  FreedUnlessRecreated
  RepeatServed
  TreeHoldsInactive
  TreeOrdered
  RefusedOnlyWhenFull
PROPERTIES
  ImplementsBlockList
  ImplementsManager
CHECK_DEADLOCK FALSE
