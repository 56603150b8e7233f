SPECIFICATION Spec
CONSTANTS
  HeapSize = 184
  Heaps = {0, 200}
  Requests <- SmallAndLarge
INVARIANTS
  TypeOK
  TiledUnlessStranded
  ActiveOwnedUnlessStranded
  FreeMemoryWhole
PROPERTY
  ImplementsHeap
CHECK_DEADLOCK FALSE
