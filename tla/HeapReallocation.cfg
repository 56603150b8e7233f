SPECIFICATION Spec
CONSTANTS
  HeapSize = 304
  Heaps = {0}
  Requests <- SmallAndLarge
INVARIANT
  FailedReallocationHarmless
CHECK_DEADLOCK FALSE
