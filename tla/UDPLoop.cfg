SPECIFICATION FairSpec
CONSTANTS
  Capacity = 5
  Socket = {m, junk, a, b, c}
  Master = m
  Junk = junk
  NULL = NULL
  MaxQueue = 2
INVARIANTS
  TypeOK
  SearchMissesOnlyLast
  UnsetOnlyAfterMonopoly
PROPERTY
  TcpHasItsTurn
CHECK_DEADLOCK FALSE
