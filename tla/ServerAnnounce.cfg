SPECIFICATION Spec
CONSTANTS
  Capacity = 3
  Socket = {m, a, b}
  Master = m
  NULL = NULL
  MaxBacklog = 1
INVARIANT
  NewClientsAnnounced
CHECK_DEADLOCK FALSE
