\* Three connections handed round robin to two I/O threads, with connections
\* closing and dcons recycled through the free lists.  No symmetry:
\* HandoffReturns is a liveness property.
CONSTANTS
  Conns = {d1, d2, d3}
  Threads <- MCThreads
  NULL = NULL
  CountMod = 8
  MaxThreadFree = 1
  NDEBUG = FALSE
  EventAddFails = TRUE
  MaxFreeCon = 1
SPECIFICATION Spec
PROPERTY HandoffReturns
CHECK_DEADLOCK FALSE
