\* Three connections to one I/O thread: the unlocked count++ of the fast
\* path races the thread's count-- and a later wakeup is never sent.
CONSTANTS
  Conns = {d1, d2, d3}
  Threads <- MCOneThread
  NULL = NULL
  CountMod = 8
  MaxThreadFree = 1
  NDEBUG = FALSE
  EventAddFails = FALSE
  MaxFreeCon = 1
SPECIFICATION Spec
CHECK_DEADLOCK FALSE
PROPERTY ConnectionsServed
