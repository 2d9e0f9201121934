\* gearmand's free list full (MaxFreeCon = 0 stands for 1000 free dcons):
\* a served connection that closes is freed.
CONSTANTS
  Conns = {d1, d2, d3}
  Threads <- MCOneThread
  NULL = NULL
  CountMod = 8
  MaxThreadFree = 1
  NDEBUG = FALSE
  EventAddFails = FALSE
  MaxFreeCon = 0
SPECIFICATION Spec
SYMMETRY ConnSymmetry
CHECK_DEADLOCK FALSE
INVARIANT NoUseAfterFree
