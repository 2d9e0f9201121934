\* Hand-off of four connections to one I/O thread, with connections closing
\* and dcons recycled through the free lists.  Four is the fewest with which
\* the fast path's unlocked GEARMAN_LIST_ADD (line 83) runs while the I/O
\* thread is part-way through GEARMAN_LIST_DEL: a lost count update leaves
\* dcon_add_count at 2^32-1 over an empty list, a locked add wraps it to 0,
\* and the next accept takes the fast path over a non-empty list.
CONSTANTS
  Conns = {d1, d2, d3, d4}
  Threads <- MCOneThread
  NULL = NULL
  CountMod = 16
  MaxThreadFree = 1
  NDEBUG = FALSE
  EventAddFails = TRUE
  MaxFreeCon = 1
SPECIFICATION Spec
INVARIANT TypeOK
 
 
VIEW HandoffView
CHECK_DEADLOCK FALSE
