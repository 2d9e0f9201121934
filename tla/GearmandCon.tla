----------------------------- MODULE GearmandCon -----------------------------
(***************************************************************************)
(* libgearman/gearmand_con.c: the main thread accepts connections and      *)
(* hands each one (a gearmand_con_st, "dcon") to an I/O thread, round      *)
(* robin, on the thread's dcon_add list; the I/O thread, woken through its *)
(* pipe, moves the dcons of that list to its own dcon list (_con_add).     *)
(*                                                                         *)
(* The main thread adds to dcon_add without the lock when dcon_add_count   *)
(* reads 0, while the I/O thread removes from it under the lock.  Both     *)
(* sides are modelled one shared-memory access per step wherever the       *)
(* other side can touch the same words: the GEARMAN_LIST_ADD and           *)
(* GEARMAN_LIST_DEL pointer stores and the load and store of `count++' and *)
(* `count--' (the data race makes the interleaved outcomes the ones a      *)
(* sequentially consistent build can produce).  Sections that touch only   *)
(* lock-protected words, or only the thread's own data, are one step.      *)
(*                                                                         *)
(* On its thread a dcon's libevent event is re-registered by               *)
(* gearmand_con_watch and torn down by gearmand_con_free; `armed' is what  *)
(* libevent has pending for it.                                            *)
(***************************************************************************)
EXTENDS Integers, FiniteSets, Sequences, SequencesExt

CONSTANTS
  Conns,          \* connections the main thread accepts (one dcon each)
  Threads,        \* I/O threads, in round-robin order 1 .. N
  NULL,           \* the NULL pointer
  CountMod,       \* 2^32: dcon_add_count is a uint32_t
  MaxThreadFree,  \* gearmand->max_thread_free_dcon_count
  MaxFreeCon,     \* GEARMAN_MAX_FREE_SERVER_CON
  NDEBUG,         \* built with NDEBUG: assert() does not evaluate its argument
  EventAddFails   \* libevent's event_add may return -1

ASSUME Threads = 1 .. Cardinality(Threads)

VARIABLES
  mpc,       \* main thread: where it is in gearmand_con_create
  mdcon,     \* main thread: the dcon being handed over
  mreg,      \* main thread: a value loaded into a register
  next,      \* gearmand->thread_add_next
  accepted,  \* connections accepted so far
  dthread,   \* dcon->thread
  head,      \* thread->dcon_add_list
  count,     \* thread->dcon_add_count
  nxt, prv,  \* dcon->next, dcon->prev
  lock,      \* thread->lock: NULL, "main" or "io"
  pipe,      \* wakeup bytes written to the thread's pipe, not yet read
  tpc,       \* I/O thread: where it is in its wakeup handler
  tdcon,     \* I/O thread: the dcon being taken
  treg,      \* I/O thread: a value loaded into a register
  served,    \* thread->dcon_list, newest first
  adds,      \* how many times _con_add ran for each dcon
  closed,    \* connections closed by their thread (gearmand_con_free)
  tfree,     \* thread->free_dcon_count
  mfree,     \* gearmand->free_dcon_count
  freed,     \* dcons given back to free()
  last_events, \* dcon->last_events: the libevent events last asked for
  armed      \* the events libevent has pending for the dcon's event

vars == <<mpc, mdcon, mreg, next, accepted, dthread, head, count, nxt, prv,
          lock, pipe, tpc, tdcon, treg, served, adds, closed, tfree, mfree,
          freed, last_events, armed>>

main == <<mpc, mdcon, mreg, next, accepted, dthread, mfree>>
list == <<head, count, nxt, prv>>
ev   == <<last_events, armed>>
io   == <<tpc, tdcon, treg, served, adds, closed, tfree, freed, ev>>

Init ==
  /\ mpc = "accept" /\ mdcon = NULL /\ mreg = 0
  /\ next = 1
  /\ accepted = {}
  /\ dthread = [c \in Conns |-> NULL]
  /\ head = [t \in Threads |-> NULL]
  /\ count = [t \in Threads |-> 0]
  /\ nxt = [c \in Conns |-> NULL]
  /\ prv = [c \in Conns |-> NULL]
  /\ lock = [t \in Threads |-> NULL]
  /\ pipe = [t \in Threads |-> 0]
  /\ tpc = [t \in Threads |-> "idle"]
  /\ tdcon = [t \in Threads |-> NULL]
  /\ treg = [t \in Threads |-> 0]
  /\ served = [t \in Threads |-> <<>>]
  /\ adds = [c \in Conns |-> 0]
  /\ closed = {}
  /\ tfree = [t \in Threads |-> 0]
  /\ mfree = 0
  /\ freed = {}
  /\ last_events = [c \in Conns |-> {}]
  /\ armed = [c \in Conns |-> {}]

\* The thread the dcon in hand was given to.
mt == dthread[mdcon]

-----------------------------------------------------------------------------
(***************************************************************************)
(* Main thread: gearmand_con_create                                        *)
(***************************************************************************)

Accept(c) ==
  /\ mpc = "accept"
  /\ c \notin accepted
  /\ LET fast == count[next] = 0 /\ tfree[next] < MaxThreadFree
     IN  mpc' = IF fast THEN "fp_prev" ELSE "lk_add"
  /\ mdcon' = c
  /\ accepted' = accepted \cup {c}
  /\ dthread' = [dthread EXCEPT ![c] = next]
  /\ mfree' = IF mfree > 0 THEN mfree - 1 ELSE mfree
  /\ UNCHANGED <<mreg, next, list, lock, pipe, io>>

\* GEARMAN_LIST_ADD, unlocked: `if (list != NULL) list->prev= obj'.
FpPrev ==
  /\ mpc = "fp_prev"
  /\ prv' = IF head[mt] # NULL THEN [prv EXCEPT ![head[mt]] = mdcon] ELSE prv
  /\ mpc' = "fp_next"
  /\ UNCHANGED <<mdcon, mreg, next, accepted, dthread, mfree, head, count, nxt,
                 lock, pipe, io>>

\* `obj->next= list; obj->prev= NULL' (obj is not yet reachable).
FpNext ==
  /\ mpc = "fp_next"
  /\ nxt' = [nxt EXCEPT ![mdcon] = head[mt]]
  /\ prv' = [prv EXCEPT ![mdcon] = NULL]
  /\ mpc' = "fp_head"
  /\ UNCHANGED <<mdcon, mreg, next, accepted, dthread, mfree, head, count,
                 lock, pipe, io>>

\* `list= obj'.
FpHead ==
  /\ mpc = "fp_head"
  /\ head' = [head EXCEPT ![mt] = mdcon]
  /\ mpc' = "fp_load"
  /\ UNCHANGED <<mdcon, mreg, next, accepted, dthread, mfree, count, nxt, prv,
                 lock, pipe, io>>

\* `count++': the load.
FpLoad ==
  /\ mpc = "fp_load"
  /\ mreg' = count[mt]
  /\ mpc' = "fp_store"
  /\ UNCHANGED <<mdcon, next, accepted, dthread, mfree, list, lock, pipe, io>>

\* `count++': the store.
FpStore ==
  /\ mpc = "fp_store"
  /\ count' = [count EXCEPT ![mt] = (mreg + 1) % CountMod]
  /\ mpc' = "fp_wake"
  /\ UNCHANGED <<mdcon, mreg, next, accepted, dthread, mfree, head, nxt, prv,
                 lock, pipe, io>>

(***************************************************************************)
(* Line 84: gearmand_thread_wakeup(dcon->thread, GEARMAND_WAKEUP_CON), and *)
(* line 115: thread_add_next moves on.                                     *)
(***************************************************************************)
FpWake ==
  /\ mpc = "fp_wake"
  /\ pipe' = [pipe EXCEPT ![mt] = @ + 1]
  /\ next' = (next % Cardinality(Threads)) + 1
  /\ mpc' = "accept"
  /\ mdcon' = NULL
  /\ UNCHANGED <<mreg, accepted, dthread, mfree, list, lock, io>>

LkAdd ==
  /\ mpc = "lk_add"
  /\ lock[mt] = NULL
  /\ prv' = [c \in Conns |->
               CASE c = mdcon -> NULL
                 [] c = head[mt] -> mdcon
                 [] OTHER -> prv[c]]
  /\ nxt' = [nxt EXCEPT ![mdcon] = head[mt]]
  /\ head' = [head EXCEPT ![mt] = mdcon]
  /\ count' = [count EXCEPT ![mt] = (@ + 1) % CountMod]
  /\ tfree' = [tfree EXCEPT ![mt] = 0]
  /\ mreg' = tfree[mt]
  /\ mpc' = "lk_wake"
  /\ UNCHANGED <<mdcon, next, accepted, dthread, mfree, lock, pipe, tpc,
                 tdcon, treg, served, adds, closed, freed, ev>>

(***************************************************************************)
(* Lines 103-115, after the unlock: wake the thread only if an unlocked    *)
(* read of dcon_add_count gives 1, move the reclaimed dcons to gearmand's  *)
(* free list, and move thread_add_next on.                                 *)
(***************************************************************************)
LkWake ==
  /\ mpc = "lk_wake"
  /\ pipe' = IF count[mt] = 1 THEN [pipe EXCEPT ![mt] = @ + 1] ELSE pipe
  /\ mfree' = mfree + mreg
  /\ next' = (next % Cardinality(Threads)) + 1
  /\ mpc' = "accept"
  /\ mdcon' = NULL
  /\ UNCHANGED <<mreg, accepted, dthread, list, lock, io>>

-----------------------------------------------------------------------------
(***************************************************************************)
(* I/O thread t: the GEARMAND_WAKEUP_CON handler, gearmand_con_check_queue *)
(***************************************************************************)

\* The thread's event loop reads a wakeup byte from its pipe.
Wakeup(t) ==
  /\ tpc[t] = "idle"
  /\ pipe[t] > 0
  /\ pipe' = [pipe EXCEPT ![t] = @ - 1]
  /\ tpc' = [tpc EXCEPT ![t] = "check"]
  /\ UNCHANGED <<main, list, lock, tdcon, treg, served, adds, closed, tfree,
                 freed, ev>>

\* Line 155: the dirty check of dcon_add_count.
Check(t) ==
  /\ tpc[t] = "check"
  /\ tpc' = [tpc EXCEPT ![t] = IF count[t] = 0 THEN "idle" ELSE "loop"]
  /\ UNCHANGED <<main, list, lock, pipe, tdcon, treg, served, adds, closed,
                 tfree, freed, ev>>

\* Line 160: `while (thread->dcon_add_list != NULL)', read without the lock.
Loop(t) ==
  /\ tpc[t] = "loop"
  /\ tpc' = [tpc EXCEPT ![t] = IF head[t] = NULL THEN "idle" ELSE "take"]
  /\ UNCHANGED <<main, list, lock, pipe, tdcon, treg, served, adds, closed,
                 tfree, freed, ev>>

\* Lines 162-163: lock, and `dcon= thread->dcon_add_list'.
Take(t) ==
  /\ tpc[t] = "take"
  /\ lock[t] = NULL
  /\ lock' = [lock EXCEPT ![t] = "io"]
  /\ tdcon' = [tdcon EXCEPT ![t] = head[t]]
  /\ tpc' = [tpc EXCEPT ![t] = "del_head"]
  /\ UNCHANGED <<main, list, pipe, treg, served, adds, closed, tfree, freed,
                 ev>>

\* Fault model: the head is not advanced past the removed dcon.
DelHeadKeep(t) ==
  /\ tpc[t] = "del_head"
  /\ tpc' = [tpc EXCEPT ![t] = "del_prev"]
  /\ UNCHANGED <<main, list, lock, pipe, tdcon, treg, served, adds, closed,
                 tfree, freed, ev>>

\* GEARMAN_LIST_DEL: `if (list == obj) list= obj->next'.
DelHead(t) ==
  /\ tpc[t] = "del_head"
  /\ head' = IF head[t] = tdcon[t] THEN [head EXCEPT ![t] = nxt[tdcon[t]]]
             ELSE head
  /\ tpc' = [tpc EXCEPT ![t] = "del_prev"]
  /\ UNCHANGED <<main, count, nxt, prv, lock, pipe, tdcon, treg, served, adds,
                 closed, tfree, freed, ev>>

\* `if (obj->prev != NULL) obj->prev->next= obj->next'.
DelPrev(t) ==
  /\ tpc[t] = "del_prev"
  /\ LET o == tdcon[t]
     IN  nxt' = IF prv[o] # NULL THEN [nxt EXCEPT ![prv[o]] = nxt[o]] ELSE nxt
  /\ tpc' = [tpc EXCEPT ![t] = "del_next"]
  /\ UNCHANGED <<main, head, count, prv, lock, pipe, tdcon, treg, served, adds,
                 closed, tfree, freed, ev>>

\* `if (obj->next != NULL) obj->next->prev= obj->prev'.
DelNext(t) ==
  /\ tpc[t] = "del_next"
  /\ LET o == tdcon[t]
     IN  prv' = IF nxt[o] # NULL THEN [prv EXCEPT ![nxt[o]] = prv[o]] ELSE prv
  /\ tpc' = [tpc EXCEPT ![t] = "del_load"]
  /\ UNCHANGED <<main, head, count, nxt, lock, pipe, tdcon, treg, served, adds,
                 closed, tfree, freed, ev>>

\* `count--': the load.
DelLoad(t) ==
  /\ tpc[t] = "del_load"
  /\ treg' = [treg EXCEPT ![t] = count[t]]
  /\ tpc' = [tpc EXCEPT ![t] = "del_store"]
  /\ UNCHANGED <<main, list, lock, pipe, tdcon, served, adds, closed, tfree,
                 freed, ev>>

\* _con_add: GEARMAN_LIST_ADD(thread->dcon, dcon,).
ConAdd(t, c) ==
  /\ served' = [served EXCEPT ![t] = <<c>> \o @]
  /\ adds' = [adds EXCEPT ![c] = @ + 1]

\* Fault model: dcon_add_count is a signed int and goes below 0.
DelStoreSigned(t) ==
  /\ tpc[t] = "del_store"
  /\ count' = [count EXCEPT ![t] = treg[t] - 1]
  /\ lock' = [lock EXCEPT ![t] = NULL]
  /\ ConAdd(t, tdcon[t])
  /\ tpc' = [tpc EXCEPT ![t] = "loop"]
  /\ UNCHANGED <<main, head, nxt, prv, pipe, tdcon, treg, closed, tfree,
                 freed, ev>>

\* Fault model: the unlock of line 165 is left out.
DelStoreNoUnlock(t) ==
  /\ tpc[t] = "del_store"
  /\ count' = [count EXCEPT ![t] = (treg[t] + CountMod - 1) % CountMod]
  /\ ConAdd(t, tdcon[t])
  /\ tpc' = [tpc EXCEPT ![t] = "loop"]
  /\ UNCHANGED <<main, head, nxt, prv, lock, pipe, tdcon, treg, closed, tfree,
                 freed, ev>>

(***************************************************************************)
(* `count--': the store; line 165 unlocks; line 167 _con_add puts the dcon *)
(* on the thread's own dcon list (its allocation failure, which shuts      *)
(* the server down, is not modelled).                                      *)
(***************************************************************************)
DelStore(t) ==
  /\ tpc[t] = "del_store"
  /\ count' = [count EXCEPT ![t] = (treg[t] + CountMod - 1) % CountMod]
  /\ lock' = [lock EXCEPT ![t] = NULL]
  /\ ConAdd(t, tdcon[t])
  /\ tpc' = [tpc EXCEPT ![t] = "loop"]
  /\ UNCHANGED <<main, head, nxt, prv, pipe, tdcon, treg, closed, tfree,
                 freed, ev>>

(***************************************************************************)
(* gearmand_con_watch: the server connection asks for POLLIN and/or        *)
(* POLLOUT; they are turned into EV_READ/EV_WRITE, and only when that      *)
(* differs from dcon->last_events is the event deleted (inside an assert)  *)
(* and set and added again.  When event_add fails the function returns     *)
(* GEARMAN_EVENT with last_events left as it was.                          *)
(***************************************************************************)
PollSets == {{"POLLIN"}, {"POLLIN", "POLLOUT"}}

ToEv(events) == {IF e = "POLLIN" THEN "EV_READ" ELSE "EV_WRITE" : e \in events}

\* What a deleting assert leaves pending: nothing, or, under NDEBUG, a.
AssertDel(a) == IF NDEBUG THEN a ELSE {}

Watch(t, c, events) ==
  /\ tpc[t] = "idle"
  /\ c \in Range(served[t])
  /\ last_events[c] # ToEv(events)
  /\ \/ /\ armed' = [armed EXCEPT ![c] = ToEv(events)]
        /\ last_events' = [last_events EXCEPT ![c] = ToEv(events)]
     \/ /\ EventAddFails
        /\ armed' = [armed EXCEPT ![c] = AssertDel(@)]
        /\ UNCHANGED last_events
  /\ UNCHANGED <<main, list, lock, pipe, tpc, tdcon, treg, served, adds,
                 closed, tfree, freed>>

(***************************************************************************)
(* Lines 122-128: delete the event (in an assert), set it to EV_READ and   *)
(* add it (around a libevent bug), and delete it again (in an assert).     *)
(* Under NDEBUG the event is never deleted and stays pending.              *)
(***************************************************************************)
CloseEvents(a) == AssertDel(AssertDel(a) \cup {"EV_READ"})

(***************************************************************************)
(* gearmand_con_free: a served connection closes.  Its event is torn down, *)
(* and the dcon goes on the thread's free list under the lock if           *)
(* gearmand's free list (read without the lock) is not full, and is freed  *)
(* otherwise.                                                              *)
(***************************************************************************)
Close(t, c) ==
  /\ tpc[t] = "idle"
  /\ c \in Range(served[t])
  /\ served' = [served EXCEPT ![t] = Remove(@, c)]
  /\ closed' = closed \cup {c}
  /\ armed' = [armed EXCEPT ![c] = CloseEvents(@)]
  /\ IF mfree < MaxFreeCon
     THEN /\ lock[t] = NULL
          /\ tfree' = [tfree EXCEPT ![t] = @ + 1]
          /\ UNCHANGED freed
     ELSE /\ freed' = freed \cup {c}
          /\ UNCHANGED tfree
  /\ UNCHANGED <<main, list, lock, pipe, tpc, tdcon, treg, adds, last_events>>

-----------------------------------------------------------------------------

MainHandoff == FpPrev \/ FpNext \/ FpHead \/ FpLoad \/ FpStore \/ FpWake
                 \/ LkAdd \/ LkWake

IoStep(t) ==
  \/ Wakeup(t) \/ Check(t) \/ Loop(t) \/ Take(t) \/ DelHead(t) \/ DelPrev(t)
  \/ DelNext(t) \/ DelLoad(t) \/ DelStore(t)

Next ==
  \/ \E c \in Conns : Accept(c)
  \/ MainHandoff
  \/ \E t \in Threads : IoStep(t)
  \/ \E t \in Threads, c \in Conns : Close(t, c)
  \/ \E t \in Threads, c \in Conns, e \in PollSets : Watch(t, c, e)

(***************************************************************************)
(* Both threads are scheduled by the OS: a thread that can make progress   *)
(* eventually does.  Accepting a connection and closing one are up to the  *)
(* clients and carry no fairness.                                          *)
(***************************************************************************)
Spec == Init /\ [][Next]_vars /\ WF_vars(MainHandoff)
          /\ \A t \in Threads : WF_vars(IoStep(t))

-----------------------------------------------------------------------------
(***************************************************************************)
(* Properties                                                              *)
(***************************************************************************)

TypeOK ==
  /\ mpc \in {"accept", "fp_prev", "fp_next", "fp_head", "fp_load",
              "fp_store", "fp_wake", "lk_add", "lk_wake"}
  /\ accepted \subseteq Conns
  /\ next \in Threads
  /\ \A t \in Threads :
       /\ head[t] \in Conns \cup {NULL}
       /\ count[t] \in 0 .. CountMod - 1
       /\ lock[t] \in {NULL, "main", "io"}
       /\ tpc[t] \in {"idle", "check", "loop", "take", "del_head", "del_prev",
                      "del_next", "del_load", "del_store"}
       /\ served[t] \in Seq(accepted)
  /\ \A c \in Conns : nxt[c] \in Conns \cup {NULL} /\ prv[c] \in Conns \cup {NULL}

\* The dcons reachable from p along the next pointers.
RECURSIVE Chain(_, _)
Chain(p, seen) ==
  IF p = NULL \/ p \in seen THEN seen ELSE Chain(nxt[p], seen \cup {p})

\* No thread is part-way through the hand-off.
Quiet == mpc = "accept" /\ \A t \in Threads : tpc[t] = "idle"

NoUseAfterFree ==
  mpc \in {"fp_load", "fp_store", "fp_wake", "lk_wake"} => mdcon \notin freed

(***************************************************************************)
(* Every accepted connection is eventually moved to its I/O thread and     *)
(* served (spec 6: the main thread hands connections to the I/O threads).  *)
(***************************************************************************)
ConnectionsServed == \A c \in Conns : c \in accepted ~> adds[c] > 0

(***************************************************************************)
(* Neither side of the hand-off waits forever on the other: once the main  *)
(* thread has accepted a connection gearmand_con_create returns to the     *)
(* accept loop, and an I/O thread woken through its pipe leaves            *)
(* gearmand_con_check_queue for its event loop.  The main thread blocks on *)
(* thread->lock (line 88) while the I/O thread holds it across its list    *)
(* removal (lines 162-165), and the I/O thread's while loop (line 160)     *)
(* must end although the main thread keeps adding without the lock.       *)
(***************************************************************************)
HandoffReturns ==
  /\ mpc # "accept" ~> mpc = "accept"
  /\ \A t \in Threads : tpc[t] # "idle" ~> tpc[t] = "idle"

(***************************************************************************)
(* Refinement: the hand-off implements ConnHandoff.  The connections       *)
(* pending on a thread are read off the code's own data: the dcons         *)
(* reachable from its dcon_add_list, the dcon the main thread holds        *)
(* before it is linked in (lines 77-83, 88-90), and the dcon the I/O       *)
(* thread has taken off the list and not yet passed to _con_add (lines     *)
(* 163-167).  The main thread's accept is the abstract Accept, DelStore's  *)
(* _con_add the abstract Serve and gearmand_con_free the abstract Close;   *)
(* the pointer and count stores must leave the pending set alone.  An      *)
(* entry lost or duplicated by a GEARMAN_LIST_ADD racing a                 *)
(* GEARMAN_LIST_DEL, or a dcon moved twice, is a step ConnHandoff does not *)
(* allow.                                                                  *)
(***************************************************************************)
Linking(t) ==
  IF mpc \in {"fp_prev", "fp_next", "fp_head", "lk_add"} /\ mt = t
  THEN {mdcon} ELSE {}

Moving(t) ==
  IF tpc[t] \in {"del_head", "del_prev", "del_next", "del_load", "del_store"}
  THEN {tdcon[t]} ELSE {}

Handoff == INSTANCE ConnHandoff
             WITH pending <- [t \in Threads |->
                                Chain(head[t], {}) \cup Linking(t) \cup Moving(t)]

=============================================================================
