--------------------------- MODULE MC_GearmandCon ---------------------------
(***************************************************************************)
(* Model-checking instance of GearmandCon.                                 *)
(***************************************************************************)
EXTENDS GearmandCon, TLC

\* Two I/O threads, for round robin and the liveness of both sides.
MCThreads == 1 .. 2

\* One I/O thread: every accepted dcon goes onto the same dcon_add list.
MCOneThread == 1 .. 1

ConnSymmetry == Permutations(Conns)

(***************************************************************************)
(* Every variable but last_events and armed.  Only Watch reads them and it *)
(* writes nothing else, so states that differ in them alone have the same  *)
(* hand-off steps; the hand-off run explores states up to this view.       *)
(***************************************************************************)
HandoffView == <<mpc, mdcon, mreg, next, accepted, dthread, head, count, nxt,
                 prv, lock, pipe, tpc, tdcon, treg, served, adds, closed,
                 tfree, mfree, freed>>
=============================================================================
