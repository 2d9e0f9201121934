----------------------------- MODULE ConnHandoff -----------------------------
(***************************************************************************)
(* What the connection hand-off of gearmand promises, with no locks,       *)
(* counts or pipes: an accepted connection is given to one I/O thread, that*)
(* thread takes it on (serves it) once, putting it at the head of its      *)
(* list of connections, and a served connection closes and leaves it.      *)
(* GearmandCon implements Spec under a refinement mapping; LiveSpec adds   *)
(* that every connection given to a thread is eventually served.           *)
(***************************************************************************)
EXTENDS Sequences, SequencesExt

CONSTANTS
  Conns,     \* connections
  Threads    \* I/O threads

VARIABLES
  accepted,  \* connections accepted by the main thread
  pending,   \* per thread: connections given to it and not yet served
  served     \* per thread: its connections, newest first

vars == <<accepted, pending, served>>

Init ==
  /\ accepted = {}
  /\ pending = [t \in Threads |-> {}]
  /\ served = [t \in Threads |-> <<>>]

\* A new connection is accepted and given to thread t.
Accept(c, t) ==
  /\ c \notin accepted
  /\ accepted' = accepted \cup {c}
  /\ pending' = [pending EXCEPT ![t] = @ \cup {c}]
  /\ UNCHANGED served

\* Thread t takes on a connection it was given.
Serve(t, c) ==
  /\ c \in pending[t]
  /\ pending' = [pending EXCEPT ![t] = @ \ {c}]
  /\ served' = [served EXCEPT ![t] = <<c>> \o @]
  /\ UNCHANGED accepted

\* A served connection closes.
Close(t, c) ==
  /\ c \in Range(served[t])
  /\ served' = [served EXCEPT ![t] = Remove(@, c)]
  /\ UNCHANGED <<accepted, pending>>

Next ==
  \/ \E c \in Conns, t \in Threads : Accept(c, t)
  \/ \E t \in Threads, c \in Conns : Serve(t, c) \/ Close(t, c)

Spec == Init /\ [][Next]_vars

LiveSpec == Spec /\ \A t \in Threads : WF_vars(\E c \in Conns : Serve(t, c))

=============================================================================
