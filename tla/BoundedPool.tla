---------------------------- MODULE BoundedPool -----------------------------
(***************************************************************************)
(* What the users of ThreadPool count on: a bounded set of threads, each   *)
(* of which runs one function at a time and becomes available again some   *)
(* time after that function has returned.  A job is started once, or       *)
(* refused; it is never accepted and then lost.                            *)
(***************************************************************************)
EXTENDS Naturals, FiniteSets

CONSTANTS ThreadCount, Jobs

VARIABLE phase  \* "waiting", "refused", "running", "lingering" or "gone"

(* The jobs that take up a thread: those running, and those whose thread   *)
(* has not yet gone back to the pool.                                      *)
Occupying == {j \in Jobs : phase[j] \in {"running", "lingering"}}

Init == phase = [j \in Jobs |-> "waiting"]

Move(j, from, to) ==
  /\ phase[j] = from
  /\ phase' = [phase EXCEPT ![j] = to]

Start(j) == Cardinality(Occupying) < ThreadCount /\ Move(j, "waiting", "running")

(* The search for a free thread is not atomic, so it may miss a thread     *)
(* that came back behind it; but it refuses nothing when all are free.     *)
Refuse(j) == Occupying # {} /\ Move(j, "waiting", "refused")

Return(j) == Move(j, "running", "lingering")

Release(j) == Move(j, "lingering", "gone")

Next == \E j \in Jobs : Start(j) \/ Refuse(j) \/ Return(j) \/ Release(j)

Spec == Init /\ [][Next]_phase
=============================================================================
