--------------------------- MODULE EventScheduler ---------------------------
(***************************************************************************)
(* The event scheduler of eventscheduler.h: callers of eventSchedule and   *)
(* eventCancel, a thread of a pool per scheduled event that sleeps, looks  *)
(* for its id among the cancelled ones and, if it is not there, runs the   *)
(* event's function.                                                       *)
(*                                                                         *)
(* Nothing guards the counter and the vector of cancelled ids, so each     *)
(* update of them is a load and a store here; one that stores into a block *)
(* the vector has left is the last step of a run.  A timeout is an event   *)
(* waking up at any time.  The pool is BoundedPool, which                  *)
(* ThreadPool_proofs shows ThreadPool to implement for one caller; with    *)
(* more callers the runs give it room for all events, so that it can start *)
(* any of them at any time.                                                *)
(***************************************************************************)
EXTENDS Naturals, FiniteSets, Sequences, SequencesExt

CONSTANTS
  Callers,     \* threads that call the scheduler
  Events,      \* the calls of eventSchedule they may make; bounds a run
  MaxEvents,   \* maxEvents
  MaxCancels   \* bound on the calls of eventCancel

ASSUME SchedulerAssumption ==
  /\ MaxEvents \in Nat /\ MaxCancels \in Nat
  /\ Callers \cap Events = {} /\ "none" \notin Events

VARIABLES
  phase,        \* the pool's view of each event
  eventcounter,
  queue,        \* the ids passed to eventCancel and not met yet
  cap,          \* the capacity of that vector
  pc,           \* where each caller and each event's thread is
  mine,         \* the event a caller schedules or cancels
  id,           \* ea->id of each event, 0 before
  returned,     \* what eventSchedule returned for it, 0 before
  seen,         \* the counter as a caller has loaded it
  snap,         \* the vector as a thread has loaded it
  base,         \* and its capacity then, which tells its block
  lim, idx,     \* len and i of an event's search
  asked,        \* events whose returned id was passed to eventCancel
  intime,       \* those for which it returned while the event was asleep
  crashed       \* the program was terminated, or its vector was wrecked

vars == <<phase, eventcounter, queue, cap, pc, mine, id, returned, seen, snap,
          base, lim, idx, asked, intime, crashed>>

counting == <<eventcounter, id, returned, seen>>
cancelling == <<queue, cap, asked, intime, crashed>>
searching == <<lim, idx>>
loaded == <<snap, base>>

NoEvent == "none"

Pool == INSTANCE BoundedPool WITH ThreadCount <- MaxEvents + 1, Jobs <- Events

Init ==
  /\ Pool!Init
  /\ eventcounter = 0
  /\ queue = <<>>
  /\ cap = 0
  /\ pc = [t \in Callers \cup Events |-> IF t \in Callers THEN "idle" ELSE "new"]
  /\ mine = [c \in Callers |-> NoEvent]
  /\ id = [e \in Events |-> 0]
  /\ returned = [e \in Events |-> 0]
  /\ seen = [c \in Callers |-> 0]
  /\ snap = [t \in Callers \cup Events |-> <<>>]
  /\ base = [t \in Callers \cup Events |-> 0]
  /\ lim = [e \in Events |-> 0]
  /\ idx = [e \in Events |-> 0]
  /\ asked = {}
  /\ intime = {}
  /\ crashed = FALSE

-----------------------------------------------------------------------------
(***************************************************************************)
(* eventSchedule.                                                          *)
(***************************************************************************)

At(t, here, next) == pc[t] = here /\ pc' = [pc EXCEPT ![t] = next]

(* thread_avail is true: there is a thread, and no other caller to take it *)
(* before dispatch_thread does.                                            *)
Avail(c, e) ==
  /\ At(c, "idle", "load")
  /\ phase[e] = "waiting" /\ \A d \in Callers : mine[d] # e
  /\ Cardinality(Pool!Occupying) < MaxEvents + 1
  /\ mine' = [mine EXCEPT ![c] = e]
  /\ UNCHANGED <<phase, loaded, counting, cancelling, searching>>

(* thread_avail is false: eventSchedule returns -1. *)
Unavail(c, e) ==
  /\ pc[c] = "idle"
  /\ \A d \in Callers : mine[d] # e
  /\ Pool!Refuse(e)
  /\ UNCHANGED <<pc, mine, loaded, counting, cancelling, searching>>

(* eventcounter++ *)
LoadCounter(c) ==
  /\ At(c, "load", "store")
  /\ seen' = [seen EXCEPT ![c] = eventcounter]
  /\ UNCHANGED <<phase, mine, loaded, eventcounter, id, returned, cancelling, searching>>

(* Mutant of StoreCounter: the counter stays. *)
StoreNothing(c) ==
  /\ At(c, "store", "dispatch")
  /\ eventcounter' = seen[c]
  /\ UNCHANGED <<phase, mine, loaded, seen, id, returned, cancelling, searching>>

StoreCounter(c) ==
  /\ At(c, "store", "dispatch")
  /\ eventcounter' = seen[c] + 1
  /\ UNCHANGED <<phase, mine, loaded, seen, id, returned, cancelling, searching>>

(* ea->id is the counter as it is now; the event's thread starts. *)
Dispatch(c) ==
  LET e == mine[c] IN
  /\ pc[c] = "dispatch"
  /\ Pool!Start(e)
  /\ id' = [id EXCEPT ![e] = eventcounter]
  /\ pc' = [pc EXCEPT ![c] = "return", ![e] = "asleep"]
  /\ UNCHANGED <<mine, loaded, eventcounter, seen, returned, cancelling, searching>>

(* What is returned is the counter as it is by then. *)
Return(c) ==
  /\ At(c, "return", "idle")
  /\ returned' = [returned EXCEPT ![mine[c]] = eventcounter]
  /\ mine' = [mine EXCEPT ![c] = NoEvent]
  /\ UNCHANGED <<phase, loaded, eventcounter, seen, id, cancelling, searching>>

-----------------------------------------------------------------------------
(***************************************************************************)
(* eventCancel, for an id that eventSchedule returned.                     *)
(***************************************************************************)

(* push_back is replacing the storage of the vector, while others may use  *)
(* the old one: whatever they do with it may end the program.              *)
Growing == \E c \in Callers : pc[c] = "push" /\ Len(snap[c]) = cap

(* A thread begins to change the vector, and is done.                      *)
Load(t) ==
  /\ snap' = [snap EXCEPT ![t] = queue]
  /\ base' = [base EXCEPT ![t] = cap]

Done(t) ==
  /\ snap' = [snap EXCEPT ![t] = <<>>]
  /\ base' = [base EXCEPT ![t] = 0]

(* Another thread's push_back has replaced the storage since: what the     *)
(* thread stores points into the freed block, or frees it again.           *)
Moved(t) == base[t] # cap

(* No id is cancelled twice here, and none that was not returned.          *)
LoadQueue(c, e) ==
  /\ At(c, "idle", "push")
  /\ returned[e] # 0 /\ e \notin asked
  /\ Cardinality(asked) < MaxCancels
  /\ mine' = [mine EXCEPT ![c] = e]
  /\ Load(c)
  /\ asked' = asked \cup {e}
  /\ crashed' \in {FALSE, Growing}
  /\ UNCHANGED <<phase, queue, cap, intime, counting, searching>>

Push(c) ==
  LET e == mine[c] IN
  /\ At(c, "push", "idle")
  /\ queue' = Append(snap[c], returned[e])
  /\ cap' = IF Len(snap[c]) < cap THEN cap ELSE IF cap = 0 THEN 1 ELSE 2 * cap
  /\ intime' = IF pc[e] = "asleep" THEN intime \cup {e} ELSE intime
  /\ mine' = [mine EXCEPT ![c] = NoEvent]
  /\ crashed' = Moved(c)
  /\ Done(c)
  /\ UNCHANGED <<phase, asked, counting, searching>>

-----------------------------------------------------------------------------
(***************************************************************************)
(* eventWrapper.                                                           *)
(***************************************************************************)

(* Mutant of Wake: the search stops one id early. *)
WakeShort(e) ==
  /\ At(e, "asleep", "search")
  /\ lim' = [lim EXCEPT ![e] = Len(queue) - 1]
  /\ idx' = [idx EXCEPT ![e] = 1]
  /\ crashed' \in {FALSE, Growing}
  /\ UNCHANGED <<phase, mine, loaded, queue, cap, asked, intime, counting>>

(* The timeout is over; len is taken. *)
Wake(e) ==
  /\ At(e, "asleep", "search")
  /\ lim' = [lim EXCEPT ![e] = Len(queue)]
  /\ idx' = [idx EXCEPT ![e] = 1]
  /\ crashed' \in {FALSE, Growing}
  /\ UNCHANGED <<phase, mine, loaded, queue, cap, asked, intime, counting>>

(* Mutants of Search: any id will do; the loop does not go on. *)
SearchAny(e) ==
  /\ pc[e] = "search"
  /\ pc' = [pc EXCEPT ![e] = IF idx[e] <= Len(queue) THEN "erase" ELSE "fired"]
  /\ UNCHANGED <<phase, mine, loaded, lim, idx, cancelling, counting>>

SearchFirst(e) ==
  /\ pc[e] = "search"
  /\ \/ idx[e] > lim[e] /\ pc' = [pc EXCEPT ![e] = "fired"]
     \/ idx[e] <= Len(queue) /\ queue[idx[e]] = id[e] /\ pc' = [pc EXCEPT ![e] = "erase"]
  /\ UNCHANGED <<phase, mine, loaded, lim, idx, cancelling, counting>>

(* One turn of the loop.  at(i) throws when the vector has shrunk.         *)
Search(e) ==
  /\ pc[e] = "search"
  /\ \/ /\ idx[e] > lim[e]
        /\ pc' = [pc EXCEPT ![e] = "fired"]
        /\ UNCHANGED <<idx, crashed>>
     \/ /\ idx[e] <= lim[e] /\ idx[e] > Len(queue)
        /\ crashed' = TRUE
        /\ UNCHANGED <<pc, idx>>
     \/ /\ idx[e] <= lim[e] /\ idx[e] <= Len(queue)
        /\ IF queue[idx[e]] = id[e]
           THEN pc' = [pc EXCEPT ![e] = "erase"] /\ UNCHANGED idx
           ELSE idx' = [idx EXCEPT ![e] = @ + 1] /\ UNCHANGED pc
        /\ crashed' \in {FALSE, Growing}
  /\ UNCHANGED <<phase, mine, loaded, queue, cap, asked, intime, lim, counting>>

(* erase(begin() + i), at the position found before.  Past the end, it     *)
(* ends the program or takes the last id instead.                          *)
Without(s, i) == IF i <= Len(s) THEN RemoveAt(s, i) ELSE Front(s)

LoadForErase(e) ==
  /\ At(e, "erase", "shrink")
  /\ Load(e)
  /\ crashed' \in {queue = <<>>, Growing \/ idx[e] > Len(queue)}
  /\ UNCHANGED <<phase, mine, queue, cap, asked, intime, counting, searching>>

Erase(e) ==
  /\ At(e, "shrink", "skipped")
  /\ queue' = Without(snap[e], idx[e])
  /\ crashed' \in {Moved(e), Moved(e) \/ Growing}
  /\ Done(e)
  /\ UNCHANGED <<phase, mine, cap, asked, intime, counting, searching>>

(* The event's function has run or was skipped: the thread goes back.      *)
GoBack(e) ==
  /\ pc[e] \in {"fired", "skipped"}
  /\ Pool!Return(e) \/ Pool!Release(e)
  /\ UNCHANGED <<pc, mine, loaded, counting, cancelling, searching>>

-----------------------------------------------------------------------------
EventSchedule(c) ==
  \/ \E e \in Events : Avail(c, e) \/ Unavail(c, e)
  \/ LoadCounter(c) \/ StoreCounter(c) \/ Dispatch(c) \/ Return(c)

EventCancel(c) == Push(c) \/ \E e \in Events : LoadQueue(c, e)

EventWrapper(e) ==
  Wake(e) \/ Search(e) \/ LoadForErase(e) \/ Erase(e) \/ GoBack(e)

(* The callers have gone home, or the program has.                         *)
Finished ==
  /\ \/ crashed
     \/ /\ \A c \in Callers : pc[c] = "idle"
        /\ \A e \in Events : phase[e] \in {"refused", "gone"}
  /\ UNCHANGED vars

Next ==
  \/ /\ ~crashed
     /\ \/ \E c \in Callers : EventSchedule(c) \/ EventCancel(c)
        \/ \E e \in Events : EventWrapper(e)
  \/ Finished

Spec == Init /\ [][Next]_vars

(* Threads run, timeouts end and the events' functions return.             *)
FairSpec ==
  /\ Spec
  /\ \A c \in Callers : WF_vars(~crashed /\ Push(c))
  /\ \A e \in Events : WF_vars(~crashed /\ EventWrapper(e))

-----------------------------------------------------------------------------
(***************************************************************************)
(* Properties.                                                             *)
(***************************************************************************)

TypeOK ==
  /\ phase \in [Events -> {"waiting", "refused", "running", "lingering", "gone"}]
  /\ eventcounter \in Nat
  /\ queue \in Seq(Nat)
  /\ cap \in Nat
  /\ DOMAIN pc = Callers \cup Events
  /\ \A c \in Callers : pc[c] \in {"idle", "load", "store", "dispatch", "return", "push"}
  /\ \A e \in Events :
       pc[e] \in {"new", "asleep", "search", "erase", "shrink", "fired", "skipped"}
  /\ mine \in [Callers -> Events \cup {NoEvent}]
  /\ \A c \in Callers : pc[c] # "idle" <=> mine[c] # NoEvent
  /\ id \in [Events -> Nat]
  /\ returned \in [Events -> Nat]
  /\ seen \in [Callers -> Nat]
  /\ snap \in [Callers \cup Events -> Seq(Nat)]
  /\ base \in [Callers \cup Events -> Nat]
  /\ lim \in [Events -> Nat]
  /\ idx \in [Events -> Nat]
  /\ \A e \in Events : pc[e] = "search" => idx[e] # 0
  /\ asked \subseteq Events /\ intime \subseteq Events
  /\ crashed \in BOOLEAN

(* What eventSchedule returns is the id of the event it scheduled, and of  *)
(* no other: cancelling it cancels that event.                             *)
IdNamesOneEvent ==
  /\ \A e \in Events : returned[e] # 0 => returned[e] = id[e]
  /\ \A e, f \in Events : pc[e] # "new" /\ pc[f] # "new" /\ id[e] = id[f] => e = f

(* Two callers in eventSchedule at once can be given each other's ids.     *)
(* When their calls do not overlap they are not, whatever calls of         *)
(* eventCancel and events' threads run beside them.                        *)
Scheduling(c) == pc[c] \in {"load", "store", "dispatch", "return"}

Apart == \A c, d \in Callers : Scheduling(c) /\ Scheduling(d) => c = d

IdsDistinctIfApart == []Apart => []IdNamesOneEvent

CancelledIds == {returned[e] : e \in asked} \ {0}

(* An event's function is skipped only if its id was cancelled, whatever   *)
(* the unguarded updates of the vector make of the ids in it.              *)
OnlyCancelledSkipped ==
  \A e \in Events : pc[e] \in {"erase", "shrink", "skipped"} => id[e] \in CancelledIds

(* What makes the ids distinct while calls do not overlap: the inductive   *)
(* form of IdNamesOneEvent.                                                *)
IdsInv ==
  /\ \A c \in Callers : pc[c] = "store" => seen[c] = eventcounter
  /\ \A c \in Callers : pc[c] = "dispatch" => \A e \in Events : id[e] < eventcounter
  /\ \A c \in Callers : pc[c] = "return" => id[mine[c]] = eventcounter
  /\ \A e \in Events : id[e] <= eventcounter /\ (pc[e] = "new" <=> id[e] = 0)
  /\ \A e \in Events : phase[e] = "waiting" => id[e] = 0
  /\ IdNamesOneEvent

(* Each call of eventSchedule has its own event, which has no id yet.      *)
OwnEvent ==
  /\ \A e \in Events : phase[e] = "waiting" => pc[e] = "new" /\ returned[e] = 0
  /\ \A c \in Callers : Scheduling(c) => returned[mine[c]] = 0
  /\ \A c \in Callers : pc[c] = "return" => phase[mine[c]] # "waiting"
  /\ \A c, d \in Callers : Scheduling(c) /\ Scheduling(d) /\ mine[c] = mine[d] => c = d

(* Only cancelled ids ever get into the vector, or into a copy of it on    *)
(* its way back: the inductive form of OnlyCancelledSkipped.               *)
OfCancelled(q) == \A i \in DOMAIN q : q[i] \in CancelledIds

CancelledInv ==
  /\ \A c \in Callers : pc[c] = "push" => returned[mine[c]] \in CancelledIds
  /\ OfCancelled(queue)
  /\ \A t \in Callers \cup Events : OfCancelled(snap[t])
  /\ OnlyCancelledSkipped

(* An event cancelled while it was still asleep does not run.              *)
CancelHonoured == \A e \in intime : pc[e] # "fired"

(* That holds when one event is cancelled and by its own id; a second      *)
(* cancel, or its event's erase, can undo the first.                       *)
LoneCancelHonoured == IdNamesOneEvent /\ Cardinality(asked) <= 1 => CancelHonoured

(* Every event is over some day and its thread back in the pool, whatever  *)
(* becomes of the vector while its loop runs over it, if the program       *)
(* survives.                                                               *)
Settled == <>[](crashed \/ Pool!Occupying = {})
=============================================================================
