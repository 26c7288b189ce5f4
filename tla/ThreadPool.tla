----------------------------- MODULE ThreadPool -----------------------------
(***************************************************************************)
(* The thread pool of threadpool.h: one status flag and one thread handle  *)
(* per slot, callers that run the idiom of every user of the library,      *)
(*     if (pool->thread_avail()) pool->dispatch_thread(f, arg);            *)
(* a thread per dispatched function, and a slave thread per dispatch that  *)
(* joins that thread and hands its slot back.                              *)
(*                                                                         *)
(* Each slot's semaphore brackets one access to that slot's flag and       *)
(* nothing else, so sem_wait; access; sem_post is one step here.           *)
(* Everything between two such accesses can be interleaved.                *)
(***************************************************************************)
EXTENDS Naturals, FiniteSets

CONSTANTS
  ThreadCount,    \* number of slots (threadCount)
  Dispatchers,    \* threads that call the pool
  Jobs,           \* the (function, argument) pairs they bring; bounds a run
  NoJob,          \* no handle, no job
  WorkerMayFail,  \* jobs whose own pthread_create may fail
  SlaveMayFail    \* jobs whose slave's pthread_create may fail

ASSUME PoolAssumption ==
  /\ ThreadCount \in Nat \ {0}
  /\ NoJob \notin Jobs
  /\ WorkerMayFail \subseteq Jobs
  /\ SlaveMayFail \subseteq Jobs

VARIABLES
  status_flags,  \* status_flags[i]: slot i may be claimed
  pool,          \* pool[i]: handle of the last thread created for slot i
  pc,            \* where each caller is in thread_avail and dispatch_thread
  at,            \* the caller's loop variable i
  job,           \* what the caller is trying to dispatch
  fate,          \* what became of each job
  slave,         \* where the slave of each job is in slave_function
  home,          \* the slot the job was given, 0 before
  target         \* the handle the slave passed to pthread_join

vars == <<status_flags, pool, pc, at, job, fate, slave, home, target>>

Slots == 1 .. ThreadCount

Fates == {"new", "offered", "refused", "dropped", "failed", "running", "exited"}

SlaveStates ==
  {"none", "missing", "created", "joining", "undefined", "marking", "done"}

Init ==
  /\ status_flags = [i \in Slots |-> TRUE]
  /\ pool   = [i \in Slots |-> NoJob]
  /\ pc     = [d \in Dispatchers |-> "idle"]
  /\ at     = [d \in Dispatchers |-> 1]
  /\ job    = [d \in Dispatchers |-> NoJob]
  /\ fate   = [j \in Jobs |-> "new"]
  /\ slave  = [j \in Jobs |-> "none"]
  /\ home   = [j \in Jobs |-> 0]
  /\ target = [j \in Jobs |-> NoJob]

(***************************************************************************)
(* The caller.                                                             *)
(***************************************************************************)

(* A caller reaches the idiom with a job nobody has offered yet. *)
Offer(d, j) ==
  /\ pc[d] = "idle"
  /\ fate[j] = "new"
  /\ pc' = [pc EXCEPT ![d] = "avail"]
  /\ at' = [at EXCEPT ![d] = 1]
  /\ job' = [job EXCEPT ![d] = j]
  /\ fate' = [fate EXCEPT ![j] = "offered"]
  /\ UNCHANGED <<status_flags, pool, slave, home, target>>

(* The caller goes back to its own code; its job ends as f. *)
GiveUp(d, f) ==
  /\ pc' = [pc EXCEPT ![d] = "idle"]
  /\ job' = [job EXCEPT ![d] = NoJob]
  /\ fate' = [fate EXCEPT ![job[d]] = f]
  /\ UNCHANGED at

(* Mutant of LookFurther: the loop runs one slot too far. *)
LookTooFar(d) ==
  /\ ~status_flags[at[d]]
  /\ at' = [at EXCEPT ![d] = @ + 1]
  /\ UNCHANGED <<pc, job, fate>>

(* Slot at[d] is busy and is not the last: the loop looks at the next. *)
LookFurther(d) ==
  /\ ~status_flags[at[d]]
  /\ at[d] < ThreadCount
  /\ at' = [at EXCEPT ![d] = @ + 1]
  /\ UNCHANGED <<pc, job, fate>>

(* Mutant of ThreadAvail: it looks at the first slot only. *)
ThreadAvailFirst(d) ==
  /\ pc[d] = "avail"
  /\ \/ /\ status_flags[at[d]]
        /\ pc' = [pc EXCEPT ![d] = "dispatch"]
        /\ UNCHANGED <<at, job, fate>>
     \/ ~status_flags[at[d]] /\ GiveUp(d, "refused")
  /\ UNCHANGED <<status_flags, pool, slave, home, target>>

(* thread_avail: one look at slot at[d]; true at the first free slot. *)
ThreadAvail(d) ==
  /\ pc[d] = "avail"
  /\ \/ /\ status_flags[at[d]]
        /\ pc' = [pc EXCEPT ![d] = "dispatch"]
        /\ at' = [at EXCEPT ![d] = 1]
        /\ UNCHANGED <<job, fate>>
     \/ LookFurther(d)
     \/ /\ ~status_flags[at[d]]
        /\ at[d] = ThreadCount
        /\ GiveUp(d, "refused")
  /\ UNCHANGED <<status_flags, pool, slave, home, target>>

(* dispatch_thread starts its own search.  Finding no free slot it returns *)
(* 0, the value it also returns after a dispatch.                          *)
DispatchLook(d) ==
  /\ pc[d] = "dispatch"
  /\ \/ /\ status_flags[at[d]]
        /\ pc' = [pc EXCEPT ![d] = "claim"]
        /\ UNCHANGED <<at, job, fate>>
     \/ LookFurther(d)
     \/ /\ ~status_flags[at[d]]
        /\ at[d] = ThreadCount
        /\ GiveUp(d, "dropped")
  /\ UNCHANGED <<status_flags, pool, slave, home, target>>

(* Mutant of Claim: the flag is not cleared. *)
ClaimForgets(d) ==
  /\ pc[d] = "claim"
  /\ pc' = [pc EXCEPT ![d] = "create"]
  /\ UNCHANGED <<status_flags, pool, at, job, fate, slave, home, target>>

(* The flag is cleared in a critical section of its own, after the one     *)
(* that read it.                                                           *)
Claim(d) ==
  /\ pc[d] = "claim"
  /\ status_flags' = [status_flags EXCEPT ![at[d]] = FALSE]
  /\ pc' = [pc EXCEPT ![d] = "create"]
  /\ UNCHANGED <<pool, at, job, fate, slave, home, target>>

(* Mutant of CreateWorker: every handle goes to the first slot. *)
CreateWorkerFirst(d) ==
  /\ pc[d] = "create"
  /\ home' = [home EXCEPT ![job[d]] = at[d]]
  /\ pool' = [pool EXCEPT ![1] = job[d]]
  /\ fate' = [fate EXCEPT ![job[d]] = "running"]
  /\ pc' = [pc EXCEPT ![d] = "reap"]
  /\ UNCHANGED <<status_flags, at, job, slave, target>>

(* pthread_create(pool[i], ..., dispatch_function, arg).  When it fails,   *)
(* the old handle is still in pool[i] or one that names no thread is.      *)
CreateWorker(d) ==
  /\ pc[d] = "create"
  /\ home' = [home EXCEPT ![job[d]] = at[d]]
  /\ \/ /\ pool' = [pool EXCEPT ![at[d]] = job[d]]
        /\ fate' = [fate EXCEPT ![job[d]] = "running"]
        /\ pc' = [pc EXCEPT ![d] = "reap"]
     \/ /\ job[d] \in WorkerMayFail
        /\ fate' = [fate EXCEPT ![job[d]] = "failed"]
        /\ pc' = [pc EXCEPT ![d] = "undo"]
        /\ pool' \in {pool, [pool EXCEPT ![at[d]] = NoJob]}
  /\ UNCHANGED <<status_flags, at, job, slave, target>>

(* After a failed creation the slot is handed back at once. *)
Undo(d) ==
  /\ pc[d] = "undo"
  /\ status_flags' = [status_flags EXCEPT ![at[d]] = TRUE]
  /\ pc' = [pc EXCEPT ![d] = "reap"]
  /\ UNCHANGED <<pool, at, job, fate, slave, home, target>>

(* The slave is created whether or not the worker was; an error is printed *)
(* and otherwise ignored.                                                  *)
CreateSlave(d) ==
  /\ pc[d] = "reap"
  /\ \/ slave' = [slave EXCEPT ![job[d]] = "created"]
     \/ /\ job[d] \in SlaveMayFail
        /\ slave' = [slave EXCEPT ![job[d]] = "missing"]
  /\ pc' = [pc EXCEPT ![d] = "idle"]
  /\ job' = [job EXCEPT ![d] = NoJob]
  /\ UNCHANGED <<status_flags, pool, at, fate, home, target>>

DispatchThread(d) ==
  DispatchLook(d) \/ Claim(d) \/ CreateWorker(d) \/ Undo(d) \/ CreateSlave(d)

(***************************************************************************)
(* The dispatched function and its slave.                                  *)
(***************************************************************************)

(* The dispatched function returns. *)
Exit(j) ==
  /\ fate[j] = "running"
  /\ fate' = [fate EXCEPT ![j] = "exited"]
  /\ UNCHANGED <<status_flags, pool, pc, at, job, slave, home, target>>

(* A handle may be joined once.  Joining it again, or joining what an      *)
(* uninitialized pthread_t holds, has no defined result.                   *)
JoinDefined(h) == h # NoJob /\ \A k \in Jobs : target[k] # h

(* slave_function reads *(sa->p), the slot's handle as it is now, and      *)
(* calls pthread_join on it.                                               *)
StartJoin(j) ==
  LET h == pool[home[j]] IN
  /\ slave[j] = "created"
  /\ target' = [target EXCEPT ![j] = h]
  /\ slave' = [slave EXCEPT ![j] = IF JoinDefined(h) THEN "joining" ELSE "undefined"]
  /\ UNCHANGED <<status_flags, pool, pc, at, job, fate, home>>

(* Mutant of JoinReturns: the slave does not wait for the thread. *)
JoinReturnsEarly(j) ==
  /\ slave[j] \in {"joining", "undefined"}
  /\ slave' = [slave EXCEPT ![j] = "marking"]
  /\ UNCHANGED <<status_flags, pool, pc, at, job, fate, home, target>>

(* A defined join returns after the thread has ended; an undefined one     *)
(* returns with an error, at any time (EINVAL and ESRCH of glibc).         *)
JoinReturns(j) ==
  /\ \/ /\ slave[j] = "joining"
        /\ fate[target[j]] = "exited"
     \/ slave[j] = "undefined"
  /\ slave' = [slave EXCEPT ![j] = "marking"]
  /\ UNCHANGED <<status_flags, pool, pc, at, job, fate, home, target>>

(* Mutant of MarkFree: the flag is not set again. *)
MarkFreeForgets(j) ==
  /\ slave[j] = "marking"
  /\ slave' = [slave EXCEPT ![j] = "done"]
  /\ UNCHANGED <<status_flags, pool, pc, at, job, fate, home, target>>

(* Whatever the join returned, the slot is free again. *)
MarkFree(j) ==
  /\ slave[j] = "marking"
  /\ status_flags' = [status_flags EXCEPT ![home[j]] = TRUE]
  /\ slave' = [slave EXCEPT ![j] = "done"]
  /\ UNCHANGED <<pool, pc, at, job, fate, home, target>>

Slave(j) == StartJoin(j) \/ JoinReturns(j) \/ MarkFree(j)

(***************************************************************************)
(* Specification.                                                          *)
(***************************************************************************)

(* Every job has been settled: the callers have nothing left to offer. *)
Finished ==
  /\ \A d \in Dispatchers : pc[d] = "idle"
  /\ \A j \in Jobs : /\ fate[j] \in {"refused", "dropped", "failed", "exited"}
                     /\ slave[j] \in {"none", "missing", "done"}
  /\ UNCHANGED vars

Next ==
  \/ \E d \in Dispatchers : \/ \E j \in Jobs : Offer(d, j)
                            \/ ThreadAvail(d)
                            \/ DispatchThread(d)
  \/ \E j \in Jobs : Exit(j) \/ Slave(j)
  \/ Finished

Spec == Init /\ [][Next]_vars

(* Threads run: a caller inside the library goes on, dispatched functions  *)
(* return, slaves go on.  Callers need not bring more jobs.                *)
Fairness ==
  /\ \A d \in Dispatchers : WF_vars(ThreadAvail(d) \/ DispatchThread(d))
  /\ \A j \in Jobs : WF_vars(Exit(j)) /\ WF_vars(Slave(j))

FairSpec == Spec /\ Fairness

(***************************************************************************)
(* Properties.                                                             *)
(***************************************************************************)

(* Each variable has its type.  "failed" and "undo" belong to dispatches   *)
(* whose pthread_create failed.                                            *)
TypeOK ==
  /\ status_flags \in [Slots -> BOOLEAN]
  /\ pool   \in [Slots -> Jobs \cup {NoJob}]
  /\ pc     \in [Dispatchers -> {"idle", "avail", "dispatch", "claim", "create",
                                 "undo", "reap"}]
  /\ at     \in [Dispatchers -> Slots]
  /\ job    \in [Dispatchers -> Jobs \cup {NoJob}]
  /\ fate   \in [Jobs -> Fates]
  /\ slave  \in [Jobs -> SlaveStates]
  /\ home   \in [Jobs -> Slots \cup {0}]
  /\ target \in [Jobs -> Jobs \cup {NoJob}]
  /\ \A d \in Dispatchers : pc[d] # "idle" => job[d] # NoJob
  /\ \A d \in Dispatchers : pc[d] \in {"undo", "reap"} => home[job[d]] # 0
  /\ \A j \in Jobs : slave[j] # "none" => home[j] # 0

(* The pool never runs more functions at a time than it has threads.       *)
(* Holds for one caller; two callers can both claim a slot between the     *)
(* reading and the clearing of its flag.                                   *)
AtMostThreadCount ==
  Cardinality({j \in Jobs : fate[j] = "running"}) <= ThreadCount

(* No worker failed to be created.  After that a slave is about that joins *)
(* what it finds in its slot and frees it a second time, whoever has it.   *)
AllCreated == \A j \in Jobs : fate[j] # "failed"

(* A slot whose flag says free has no function running in it: what         *)
(* thread_avail answers is the truth about the slot it looked at.          *)
FreeMeansIdle ==
  AllCreated => \A i \in Slots : status_flags[i] =>
    \A j \in Jobs : ~(fate[j] = "running" /\ home[j] = i)

(* No slave ever joins a thread that is, or was, joined by another slave.  *)
NoUndefinedJoin == AllCreated => \A j \in Jobs : slave[j] # "undefined"

(* A caller told that a thread is available does get one: dispatch_thread, *)
(* which cannot report a failure, never leaves without dispatching.        *)
NoSilentDrop == \A j \in Jobs : fate[j] # "dropped"

(* A busy slot has somebody who will free it -- a caller inside the        *)
(* dispatch or a slave on its way -- except where the creation of a slave  *)
(* failed.  So slots are lost to nothing else, however many threads call.  *)
BusySlotIsOwned ==
  \A i \in Slots : ~status_flags[i] =>
    \/ \E d \in Dispatchers : pc[d] \in {"create", "undo", "reap"} /\ at[d] = i
    \/ \E j \in Jobs : home[j] = i /\ slave[j] \notin {"none", "done"}

(* No caller loses a job, refused or dropped, before as many jobs have     *)
(* been given a slot as there are slots: each busy slot its two searches   *)
(* met was claimed for another job, however the callers overlap.           *)
Claims ==
  Cardinality({j \in Jobs : home[j] # 0}) + Cardinality({d \in Dispatchers : pc[d] = "create"})

LossNeedsLoad ==
  (\E j \in Jobs : fate[j] \in {"refused", "dropped"}) => Claims >= ThreadCount

(* Every busy slot becomes available again once its function has returned, *)
(* unless the thread that should see to it could not be created.           *)
SlotsComeBack ==
  \A i \in Slots : ~status_flags[i] ~>
    status_flags[i] \/ \E j \in Jobs : home[j] = i /\ slave[j] = "missing"

(***************************************************************************)
(* Inductive invariants.  The first holds however many threads call and    *)
(* whatever pthread_create returns, the second for one caller as long as   *)
(* its workers are created.                                                *)
(***************************************************************************)

(* A job is in the hands of at most one caller, and of no slave yet. *)
CallerOwnsJob ==
  /\ \A d \in Dispatchers : pc[d] # "idle" =>
       fate[job[d]] # "new" /\ slave[job[d]] = "none"
  /\ \A d, e \in Dispatchers :
       pc[d] # "idle" /\ pc[e] # "idle" /\ job[d] = job[e] => d = e
  /\ \A d \in Dispatchers : pc[d] \in {"undo", "reap"} => home[job[d]] = at[d]
  /\ \A j \in Jobs : fate[j] = "new" => slave[j] = "none"

(* No slot is lost, whoever calls: BusySlotIsOwned is inductive with this. *)
OwnedInv == TypeOK /\ CallerOwnsJob /\ BusySlotIsOwned

(* A job occupies its slot from its creation until its slave is done. *)
Holds(j) == fate[j] \in {"running", "exited"} /\ slave[j] # "done"

(* The flag of an occupied slot is clear and its handle is the occupant's, *)
(* so that no two jobs occupy one slot.                                    *)
SlotsExclusive ==
  \A j \in Jobs : Holds(j) =>
    home[j] \in Slots /\ ~status_flags[home[j]] /\ pool[home[j]] = j

(* What a caller has read of the flags is still true: only it clears them. *)
CallerIsRight ==
  \A d \in Dispatchers :
    /\ pc[d] = "dispatch" => \E i \in Slots : at[d] <= i /\ status_flags[i]
    /\ pc[d] = "claim" => status_flags[at[d]]
    /\ pc[d] = "create" => /\ ~status_flags[at[d]]
                           /\ \A j \in Jobs : Holds(j) => home[j] # at[d]
    /\ pc[d] \in {"avail", "dispatch", "claim", "create"} => fate[job[d]] = "offered"
    /\ pc[d] = "reap" => fate[job[d]] \in {"running", "exited"}
    /\ pc[d] # "undo"

(* Each slave joins the very thread it was created for, once. *)
SlaveJoinsOwn ==
  \A j \in Jobs :
    /\ slave[j] # "undefined"
    /\ slave[j] # "none" => fate[j] \in {"running", "exited"}
    /\ slave[j] \in {"marking", "done"} => fate[j] = "exited"
    /\ target[j] = IF slave[j] \in {"joining", "marking", "done"} THEN j ELSE NoJob

(* A pool with one caller shares no slot, loses no job and joins each of   *)
(* its threads once: the inductive form of all of these together.          *)
OneCallerInv ==
  /\ SlotsExclusive
  /\ CallerIsRight
  /\ SlaveJoinsOwn
  /\ \A j \in Jobs : fate[j] \notin {"dropped", "failed"}

(***************************************************************************)
(* What a single caller may take the pool for: see BoundedPool.            *)
(***************************************************************************)

PhaseOf(j) ==
  IF fate[j] \in {"new", "offered"} THEN "waiting"
  ELSE IF fate[j] # "exited" THEN fate[j]
  ELSE IF slave[j] = "done" THEN "gone" ELSE "lingering"

Phase == [j \in Jobs |-> PhaseOf(j)]

Bounded == INSTANCE BoundedPool WITH phase <- Phase

(* The pool, used by one caller, implements the bounded pool, as long as   *)
(* its workers are created.                                                *)
ImplementsBoundedPool ==
  Bounded!Init /\ [][AllCreated' => [Bounded!Next]_Phase]_vars
=============================================================================
