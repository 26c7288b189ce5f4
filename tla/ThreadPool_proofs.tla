-------------------------- MODULE ThreadPool_proofs --------------------------
(***************************************************************************)
(* Proofs about ThreadPool, for every number of slots, callers and jobs.   *)
(*   - TypeCorrect and NoSlotIsLost: any number of callers, any failures.  *)
(*   - LossesNeedLoad, EnoughSlots: the same, for finite sets of jobs.     *)
(*   - OneCaller..., JoinsAreDefined: one caller, as long as its workers   *)
(*     are created.                                                        *)
(***************************************************************************)
EXTENDS ThreadPool, FiniteSetTheorems, TLAPS

-----------------------------------------------------------------------------
(***************************************************************************)
(* Any number of callers.                                                  *)
(***************************************************************************)

LEMMA InitTypeOK == Init => TypeOK
BY PoolAssumption DEF Init, TypeOK, Slots, Fates, SlaveStates

(* The types, and what is known of the job a caller holds, are preserved   *)
(* by every step of the pool.                                              *)
LEMMA NextTypeOK == TypeOK /\ [Next]_vars => TypeOK'
<1> SUFFICES ASSUME TypeOK, [Next]_vars PROVE TypeOK'
  OBVIOUS
<1> USE PoolAssumption DEF TypeOK, Slots, Fates, SlaveStates
<1>1. ASSUME NEW d \in Dispatchers, NEW j \in Jobs, Offer(d, j) PROVE TypeOK'
  BY <1>1 DEF Offer
<1>2. ASSUME NEW d \in Dispatchers, ThreadAvail(d) PROVE TypeOK'
  <2>1. CASE /\ pc' = [pc EXCEPT ![d] = "dispatch"]
             /\ at' = [at EXCEPT ![d] = 1]
             /\ UNCHANGED <<job, fate>>
    BY <1>2, <2>1 DEF ThreadAvail
  <2>2. CASE LookFurther(d)
    BY <1>2, <2>2 DEF ThreadAvail, LookFurther
  <2>3. CASE ~status_flags[at[d]] /\ at[d] = ThreadCount /\ GiveUp(d, "refused")
    <3>1. job[d] \in Jobs
      BY <1>2 DEF ThreadAvail
    <3> QED
      BY <1>2, <2>3, <3>1 DEF ThreadAvail, GiveUp
  <2> QED
    BY <1>2, <2>1, <2>2, <2>3 DEF ThreadAvail
<1>3. ASSUME NEW d \in Dispatchers, DispatchLook(d) PROVE TypeOK'
  <2>1. CASE pc' = [pc EXCEPT ![d] = "claim"] /\ UNCHANGED <<at, job, fate>>
    BY <1>3, <2>1 DEF DispatchLook
  <2>2. CASE LookFurther(d)
    BY <1>3, <2>2 DEF DispatchLook, LookFurther
  <2>3. CASE ~status_flags[at[d]] /\ at[d] = ThreadCount /\ GiveUp(d, "dropped")
    <3>1. job[d] \in Jobs
      BY <1>3 DEF DispatchLook
    <3> QED
      BY <1>3, <2>3, <3>1 DEF DispatchLook, GiveUp
  <2> QED
    BY <1>3, <2>1, <2>2, <2>3 DEF DispatchLook
<1>4. ASSUME NEW d \in Dispatchers, Claim(d) PROVE TypeOK'
  BY <1>4 DEF Claim
<1>5. ASSUME NEW d \in Dispatchers, CreateWorker(d) PROVE TypeOK'
  <2>1. job[d] \in Jobs /\ at[d] \in Slots /\ at[d] # 0
    BY <1>5 DEF CreateWorker
  <2>2. home' \in [Jobs -> Slots \cup {0}] /\ home'[job[d]] = at[d]
        /\ \A j \in Jobs : home[j] # 0 => home'[j] # 0
    BY <1>5, <2>1 DEF CreateWorker
  <2>3. CASE /\ pool' = [pool EXCEPT ![at[d]] = job[d]]
             /\ fate' = [fate EXCEPT ![job[d]] = "running"]
             /\ pc' = [pc EXCEPT ![d] = "reap"]
    BY <1>5, <2>1, <2>2, <2>3 DEF CreateWorker
  <2>4. CASE /\ fate' = [fate EXCEPT ![job[d]] = "failed"]
             /\ pc' = [pc EXCEPT ![d] = "undo"]
             /\ pool' \in {pool, [pool EXCEPT ![at[d]] = NoJob]}
    BY <1>5, <2>1, <2>2, <2>4 DEF CreateWorker
  <2> QED
    BY <1>5, <2>3, <2>4 DEF CreateWorker
<1>6. ASSUME NEW d \in Dispatchers, Undo(d) PROVE TypeOK'
  BY <1>6 DEF Undo
<1>7. ASSUME NEW d \in Dispatchers, CreateSlave(d) PROVE TypeOK'
  BY <1>7 DEF CreateSlave
<1>8. ASSUME NEW j \in Jobs, Exit(j) PROVE TypeOK'
  BY <1>8 DEF Exit
<1>9. ASSUME NEW j \in Jobs, StartJoin(j) PROVE TypeOK'
  BY <1>9 DEF StartJoin
<1>10. ASSUME NEW j \in Jobs, JoinReturns(j) PROVE TypeOK'
  BY <1>10 DEF JoinReturns
<1>11. ASSUME NEW j \in Jobs, MarkFree(j) PROVE TypeOK'
  BY <1>11 DEF MarkFree
<1>12. CASE UNCHANGED vars
  BY <1>12 DEF vars
<1> QED
  BY <1>1, <1>2, <1>3, <1>4, <1>5, <1>6, <1>7, <1>8, <1>9, <1>10, <1>11, <1>12
     DEF Next, DispatchThread, Slave, Finished

(* Type correctness of the pool, whatever its size and its callers. *)
THEOREM TypeCorrect == Spec => []TypeOK
BY InitTypeOK, NextTypeOK, PTL DEF Spec

(* A job is in the hands of at most one caller: no step hands it to two.   *)
LEMMA NextCallerOwnsJob ==
  TypeOK /\ TypeOK' /\ CallerOwnsJob /\ [Next]_vars => CallerOwnsJob'
<1> SUFFICES ASSUME TypeOK, TypeOK', CallerOwnsJob, [Next]_vars PROVE CallerOwnsJob'
  OBVIOUS
<1> USE PoolAssumption DEF TypeOK, Slots, CallerOwnsJob
<1>1. ASSUME NEW d \in Dispatchers, NEW j \in Jobs, Offer(d, j) PROVE CallerOwnsJob'
  BY <1>1 DEF Offer
<1>2. ASSUME NEW d \in Dispatchers, ThreadAvail(d) PROVE CallerOwnsJob'
  <2>1. CASE /\ pc' = [pc EXCEPT ![d] = "dispatch"]
             /\ at' = [at EXCEPT ![d] = 1]
             /\ UNCHANGED <<job, fate>>
    BY <1>2, <2>1 DEF ThreadAvail
  <2>2. CASE LookFurther(d)
    BY <1>2, <2>2 DEF ThreadAvail, LookFurther
  <2>3. CASE GiveUp(d, "refused")
    BY <1>2, <2>3 DEF ThreadAvail, GiveUp
  <2> QED
    BY <1>2, <2>1, <2>2, <2>3 DEF ThreadAvail
<1>3. ASSUME NEW d \in Dispatchers, DispatchLook(d) PROVE CallerOwnsJob'
  <2>1. CASE pc' = [pc EXCEPT ![d] = "claim"] /\ UNCHANGED <<at, job, fate>>
    BY <1>3, <2>1 DEF DispatchLook
  <2>2. CASE LookFurther(d)
    BY <1>3, <2>2 DEF DispatchLook, LookFurther
  <2>3. CASE GiveUp(d, "dropped")
    BY <1>3, <2>3 DEF DispatchLook, GiveUp
  <2> QED
    BY <1>3, <2>1, <2>2, <2>3 DEF DispatchLook
<1>4. ASSUME NEW d \in Dispatchers, Claim(d) PROVE CallerOwnsJob'
  BY <1>4 DEF Claim
<1>5. ASSUME NEW d \in Dispatchers, CreateWorker(d) PROVE CallerOwnsJob'
  <2>1. CASE /\ fate' = [fate EXCEPT ![job[d]] = "running"]
             /\ pc' = [pc EXCEPT ![d] = "reap"]
    BY <1>5, <2>1 DEF CreateWorker
  <2>2. CASE /\ fate' = [fate EXCEPT ![job[d]] = "failed"]
             /\ pc' = [pc EXCEPT ![d] = "undo"]
    BY <1>5, <2>2 DEF CreateWorker
  <2> QED
    BY <1>5, <2>1, <2>2 DEF CreateWorker
<1>6. ASSUME NEW d \in Dispatchers, Undo(d) PROVE CallerOwnsJob'
  BY <1>6 DEF Undo
<1>7. ASSUME NEW d \in Dispatchers, CreateSlave(d) PROVE CallerOwnsJob'
  BY <1>7 DEF CreateSlave
<1>8. ASSUME NEW j \in Jobs, Exit(j) PROVE CallerOwnsJob'
  BY <1>8 DEF Exit
<1>9. ASSUME NEW j \in Jobs, StartJoin(j) PROVE CallerOwnsJob'
  BY <1>9 DEF StartJoin
<1>10. ASSUME NEW j \in Jobs, JoinReturns(j) PROVE CallerOwnsJob'
  BY <1>10 DEF JoinReturns
<1>11. ASSUME NEW j \in Jobs, MarkFree(j) PROVE CallerOwnsJob'
  BY <1>11 DEF MarkFree
<1>12. CASE UNCHANGED vars
  BY <1>12 DEF vars
<1> QED
  BY <1>1, <1>2, <1>3, <1>4, <1>5, <1>6, <1>7, <1>8, <1>9, <1>10, <1>11, <1>12
     DEF Next, DispatchThread, Slave, Finished

(* A slot taken by a caller passes from the caller to a slave, and only    *)
(* the slave's last step -- which frees the slot -- ends the chain.        *)
LEMMA NextBusySlotIsOwned ==
  TypeOK /\ TypeOK' /\ CallerOwnsJob /\ BusySlotIsOwned /\ [Next]_vars
    => BusySlotIsOwned'
<1> SUFFICES ASSUME TypeOK, TypeOK', CallerOwnsJob, BusySlotIsOwned, [Next]_vars,
                    NEW i \in Slots, ~status_flags'[i]
             PROVE  \/ \E d \in Dispatchers :
                         pc'[d] \in {"create", "undo", "reap"} /\ at'[d] = i
                    \/ \E j \in Jobs : home'[j] = i /\ slave'[j] \notin {"none", "done"}
  BY DEF BusySlotIsOwned
<1> DEFINE Taken  == \E d \in Dispatchers :
                       pc[d] \in {"create", "undo", "reap"} /\ at[d] = i
           Reaped == \E j \in Jobs : home[j] = i /\ slave[j] \notin {"none", "done"}
           Goal   == Taken' \/ Reaped'
<1> USE DEF TypeOK
<1>a. status_flags[i] \/ Taken \/ Reaped
  BY DEF BusySlotIsOwned
<1>1. ASSUME NEW d \in Dispatchers, NEW j \in Jobs, Offer(d, j) PROVE Goal
  BY <1>1, <1>a DEF Offer
<1>2. ASSUME NEW d \in Dispatchers, ThreadAvail(d) PROVE Goal
  <2>1. CASE pc' = [pc EXCEPT ![d] = "dispatch"] /\ at' = [at EXCEPT ![d] = 1]
    BY <1>2, <1>a, <2>1 DEF ThreadAvail
  <2>2. CASE LookFurther(d)
    BY <1>2, <1>a, <2>2 DEF ThreadAvail, LookFurther
  <2>3. CASE GiveUp(d, "refused")
    BY <1>2, <1>a, <2>3 DEF ThreadAvail, GiveUp
  <2> QED
    BY <1>2, <2>1, <2>2, <2>3 DEF ThreadAvail
<1>3. ASSUME NEW d \in Dispatchers, DispatchLook(d) PROVE Goal
  <2>1. CASE pc' = [pc EXCEPT ![d] = "claim"] /\ UNCHANGED <<at, job, fate>>
    BY <1>3, <1>a, <2>1 DEF DispatchLook
  <2>2. CASE LookFurther(d)
    BY <1>3, <1>a, <2>2 DEF DispatchLook, LookFurther
  <2>3. CASE GiveUp(d, "dropped")
    BY <1>3, <1>a, <2>3 DEF DispatchLook, GiveUp
  <2> QED
    BY <1>3, <2>1, <2>2, <2>3 DEF DispatchLook
<1>4. ASSUME NEW d \in Dispatchers, Claim(d) PROVE Goal
  <2>1. CASE at[d] = i
    BY <1>4, <2>1 DEF Claim
  <2>2. CASE at[d] # i
    BY <1>4, <1>a, <2>2 DEF Claim
  <2> QED
    BY <2>1, <2>2
<1>5. ASSUME NEW d \in Dispatchers, CreateWorker(d) PROVE Goal
  <2>1. Taken => Taken'
    <3>1. at' = at /\ \A e \in Dispatchers : pc'[e] = pc[e] \/ pc'[e] \in {"undo", "reap"}
      BY <1>5 DEF CreateWorker
    <3> QED
      BY <3>1
  <2>2. \A j \in Jobs : slave[j] # "none" => home'[j] = home[j] /\ slave'[j] = slave[j]
    BY <1>5 DEF CreateWorker, CallerOwnsJob
  <2>3. Reaped => Reaped'
    BY <2>2
  <2>4. status_flags[i] = status_flags'[i]
    BY <1>5 DEF CreateWorker
  <2> QED
    BY <1>a, <2>1, <2>3, <2>4
<1>6. ASSUME NEW d \in Dispatchers, Undo(d) PROVE Goal
  BY <1>6, <1>a DEF Undo
<1>7. ASSUME NEW d \in Dispatchers, CreateSlave(d) PROVE Goal
  <2>1. CASE at[d] = i
    <3>1. home'[job[d]] = i /\ job[d] \in Jobs /\ slave'[job[d]] \in {"created", "missing"}
      BY <1>7, <2>1 DEF CreateSlave, CallerOwnsJob
    <3> QED
      BY <3>1
  <2>2. CASE at[d] # i
    BY <1>7, <1>a, <2>2 DEF CreateSlave
  <2> QED
    BY <2>1, <2>2
<1>8. ASSUME NEW j \in Jobs, Exit(j) PROVE Goal
  BY <1>8, <1>a DEF Exit
<1>9. ASSUME NEW j \in Jobs, StartJoin(j) PROVE Goal
  BY <1>9, <1>a DEF StartJoin
<1>10. ASSUME NEW j \in Jobs, JoinReturns(j) PROVE Goal
  BY <1>10, <1>a DEF JoinReturns
<1>11. ASSUME NEW j \in Jobs, MarkFree(j) PROVE Goal
  BY <1>11, <1>a DEF MarkFree
<1>12. CASE UNCHANGED vars
  BY <1>12, <1>a DEF vars
<1> QED
  BY <1>1, <1>2, <1>3, <1>4, <1>5, <1>6, <1>7, <1>8, <1>9, <1>10, <1>11, <1>12
     DEF Next, DispatchThread, Slave, Finished

(* With any number of callers, and whatever pthread_create returns, a busy *)
(* slot has a caller or a slave that will free it, unless the creation of  *)
(* that slave failed.                                                      *)
THEOREM NoSlotIsLost == Spec => []BusySlotIsOwned
<1>1. Init => OwnedInv
  <2>1. Init => CallerOwnsJob
    BY DEF Init, CallerOwnsJob
  <2>2. Init => BusySlotIsOwned
    BY DEF Init, BusySlotIsOwned
  <2> QED
    BY <2>1, <2>2, InitTypeOK DEF OwnedInv
<1>2. OwnedInv /\ [Next]_vars => OwnedInv'
  BY NextTypeOK, NextCallerOwnsJob, NextBusySlotIsOwned DEF OwnedInv
<1>3. OwnedInv => BusySlotIsOwned
  BY DEF OwnedInv
<1> QED
  BY <1>1, <1>2, <1>3, PTL DEF Spec

(* A job that is still looked for a slot has none. *)
Unhoused ==
  /\ \A j \in Jobs : fate[j] \in {"new", "offered"} => home[j] = 0
  /\ \A d \in Dispatchers :
       pc[d] \in {"avail", "dispatch", "claim", "create"} => fate[job[d]] = "offered"

LEMMA NextUnhoused ==
  TypeOK /\ TypeOK' /\ CallerOwnsJob /\ Unhoused /\ [Next]_vars => Unhoused'
<1> SUFFICES ASSUME TypeOK, TypeOK', CallerOwnsJob, Unhoused, [Next]_vars PROVE Unhoused'
  OBVIOUS
<1> USE PoolAssumption DEF TypeOK, Slots, CallerOwnsJob, Unhoused
<1>1. ASSUME NEW d \in Dispatchers, NEW j \in Jobs, Offer(d, j) PROVE Unhoused'
  BY <1>1 DEF Offer
<1>2. ASSUME NEW d \in Dispatchers, ThreadAvail(d) PROVE Unhoused'
  <2>1. CASE pc' = [pc EXCEPT ![d] = "dispatch"] /\ UNCHANGED <<job, fate>>
    BY <1>2, <2>1 DEF ThreadAvail
  <2>2. CASE LookFurther(d)
    BY <1>2, <2>2 DEF ThreadAvail, LookFurther
  <2>3. CASE GiveUp(d, "refused")
    BY <1>2, <2>3 DEF ThreadAvail, GiveUp
  <2> QED
    BY <1>2, <2>1, <2>2, <2>3 DEF ThreadAvail
<1>3. ASSUME NEW d \in Dispatchers, DispatchLook(d) PROVE Unhoused'
  <2>1. CASE pc' = [pc EXCEPT ![d] = "claim"] /\ UNCHANGED <<at, job, fate>>
    BY <1>3, <2>1 DEF DispatchLook
  <2>2. CASE LookFurther(d)
    BY <1>3, <2>2 DEF DispatchLook, LookFurther
  <2>3. CASE GiveUp(d, "dropped")
    BY <1>3, <2>3 DEF DispatchLook, GiveUp
  <2> QED
    BY <1>3, <2>1, <2>2, <2>3 DEF DispatchLook
<1>4. ASSUME NEW d \in Dispatchers, Claim(d) PROVE Unhoused'
  BY <1>4 DEF Claim
<1>5. ASSUME NEW d \in Dispatchers, CreateWorker(d) PROVE Unhoused'
  <2>1. PICK f \in {"running", "failed"} : fate' = [fate EXCEPT ![job[d]] = f]
    BY <1>5 DEF CreateWorker
  <2>2. PICK p \in {"reap", "undo"} : pc' = [pc EXCEPT ![d] = p]
    BY <1>5 DEF CreateWorker
  <2>3. job[d] \in Jobs /\ pc[d] = "create" /\ job' = job
    BY <1>5 DEF CreateWorker
  <2>4. \A j \in Jobs : fate'[j] \in {"new", "offered"} => j # job[d] /\ fate'[j] = fate[j]
    BY <2>1, <2>3
  <2>5. \A j \in Jobs \ {job[d]} : home'[j] = home[j]
    BY <1>5, <2>3 DEF CreateWorker
  <2>6. \A e \in Dispatchers : pc'[e] \in {"avail", "dispatch", "claim", "create"} =>
          e # d /\ pc[e] = pc'[e]
    BY <2>2
  <2>7. \A e \in Dispatchers : e # d /\ pc[e] # "idle" =>
          job[e] \in Jobs /\ job[e] # job[d]
    BY <2>3
  <2>8. \A j \in Jobs \ {job[d]} : fate'[j] = fate[j]
    BY <2>1, <2>3
  <2>9. \A j \in Jobs : fate'[j] \in {"new", "offered"} => home'[j] = 0
    BY <2>4, <2>5
  <2>10. \A e \in Dispatchers : pc'[e] \in {"avail", "dispatch", "claim", "create"} =>
           fate'[job'[e]] = "offered"
    BY <2>3, <2>6, <2>7, <2>8
  <2> QED
    BY <2>9, <2>10
<1>6. ASSUME NEW d \in Dispatchers, Undo(d) PROVE Unhoused'
  BY <1>6 DEF Undo
<1>7. ASSUME NEW d \in Dispatchers, CreateSlave(d) PROVE Unhoused'
  BY <1>7 DEF CreateSlave
<1>8. ASSUME NEW j \in Jobs, Exit(j) PROVE Unhoused'
  BY <1>8 DEF Exit
<1>9. ASSUME NEW j \in Jobs, Slave(j) PROVE Unhoused'
  BY <1>9 DEF Slave, StartJoin, JoinReturns, MarkFree
<1>10. CASE UNCHANGED vars
  BY <1>10 DEF vars
<1> QED
  BY <1>1, <1>2, <1>3, <1>4, <1>5, <1>6, <1>7, <1>8, <1>9, <1>10
     DEF Next, DispatchThread, Finished

(* What could not be created stays so. *)
LEMMA FailedStays ==
  ASSUME TypeOK, CallerOwnsJob, Unhoused, [Next]_vars, AllCreated'
  PROVE  AllCreated
<1> USE DEF TypeOK, CallerOwnsJob, Unhoused
<1> SUFFICES ASSUME NEW k \in Jobs, fate[k] = "failed"
             PROVE  fate'[k] = "failed"
  BY DEF AllCreated
<1>1. ASSUME NEW d \in Dispatchers, NEW j \in Jobs, Offer(d, j) PROVE fate'[k] = "failed"
  BY <1>1 DEF Offer
<1>2. ASSUME NEW d \in Dispatchers, ThreadAvail(d) \/ DispatchLook(d)
      PROVE  fate'[k] = "failed"
  BY <1>2 DEF ThreadAvail, DispatchLook, LookFurther, GiveUp
<1>3. ASSUME NEW d \in Dispatchers, CreateWorker(d) PROVE fate'[k] = "failed"
  <2>1. fate[job[d]] = "offered"
    BY <1>3 DEF CreateWorker
  <2> QED
    BY <1>3, <2>1 DEF CreateWorker
<1>4. ASSUME NEW d \in Dispatchers, Claim(d) \/ Undo(d) \/ CreateSlave(d)
      PROVE  fate'[k] = "failed"
  BY <1>4 DEF Claim, Undo, CreateSlave
<1>5. ASSUME NEW j \in Jobs, Exit(j) \/ Slave(j) PROVE fate'[k] = "failed"
  BY <1>5 DEF Exit, Slave, StartJoin, JoinReturns, MarkFree
<1>6. CASE UNCHANGED vars
  BY <1>6 DEF vars
<1> QED
  BY <1>1, <1>2, <1>3, <1>4, <1>5, <1>6 DEF Next, DispatchThread, Finished

-----------------------------------------------------------------------------
(***************************************************************************)
(* One caller, as long as its workers are created.                         *)
(***************************************************************************)

OneCaller == \A d, e \in Dispatchers : d = e

(* The only caller is right about the slots it looked at, every occupied   *)
(* slot is marked busy and holds its occupant's handle, and every slave    *)
(* joins its own worker.                                                   *)
LEMMA NextOneCallerInv ==
  ASSUME OneCaller, TypeOK, TypeOK', CallerOwnsJob, OneCallerInv, AllCreated', [Next]_vars
  PROVE  OneCallerInv'
<1> USE DEF TypeOK, OneCaller, Slots
<1> DEFINE NoneLost == \A j \in Jobs : fate[j] \notin {"dropped", "failed"}
<1>s. SUFFICES ASSUME TRUE
      PROVE SlotsExclusive' /\ CallerIsRight' /\ SlaveJoinsOwn' /\ NoneLost'
  BY DEF OneCallerInv
<1>i. SlotsExclusive /\ CallerIsRight /\ SlaveJoinsOwn /\ NoneLost
  BY DEF OneCallerInv
<1> DEFINE Goal == SlotsExclusive' /\ CallerIsRight' /\ SlaveJoinsOwn' /\ NoneLost'
<1>1. ASSUME NEW d \in Dispatchers, NEW j \in Jobs, Offer(d, j) PROVE Goal
  <2>1. SlotsExclusive'
    BY <1>1, <1>i DEF Offer, SlotsExclusive, Holds
  <2>2. CallerIsRight'
    BY <1>1, <1>i DEF Offer, CallerIsRight
  <2>3. SlaveJoinsOwn' /\ NoneLost'
    BY <1>1, <1>i DEF Offer, SlaveJoinsOwn, CallerOwnsJob
  <2> QED
    BY <2>1, <2>2, <2>3
<1>2. ASSUME NEW d \in Dispatchers, ThreadAvail(d) PROVE Goal
  <2>1. CASE /\ status_flags[at[d]]
             /\ pc' = [pc EXCEPT ![d] = "dispatch"]
             /\ at' = [at EXCEPT ![d] = 1]
             /\ UNCHANGED <<job, fate>>
    <3>1. SlotsExclusive'
      BY <1>2, <1>i, <2>1 DEF ThreadAvail, SlotsExclusive, Holds
    <3>2. CallerIsRight'
      BY <1>2, <1>i, <2>1 DEF ThreadAvail, CallerIsRight
    <3>3. SlaveJoinsOwn' /\ NoneLost'
      BY <1>2, <1>i, <2>1 DEF ThreadAvail, SlaveJoinsOwn
    <3> QED
      BY <3>1, <3>2, <3>3
  <2>2. CASE LookFurther(d)
    <3>1. SlotsExclusive'
      BY <1>2, <1>i, <2>2 DEF ThreadAvail, LookFurther, SlotsExclusive, Holds
    <3>2. CallerIsRight'
      BY <1>2, <1>i, <2>2 DEF ThreadAvail, LookFurther, CallerIsRight
    <3>3. SlaveJoinsOwn' /\ NoneLost'
      BY <1>2, <1>i, <2>2 DEF ThreadAvail, LookFurther, SlaveJoinsOwn
    <3> QED
      BY <3>1, <3>2, <3>3
  <2>3. CASE GiveUp(d, "refused")
    <3>1. SlotsExclusive'
      BY <1>2, <1>i, <2>3 DEF ThreadAvail, GiveUp, SlotsExclusive, Holds
    <3>2. CallerIsRight'
      BY <1>2, <1>i, <2>3 DEF ThreadAvail, GiveUp, CallerIsRight
    <3>3. SlaveJoinsOwn' /\ NoneLost'
      BY <1>2, <1>i, <2>3 DEF ThreadAvail, GiveUp, SlaveJoinsOwn, CallerOwnsJob
    <3> QED
      BY <3>1, <3>2, <3>3
  <2> QED
    BY <1>2, <2>1, <2>2, <2>3 DEF ThreadAvail
<1>3. ASSUME NEW d \in Dispatchers, DispatchLook(d) PROVE Goal
  <2>1. CASE /\ status_flags[at[d]]
             /\ pc' = [pc EXCEPT ![d] = "claim"]
             /\ UNCHANGED <<at, job, fate>>
    <3>1. SlotsExclusive'
      BY <1>3, <1>i, <2>1 DEF DispatchLook, SlotsExclusive, Holds
    <3>2. CallerIsRight'
      BY <1>3, <1>i, <2>1 DEF DispatchLook, CallerIsRight
    <3>3. SlaveJoinsOwn' /\ NoneLost'
      BY <1>3, <1>i, <2>1 DEF DispatchLook, SlaveJoinsOwn
    <3> QED
      BY <3>1, <3>2, <3>3
  <2>2. CASE LookFurther(d)
    <3>1. SlotsExclusive'
      BY <1>3, <1>i, <2>2 DEF DispatchLook, LookFurther, SlotsExclusive, Holds
    <3>2. CallerIsRight'
      BY <1>3, <1>i, <2>2 DEF DispatchLook, LookFurther, CallerIsRight
    <3>3. SlaveJoinsOwn' /\ NoneLost'
      BY <1>3, <1>i, <2>2 DEF DispatchLook, LookFurther, SlaveJoinsOwn
    <3> QED
      BY <3>1, <3>2, <3>3
  <2>3. ~(~status_flags[at[d]] /\ at[d] = ThreadCount)
    BY <1>3, <1>i DEF DispatchLook, CallerIsRight
  <2> QED
    BY <1>3, <2>1, <2>2, <2>3 DEF DispatchLook
<1>4. ASSUME NEW d \in Dispatchers, Claim(d) PROVE Goal
  <2>0. status_flags[at[d]]
    BY <1>4, <1>i DEF Claim, CallerIsRight
  <2>1. SlotsExclusive'
    BY <1>4, <1>i DEF Claim, SlotsExclusive, Holds
  <2>2. CallerIsRight'
    BY <1>4, <1>i, <2>0 DEF Claim, CallerIsRight, SlotsExclusive, Holds
  <2>3. SlaveJoinsOwn' /\ NoneLost'
    BY <1>4, <1>i DEF Claim, SlaveJoinsOwn
  <2> QED
    BY <2>1, <2>2, <2>3
<1>5. ASSUME NEW d \in Dispatchers, CreateWorker(d) PROVE Goal
  <2>1. /\ pool' = [pool EXCEPT ![at[d]] = job[d]]
        /\ fate' = [fate EXCEPT ![job[d]] = "running"]
        /\ pc' = [pc EXCEPT ![d] = "reap"]
    BY <1>5 DEF CreateWorker, AllCreated
  <2>2. /\ ~status_flags[at[d]]
        /\ \A j \in Jobs : Holds(j) => home[j] # at[d]
        /\ fate[job[d]] = "offered"
    BY <1>5, <1>i DEF CreateWorker, CallerIsRight
  <2>3. SlotsExclusive'
    BY <1>5, <1>i, <2>1, <2>2 DEF CreateWorker, SlotsExclusive, Holds
  <2>4. CallerIsRight'
    BY <1>5, <1>i, <2>1, <2>2 DEF CreateWorker, CallerIsRight
  <2>5. SlaveJoinsOwn' /\ NoneLost'
    BY <1>5, <1>i, <2>1, <2>2 DEF CreateWorker, SlaveJoinsOwn
  <2> QED
    BY <2>3, <2>4, <2>5
<1>6. ASSUME NEW d \in Dispatchers, Undo(d) PROVE Goal
  BY <1>6, <1>i DEF Undo, CallerIsRight
<1>7. ASSUME NEW d \in Dispatchers, CreateSlave(d) PROVE Goal
  <2>0. fate[job[d]] \in {"running", "exited"} /\ slave[job[d]] = "none"
    BY <1>7, <1>i DEF CreateSlave, CallerIsRight, CallerOwnsJob
  <2>1. SlotsExclusive'
    BY <1>7, <1>i, <2>0 DEF CreateSlave, SlotsExclusive, Holds
  <2>2. CallerIsRight'
    BY <1>7, <1>i DEF CreateSlave, CallerIsRight
  <2>3. SlaveJoinsOwn' /\ NoneLost'
    BY <1>7, <1>i, <2>0 DEF CreateSlave, SlaveJoinsOwn
  <2> QED
    BY <2>1, <2>2, <2>3
<1>8. ASSUME NEW j \in Jobs, Exit(j) PROVE Goal
  <2>1. SlotsExclusive'
    BY <1>8, <1>i DEF Exit, SlotsExclusive, Holds
  <2>2. CallerIsRight'
    BY <1>8, <1>i DEF Exit, CallerIsRight, Holds
  <2>3. SlaveJoinsOwn' /\ NoneLost'
    BY <1>8, <1>i DEF Exit, SlaveJoinsOwn
  <2> QED
    BY <2>1, <2>2, <2>3
<1>9. ASSUME NEW j \in Jobs, StartJoin(j) PROVE Goal
  <2>0. Holds(j) /\ pool[home[j]] = j /\ target[j] = NoJob
    BY <1>9, <1>i DEF StartJoin, SlotsExclusive, SlaveJoinsOwn, Holds
  <2>1. JoinDefined(pool[home[j]])
    BY <1>i, <2>0, PoolAssumption DEF JoinDefined, SlaveJoinsOwn
  <2>2. target' = [target EXCEPT ![j] = j] /\ slave' = [slave EXCEPT ![j] = "joining"]
    BY <1>9, <2>0, <2>1 DEF StartJoin
  <2>3. SlotsExclusive'
    BY <1>9, <1>i, <2>2 DEF StartJoin, SlotsExclusive, Holds
  <2>4. CallerIsRight'
    BY <1>9, <1>i, <2>0, <2>2 DEF StartJoin, CallerIsRight, Holds
  <2>5. SlaveJoinsOwn' /\ NoneLost'
    BY <1>9, <1>i, <2>0, <2>2 DEF StartJoin, SlaveJoinsOwn, Holds
  <2> QED
    BY <2>3, <2>4, <2>5
<1>10. ASSUME NEW j \in Jobs, JoinReturns(j) PROVE Goal
  <2>0. slave[j] = "joining" /\ fate[j] = "exited"
    BY <1>10, <1>i DEF JoinReturns, SlaveJoinsOwn
  <2>1. SlotsExclusive'
    BY <1>10, <1>i, <2>0 DEF JoinReturns, SlotsExclusive, Holds
  <2>2. CallerIsRight'
    BY <1>10, <1>i, <2>0 DEF JoinReturns, CallerIsRight, Holds
  <2>3. SlaveJoinsOwn' /\ NoneLost'
    BY <1>10, <1>i, <2>0 DEF JoinReturns, SlaveJoinsOwn
  <2> QED
    BY <2>1, <2>2, <2>3
<1>11. ASSUME NEW j \in Jobs, MarkFree(j) PROVE Goal
  <2>0. Holds(j) /\ home[j] \in Slots /\ pool[home[j]] = j
    BY <1>11, <1>i DEF MarkFree, SlotsExclusive, SlaveJoinsOwn, Holds
  <2>1. \A k \in Jobs : Holds(k) /\ home[k] = home[j] => k = j
    BY <1>i, <2>0 DEF SlotsExclusive
  <2>2. SlotsExclusive'
    BY <1>11, <1>i, <2>0, <2>1 DEF MarkFree, SlotsExclusive, Holds
  <2>3. CallerIsRight'
    BY <1>11, <1>i, <2>0 DEF MarkFree, CallerIsRight, Holds
  <2>4. SlaveJoinsOwn' /\ NoneLost'
    BY <1>11, <1>i DEF MarkFree, SlaveJoinsOwn
  <2> QED
    BY <2>2, <2>3, <2>4
<1>12. CASE UNCHANGED vars
  <2>1. SlotsExclusive' /\ SlaveJoinsOwn'
    BY <1>12, <1>i DEF vars, SlotsExclusive, Holds, SlaveJoinsOwn
  <2>2. CallerIsRight' /\ NoneLost'
    BY <1>12, <1>i DEF vars, CallerIsRight, Holds
  <2> QED
    BY <2>1, <2>2
<1> QED
  BY <1>1, <1>2, <1>3, <1>4, <1>5, <1>6, <1>7, <1>8, <1>9, <1>10, <1>11, <1>12
     DEF Next, DispatchThread, Slave, Finished

(* Jobs that occupy slots occupy different ones.                           *)
LEMMA OccupantsFit ==
  ASSUME TypeOK, SlotsExclusive, NEW T \in SUBSET Slots,
         \A j \in Jobs : Holds(j) => home[j] \in T
  PROVE  LET O == {j \in Jobs : Holds(j)}
         IN  IsFiniteSet(O) /\ Cardinality(O) <= Cardinality(T)
<1> DEFINE O == {j \in Jobs : Holds(j)}
           h == [j \in O |-> home[j]]
<1>1. IsFiniteSet(T)
  <2>1. IsFiniteSet(Slots)
    BY FS_Interval, PoolAssumption DEF Slots
  <2> QED
    BY <2>1, FS_Subset
<1>2. h \in Injection(O, T)
  <2>1. h \in [O -> T]
    OBVIOUS
  <2>2. \A j, k \in O : home[j] = home[k] => j = k
    BY DEF SlotsExclusive
  <2> QED
    BY <2>1, <2>2 DEF Injection, IsInjective
<1> HIDE DEF O, h
<1> QED
  BY <1>1, <1>2, FS_Injection DEF O

(* The safety of the pool follows from what one caller preserves.          *)
LEMMA OneCallerSafety ==
  ASSUME TypeOK, OneCallerInv
  PROVE  AtMostThreadCount /\ FreeMeansIdle /\ NoUndefinedJoin /\ NoSilentDrop
<1>1. FreeMeansIdle
  BY DEF OneCallerInv, SlotsExclusive, Holds, SlaveJoinsOwn, FreeMeansIdle
<1>2. NoUndefinedJoin /\ NoSilentDrop
  BY DEF OneCallerInv, SlaveJoinsOwn, NoUndefinedJoin, NoSilentDrop
<1>3. AtMostThreadCount
  <2> DEFINE O == {j \in Jobs : Holds(j)}
             R == {j \in Jobs : fate[j] = "running"}
  <2>1. R \subseteq O
    BY DEF OneCallerInv, SlaveJoinsOwn, Holds, TypeOK, SlaveStates
  <2>2. IsFiniteSet(O) /\ Cardinality(O) <= Cardinality(Slots)
    BY OccupantsFit DEF OneCallerInv, SlotsExclusive
  <2>3. Cardinality(Slots) = ThreadCount
    BY FS_Interval, PoolAssumption DEF Slots
  <2>4. Cardinality(R) <= Cardinality(O) /\ Cardinality(O) \in Nat /\ Cardinality(R) \in Nat
    <3> HIDE DEF O, R
    <3> QED
      BY <2>1, <2>2, FS_Subset, FS_CardinalityType
  <2>5. Cardinality(R) <= ThreadCount
    BY <2>2, <2>3, <2>4, PoolAssumption
  <2> QED
    BY <2>5 DEF AtMostThreadCount
<1> QED
  BY <1>1, <1>2, <1>3

(* The invariant of the one-caller pool, with what it is inductive with. *)
SoloInv == OwnedInv /\ Unhoused /\ (AllCreated => OneCallerInv)

LEMMA InitSoloInv == Init => SoloInv
<1> SUFFICES ASSUME Init PROVE SoloInv
  OBVIOUS
<1>1. OwnedInv
  BY InitTypeOK DEF Init, OwnedInv, CallerOwnsJob, BusySlotIsOwned
<1>2. OneCallerInv
  BY DEF Init, OneCallerInv, SlotsExclusive, CallerIsRight, SlaveJoinsOwn, Holds
<1>3. Unhoused
  BY DEF Init, Unhoused
<1> QED
  BY <1>1, <1>2, <1>3 DEF SoloInv

LEMMA NextSoloInv ==
  ASSUME OneCaller PROVE SoloInv /\ [Next]_vars => SoloInv'
BY NextTypeOK, NextCallerOwnsJob, NextBusySlotIsOwned, NextUnhoused, NextOneCallerInv,
   FailedStays DEF SoloInv, OwnedInv

(* Called by one thread, and as long as its workers are created, the pool  *)
(* never runs more functions than it has slots, tells the truth about its  *)
(* slots, and drops no job it said it had room for.                        *)
THEOREM OneCallerIsSafe ==
  ASSUME OneCaller
  PROVE  Spec => []((AllCreated => AtMostThreadCount /\ NoSilentDrop) /\ FreeMeansIdle)
<1>1. SoloInv => (AllCreated => AtMostThreadCount /\ NoSilentDrop) /\ FreeMeansIdle
  BY OneCallerSafety DEF SoloInv, OwnedInv, FreeMeansIdle
<1>2. SoloInv /\ [Next]_vars => SoloInv'
  BY NextSoloInv
<1> QED
  BY <1>1, <1>2, InitSoloInv, PTL DEF Spec

(* The slave of a dispatch joins the thread of that dispatch, and each is  *)
(* joined once (threadpool.h:28-47): with one caller whose workers are     *)
(* created no slot's handle is overwritten before it has been read, for    *)
(* pools and jobs of any number.                                           *)
THEOREM JoinsAreDefined == ASSUME OneCaller PROVE Spec => []NoUndefinedJoin
<1>1. SoloInv => NoUndefinedJoin
  BY DEF SoloInv, OneCallerInv, SlaveJoinsOwn, NoUndefinedJoin
<1>2. SoloInv /\ [Next]_vars => SoloInv'
  BY NextSoloInv
<1> QED
  BY <1>1, <1>2, InitSoloInv, PTL DEF Spec

-----------------------------------------------------------------------------
(***************************************************************************)
(* One caller may take the pool for a BoundedPool.                         *)
(***************************************************************************)

(* A step that changes no job's phase is a stuttering step of BoundedPool. *)
LEMMA PhaseStutters ==
  ASSUME \A j \in Jobs : PhaseOf(j)' = PhaseOf(j)
  PROVE  UNCHANGED Phase
BY DEF Phase

(* A step that changes the phase of one job is a Move of it. *)
LEMMA PhaseMoves ==
  ASSUME NEW j \in Jobs, NEW from, NEW to,
         PhaseOf(j) = from, PhaseOf(j)' = to,
         \A k \in Jobs \ {j} : PhaseOf(k)' = PhaseOf(k)
  PROVE  Phase[j] = from /\ Phase' = [Phase EXCEPT ![j] = to]
BY DEF Phase

(* The jobs BoundedPool counts are those that occupy slots.                *)
LEMMA OccupyingHolds ==
  ASSUME TypeOK, OneCallerInv
  PROVE  Bounded!Occupying = {j \in Jobs : Holds(j)}
<1>1. \A j \in Jobs : PhaseOf(j) \in {"running", "lingering"} <=> Holds(j)
  BY DEF PhaseOf, Holds, OneCallerInv, SlaveJoinsOwn, TypeOK, Fates, SlaveStates
<1> QED
  BY <1>1 DEF Bounded!Occupying, Phase

(* Every step of the pool is a step of BoundedPool or a stuttering step.   *)
LEMMA NextImplements ==
  ASSUME OneCaller, SoloInv, SoloInv', AllCreated', [Next]_vars
  PROVE  [Bounded!Next]_Phase
<1> DEFINE Goal == Bounded!Next \/ UNCHANGED Phase
<1>t. TypeOK /\ CallerOwnsJob /\ BusySlotIsOwned /\ OneCallerInv /\ TypeOK'
  BY FailedStays DEF SoloInv, OwnedInv
<1>i. SlotsExclusive /\ CallerIsRight /\ SlaveJoinsOwn
  BY <1>t DEF OneCallerInv
<1> USE <1>t DEF TypeOK
<1>1. ASSUME NEW d \in Dispatchers, NEW j \in Jobs, Offer(d, j) PROVE Goal
  <2>1. \A k \in Jobs : PhaseOf(k)' = PhaseOf(k)
    BY <1>1 DEF Offer, PhaseOf
  <2> QED
    BY <2>1, PhaseStutters
<1>2. ASSUME NEW d \in Dispatchers, ThreadAvail(d) PROVE Goal
  <2>1. CASE UNCHANGED fate
    <3>1. \A k \in Jobs : PhaseOf(k)' = PhaseOf(k)
      BY <1>2, <2>1 DEF ThreadAvail, PhaseOf
    <3> QED
      BY <3>1, PhaseStutters
  <2>2. CASE ~status_flags[at[d]] /\ at[d] = ThreadCount /\ GiveUp(d, "refused")
    <3>1. PICK j \in Jobs : j = job[d] /\ fate[j] = "offered"
      BY <1>2, <1>i DEF ThreadAvail, CallerIsRight
    <3>2. fate' = [fate EXCEPT ![j] = "refused"] /\ UNCHANGED slave
      BY <1>2, <2>2, <3>1 DEF ThreadAvail, GiveUp
    <3>3. /\ PhaseOf(j) = "waiting"
          /\ PhaseOf(j)' = "refused"
          /\ \A k \in Jobs \ {j} : PhaseOf(k)' = PhaseOf(k)
      BY <3>1, <3>2 DEF PhaseOf
    <3>4. PICK k \in Jobs : home[k] = ThreadCount /\ slave[k] \notin {"none", "done"}
      <4>1. ThreadCount \in Slots /\ ~status_flags[ThreadCount]
        BY <2>2, PoolAssumption DEF Slots
      <4>2. \A e \in Dispatchers : pc[e] = "avail"
        BY <1>2 DEF ThreadAvail, OneCaller
      <4> QED
        BY <4>1, <4>2 DEF BusySlotIsOwned
    <3>5. Holds(k)
      BY <1>i, <3>4 DEF SlaveJoinsOwn, Holds
    <3>6. Bounded!Occupying # {}
      BY <3>5, OccupyingHolds
    <3>7. Phase[j] = "waiting" /\ Phase' = [Phase EXCEPT ![j] = "refused"]
      BY <3>3, PhaseMoves
    <3> QED
      BY <3>6, <3>7 DEF Phase, Bounded!Next, Bounded!Refuse, Bounded!Move
  <2> QED
    BY <1>2, <2>1, <2>2 DEF ThreadAvail, LookFurther
<1>3. ASSUME NEW d \in Dispatchers, DispatchLook(d) PROVE Goal
  <2>1. UNCHANGED <<fate, slave>>
    BY <1>3, <1>i DEF DispatchLook, CallerIsRight, LookFurther, Slots
  <2>2. \A k \in Jobs : PhaseOf(k)' = PhaseOf(k)
    BY <2>1 DEF PhaseOf
  <2> QED
    BY <2>2, PhaseStutters
<1>4. ASSUME NEW d \in Dispatchers, Claim(d) PROVE Goal
  <2>1. \A k \in Jobs : PhaseOf(k)' = PhaseOf(k)
    BY <1>4 DEF Claim, PhaseOf
  <2> QED
    BY <2>1, PhaseStutters
<1>5. ASSUME NEW d \in Dispatchers, CreateWorker(d) PROVE Goal
  <2>1. PICK j \in Jobs : j = job[d] /\ fate[j] = "offered"
    BY <1>5, <1>i DEF CreateWorker, CallerIsRight
  <2>2. fate' = [fate EXCEPT ![j] = "running"] /\ UNCHANGED slave
    BY <1>5, <2>1 DEF CreateWorker, AllCreated
  <2>3. /\ PhaseOf(j) = "waiting"
        /\ PhaseOf(j)' = "running"
        /\ \A k \in Jobs \ {j} : PhaseOf(k)' = PhaseOf(k)
    BY <2>1, <2>2 DEF PhaseOf
  <2>4. Cardinality({k \in Jobs : Holds(k)}) < ThreadCount
    <3> DEFINE O == {k \in Jobs : Holds(k)}
    <3>1. \A k \in Jobs : Holds(k) => home[k] \in Slots \ {at[d]}
      BY <1>5, <1>i DEF CreateWorker, CallerIsRight, SlotsExclusive
    <3>2. IsFiniteSet(O) /\ Cardinality(O) <= Cardinality(Slots \ {at[d]})
      BY <1>i, <3>1, OccupantsFit
    <3>3. IsFiniteSet(Slots) /\ Cardinality(Slots) = ThreadCount
      BY FS_Interval, PoolAssumption DEF Slots
    <3>4. Cardinality(Slots \ {at[d]}) = ThreadCount - 1
      <4>1. at[d] \in Slots
        OBVIOUS
      <4> QED
        BY <3>3, <4>1, FS_RemoveElement
    <3>5. Cardinality(O) \in Nat
      BY <3>2, FS_CardinalityType
    <3> HIDE DEF O
    <3>6. Cardinality(O) < ThreadCount
      BY <3>2, <3>4, <3>5, PoolAssumption
    <3> QED
      BY <3>6 DEF O
  <2>5. Cardinality(Bounded!Occupying) < ThreadCount
    BY <2>4, OccupyingHolds
  <2>6. Phase[j] = "waiting" /\ Phase' = [Phase EXCEPT ![j] = "running"]
    BY <2>3, PhaseMoves
  <2>7. Bounded!Move(j, "waiting", "running")
    BY <2>6 DEF Phase, Bounded!Move
  <2>8. Bounded!Cardinality(Bounded!Occupying) = Cardinality(Bounded!Occupying)
    BY DEF Cardinality, Bounded!Cardinality
  <2> QED
    BY <2>5, <2>7, <2>8 DEF Bounded!Next, Bounded!Start
<1>6. ASSUME NEW d \in Dispatchers, Undo(d) PROVE Goal
  BY <1>6, <1>i DEF Undo, CallerIsRight
<1>7. ASSUME NEW d \in Dispatchers, CreateSlave(d) PROVE Goal
  <2>1. \A k \in Jobs : PhaseOf(k)' = PhaseOf(k)
    BY <1>7 DEF CreateSlave, PhaseOf, CallerOwnsJob
  <2> QED
    BY <2>1, PhaseStutters
<1>8. ASSUME NEW j \in Jobs, Exit(j) PROVE Goal
  <2>1. /\ PhaseOf(j) = "running"
        /\ PhaseOf(j)' = "lingering"
        /\ \A k \in Jobs \ {j} : PhaseOf(k)' = PhaseOf(k)
    BY <1>8, <1>i DEF Exit, PhaseOf, SlaveJoinsOwn
  <2>2. Phase[j] = "running" /\ Phase' = [Phase EXCEPT ![j] = "lingering"]
    BY <2>1, PhaseMoves
  <2> QED
    BY <2>2 DEF Phase, Bounded!Next, Bounded!Return, Bounded!Move
<1>9. ASSUME NEW j \in Jobs, StartJoin(j) PROVE Goal
  <2>1. \A k \in Jobs : PhaseOf(k)' = PhaseOf(k)
    BY <1>9 DEF StartJoin, PhaseOf
  <2> QED
    BY <2>1, PhaseStutters
<1>10. ASSUME NEW j \in Jobs, JoinReturns(j) PROVE Goal
  <2>1. \A k \in Jobs : PhaseOf(k)' = PhaseOf(k)
    BY <1>10 DEF JoinReturns, PhaseOf
  <2> QED
    BY <2>1, PhaseStutters
<1>11. ASSUME NEW j \in Jobs, MarkFree(j) PROVE Goal
  <2>1. /\ PhaseOf(j) = "lingering"
        /\ PhaseOf(j)' = "gone"
        /\ \A k \in Jobs \ {j} : PhaseOf(k)' = PhaseOf(k)
    BY <1>11, <1>i DEF MarkFree, PhaseOf, SlaveJoinsOwn
  <2>2. Phase[j] = "lingering" /\ Phase' = [Phase EXCEPT ![j] = "gone"]
    BY <2>1, PhaseMoves
  <2> QED
    BY <2>2 DEF Phase, Bounded!Next, Bounded!Release, Bounded!Move
<1>12. CASE UNCHANGED vars
  <2>1. \A k \in Jobs : PhaseOf(k)' = PhaseOf(k)
    BY <1>12 DEF vars, PhaseOf
  <2> QED
    BY <2>1, PhaseStutters
<1> QED
  BY <1>1, <1>2, <1>3, <1>4, <1>5, <1>6, <1>7, <1>8, <1>9, <1>10, <1>11, <1>12
     DEF Next, DispatchThread, Slave, Finished

(* Called by one thread, and as long as its workers are created, the pool  *)
(* is a bounded pool: it starts a job only if fewer than ThreadCount       *)
(* threads are out, refuses only when some thread is out, and loses none.  *)
THEOREM OneCallerImplements == ASSUME OneCaller PROVE Spec => ImplementsBoundedPool
<1>1. Init => Bounded!Init
  BY DEF Init, Bounded!Init, Phase, PhaseOf
<1>2. SoloInv /\ [Next]_vars => SoloInv'
  BY NextSoloInv
<1>3. SoloInv /\ SoloInv' /\ [Next]_vars => [AllCreated' => [Bounded!Next]_Phase]_vars
  BY NextImplements
<1> QED
  BY <1>1, <1>2, <1>3, InitSoloInv, PTL DEF Spec, ImplementsBoundedPool

(* If they can all be created, it implements the bounded pool for good.    *)
THEOREM OneCallerIsBounded ==
  ASSUME OneCaller, WorkerMayFail = {}
  PROVE  Spec => Bounded!Spec
<1> DEFINE Fine == TypeOK /\ AllCreated
<1>1. Init => Fine
  BY InitTypeOK DEF Init, AllCreated
<1>2. Fine /\ [Next]_vars => AllCreated'
  <2> SUFFICES ASSUME Fine, [Next]_vars PROVE AllCreated'
    OBVIOUS
  <2> USE DEF TypeOK, AllCreated
  <2>1. ASSUME NEW d \in Dispatchers, NEW j \in Jobs, Offer(d, j) PROVE AllCreated'
    BY <2>1 DEF Offer
  <2>2. ASSUME NEW d \in Dispatchers, ThreadAvail(d) \/ DispatchThread(d) PROVE AllCreated'
    BY <2>2 DEF ThreadAvail, DispatchThread, DispatchLook, LookFurther, GiveUp, Claim,
                CreateWorker, Undo, CreateSlave
  <2>3. ASSUME NEW j \in Jobs, Exit(j) \/ Slave(j) PROVE AllCreated'
    BY <2>3 DEF Exit, Slave, StartJoin, JoinReturns, MarkFree
  <2>4. CASE UNCHANGED vars
    BY <2>4 DEF vars
  <2> QED
    BY <2>1, <2>2, <2>3, <2>4 DEF Next, Finished
<1>3. AllCreated' /\ [AllCreated' => [Bounded!Next]_Phase]_vars => [Bounded!Next]_Phase
  BY DEF vars, Phase, PhaseOf
<1> QED
  BY <1>1, <1>2, <1>3, TypeCorrect, OneCallerImplements, PTL
     DEF Spec, ImplementsBoundedPool, Bounded!Spec

-----------------------------------------------------------------------------
(***************************************************************************)
(* Losses: any number of callers, any failures.                            *)
(***************************************************************************)

(* Slot i has been claimed for some job, now or earlier.                   *)
Claimed(i) ==
  \/ \E j \in Jobs : home[j] = i
  \/ \E d \in Dispatchers : pc[d] = "create" /\ at[d] = i

(* Only a claim makes a slot busy, and what a search has passed was busy.  *)
(* That slots come back does not undo it: they were claimed all the same.  *)
Passed ==
  /\ \A i \in Slots : ~status_flags[i] => Claimed(i)
  /\ \A d \in Dispatchers : pc[d] \in {"avail", "dispatch"} =>
       \A i \in Slots : i < at[d] => Claimed(i)
  /\ (\E j \in Jobs : fate[j] \in {"refused", "dropped"}) => \A i \in Slots : Claimed(i)

LoadInv == TypeOK /\ CallerOwnsJob /\ Unhoused /\ Passed

(* Once claimed, always claimed. *)
LEMMA ClaimedStays ==
  ASSUME TypeOK, CallerOwnsJob, Unhoused, [Next]_vars, NEW i \in Slots, Claimed(i)
  PROVE  Claimed(i)'
<1> USE PoolAssumption DEF TypeOK, Slots, Claimed
<1>1. ASSUME NEW d \in Dispatchers, CreateWorker(d) PROVE Claimed(i)'
  <2>1. job[d] \in Jobs /\ home[job[d]] = 0 /\ home'[job[d]] = at[d]
    BY <1>1 DEF CreateWorker, Unhoused
  <2>2. \A j \in Jobs \ {job[d]} : home'[j] = home[j]
    BY <1>1 DEF CreateWorker
  <2>3. \A e \in Dispatchers \ {d} : pc'[e] = pc[e] /\ at'[e] = at[e]
    BY <1>1 DEF CreateWorker
  <2>4. CASE \E j \in Jobs : home[j] = i
    <3>1. PICK j \in Jobs : home[j] = i
      BY <2>4
    <3>2. home'[j] = i
      BY <2>1, <2>2, <3>1
    <3> QED
      BY <3>2
  <2>5. CASE \E e \in Dispatchers : pc[e] = "create" /\ at[e] = i
    <3>1. PICK e \in Dispatchers : pc[e] = "create" /\ at[e] = i
      BY <2>5
    <3>2. CASE e = d
      BY <2>1, <3>1, <3>2
    <3>3. CASE e # d
      BY <2>3, <3>1, <3>3
    <3> QED
      BY <3>2, <3>3
  <2> QED
    BY <2>4, <2>5
<1>2. ASSUME home' = home,
             \A d \in Dispatchers : pc[d] = "create" => pc'[d] = "create" /\ at'[d] = at[d]
      PROVE  Claimed(i)'
  BY <1>2
<1>3. ASSUME NEW d \in Dispatchers, NEW j \in Jobs, Offer(d, j) PROVE Claimed(i)'
  BY <1>2, <1>3 DEF Offer
<1>4. ASSUME NEW d \in Dispatchers, ThreadAvail(d) PROVE Claimed(i)'
  <2>1. \A e \in Dispatchers : pc[e] = "create" => pc'[e] = "create" /\ at'[e] = at[e]
    BY <1>4 DEF ThreadAvail, LookFurther, GiveUp
  <2> QED
    BY <1>2, <1>4, <2>1 DEF ThreadAvail
<1>5. ASSUME NEW d \in Dispatchers, DispatchLook(d) PROVE Claimed(i)'
  <2>1. \A e \in Dispatchers : pc[e] = "create" => pc'[e] = "create" /\ at'[e] = at[e]
    BY <1>5 DEF DispatchLook, LookFurther, GiveUp
  <2> QED
    BY <1>2, <1>5, <2>1 DEF DispatchLook
<1>6. ASSUME NEW d \in Dispatchers, Claim(d) \/ Undo(d) \/ CreateSlave(d) PROVE Claimed(i)'
  <2>1. \A e \in Dispatchers : pc[e] = "create" => pc'[e] = "create" /\ at'[e] = at[e]
    BY <1>6 DEF Claim, Undo, CreateSlave
  <2> QED
    BY <1>2, <1>6, <2>1 DEF Claim, Undo, CreateSlave
<1>7. ASSUME NEW j \in Jobs, Exit(j) \/ Slave(j) PROVE Claimed(i)'
  BY <1>2, <1>7 DEF Exit, Slave, StartJoin, JoinReturns, MarkFree
<1>8. CASE UNCHANGED vars
  BY <1>2, <1>8 DEF vars
<1> QED
  BY <1>1, <1>3, <1>4, <1>5, <1>6, <1>7, <1>8 DEF Next, DispatchThread, Finished

LEMMA NextPassed ==
  ASSUME LoadInv, [Next]_vars
  PROVE  Passed'
<1>a. TypeOK /\ CallerOwnsJob /\ Unhoused /\ Passed
  BY DEF LoadInv
<1>b. \A i \in Slots : Claimed(i) => Claimed(i)'
  BY <1>a, ClaimedStays
<1> USE PoolAssumption DEF TypeOK, Slots
(* The three parts, for a step that neither makes a slot busy, nor looks   *)
(* further, nor ends a search.                                             *)
<1>1. ASSUME \A i \in Slots : ~status_flags'[i] => ~status_flags[i],
             \A d \in Dispatchers : pc'[d] \in {"avail", "dispatch"} =>
               at'[d] = 1 \/ (pc[d] = pc'[d] /\ at'[d] = at[d]),
             \A j \in Jobs : fate'[j] \in {"refused", "dropped"} => fate'[j] = fate[j]
      PROVE  Passed'
  <2>1. \A i \in Slots : ~status_flags'[i] => Claimed(i)'
    BY <1>a, <1>b, <1>1 DEF Passed
  <2>2. ASSUME NEW d \in Dispatchers, pc'[d] \in {"avail", "dispatch"},
               NEW i \in Slots, i < at'[d]
        PROVE  Claimed(i)'
    <3>1. pc[d] = pc'[d] /\ at'[d] = at[d]
      BY <1>1, <2>2
    <3>2. Claimed(i)
      BY <1>a, <2>2, <3>1 DEF Passed
    <3> QED
      BY <1>b, <3>2
  <2>3. (\E j \in Jobs : fate'[j] \in {"refused", "dropped"}) => \A i \in Slots : Claimed(i)'
    BY <1>a, <1>b, <1>1 DEF Passed
  <2> QED
    BY <2>1, <2>2, <2>3 DEF Passed
(* A caller at slot at[d] that finds it busy knows of one slot more.       *)
<1>2. ASSUME NEW d \in Dispatchers, pc[d] \in {"avail", "dispatch"}, ~status_flags[at[d]]
      PROVE  \A i \in Slots : i <= at[d] => Claimed(i)
  <2>1. \A i \in Slots : i < at[d] => Claimed(i)
    BY <1>a, <1>2 DEF Passed
  <2>2. Claimed(at[d])
    BY <1>a, <1>2 DEF Passed
  <2> QED
    BY <1>a, <2>1, <2>2
<1>3. ASSUME NEW d \in Dispatchers, pc[d] \in {"avail", "dispatch"}, LookFurther(d),
             status_flags' = status_flags
      PROVE  Passed'
  <2>1. \A i \in Slots : i < at'[d] => Claimed(i)'
    BY <1>a, <1>b, <1>2, <1>3 DEF LookFurther
  <2>2. \A e \in Dispatchers \ {d} : at'[e] = at[e]
    BY <1>a, <1>3 DEF LookFurther
  <2>3. pc' = pc /\ fate' = fate
    BY <1>3 DEF LookFurther
  <2> QED
    BY <1>a, <1>b, <1>3, <2>1, <2>2, <2>3 DEF Passed
<1>4. ASSUME NEW d \in Dispatchers, pc[d] \in {"avail", "dispatch"}, NEW f, GiveUp(d, f),
             ~status_flags[at[d]], at[d] = ThreadCount, status_flags' = status_flags
      PROVE  Passed'
  <2>1. \A i \in Slots : Claimed(i)'
    BY <1>a, <1>b, <1>2, <1>4
  <2> QED
    BY <2>1 DEF Passed
<1>5. ASSUME NEW d \in Dispatchers, ThreadAvail(d) PROVE Passed'
  <2>1. CASE /\ pc' = [pc EXCEPT ![d] = "dispatch"]
             /\ at' = [at EXCEPT ![d] = 1]
             /\ UNCHANGED <<job, fate>>
    BY <1>a, <1>1, <1>5, <2>1 DEF ThreadAvail
  <2> QED
    BY <1>3, <1>4, <1>5, <2>1 DEF ThreadAvail
<1>6. ASSUME NEW d \in Dispatchers, DispatchLook(d) PROVE Passed'
  <2>1. CASE pc' = [pc EXCEPT ![d] = "claim"] /\ UNCHANGED <<at, job, fate>>
    BY <1>a, <1>1, <1>6, <2>1 DEF DispatchLook
  <2> QED
    BY <1>3, <1>4, <1>6, <2>1 DEF DispatchLook
<1>7. ASSUME NEW d \in Dispatchers, Claim(d) PROVE Passed'
  <2>1. \A i \in Slots : i = at[d] => Claimed(i)'
    BY <1>a, <1>7 DEF Claim, Claimed
  <2>2. \A i \in Slots : ~status_flags'[i] => ~status_flags[i] \/ i = at[d]
    BY <1>a, <1>7 DEF Claim
  <2>3. \A e \in Dispatchers : pc'[e] \in {"avail", "dispatch"} => pc[e] = pc'[e]
    BY <1>a, <1>7 DEF Claim
  <2>4. at' = at /\ fate' = fate
    BY <1>7 DEF Claim
  <2>5. \A i \in Slots : ~status_flags'[i] => Claimed(i)'
    BY <1>a, <1>b, <2>1, <2>2 DEF Passed
  <2>6. ASSUME NEW e \in Dispatchers, pc'[e] \in {"avail", "dispatch"},
               NEW i \in Slots, i < at'[e]
        PROVE  Claimed(i)'
    <3>1. Claimed(i)
      BY <1>a, <2>3, <2>4, <2>6 DEF Passed
    <3> QED
      BY <1>b, <3>1
  <2>7. (\E j \in Jobs : fate'[j] \in {"refused", "dropped"}) => \A i \in Slots : Claimed(i)'
    BY <1>a, <1>b, <2>4 DEF Passed
  <2> QED
    BY <2>5, <2>6, <2>7 DEF Passed
<1>8. ASSUME NEW d \in Dispatchers, NEW j \in Jobs, Offer(d, j) PROVE Passed'
  BY <1>a, <1>1, <1>8 DEF Offer
<1>9. ASSUME NEW d \in Dispatchers, CreateWorker(d) PROVE Passed'
  <2>1. CASE /\ fate' = [fate EXCEPT ![job[d]] = "running"]
             /\ pc' = [pc EXCEPT ![d] = "reap"]
    BY <1>a, <1>1, <1>9, <2>1 DEF CreateWorker
  <2>2. CASE /\ fate' = [fate EXCEPT ![job[d]] = "failed"]
             /\ pc' = [pc EXCEPT ![d] = "undo"]
    BY <1>a, <1>1, <1>9, <2>2 DEF CreateWorker
  <2> QED
    BY <1>9, <2>1, <2>2 DEF CreateWorker
<1>10. ASSUME NEW d \in Dispatchers, Undo(d) PROVE Passed'
  BY <1>a, <1>1, <1>10 DEF Undo
<1>11. ASSUME NEW d \in Dispatchers, CreateSlave(d) PROVE Passed'
  BY <1>a, <1>1, <1>11 DEF CreateSlave
<1>12. ASSUME NEW j \in Jobs, Exit(j) PROVE Passed'
  BY <1>a, <1>1, <1>12 DEF Exit
<1>13. ASSUME NEW j \in Jobs, Slave(j) PROVE Passed'
  BY <1>a, <1>1, <1>13 DEF Slave, StartJoin, JoinReturns, MarkFree
<1>14. CASE UNCHANGED vars
  BY <1>1, <1>14 DEF vars
<1> QED
  BY <1>5, <1>6, <1>7, <1>8, <1>9, <1>10, <1>11, <1>12, <1>13, <1>14
     DEF Next, DispatchThread, Finished

(* If every slot has been claimed there are as many claims as slots. *)
LEMMA ClaimsCount ==
  ASSUME TypeOK, IsFiniteSet(Jobs), IsFiniteSet(Dispatchers), \A i \in Slots : Claimed(i)
  PROVE  Claims >= ThreadCount
<1> DEFINE A == {j \in Jobs : home[j] # 0}
           B == {d \in Dispatchers : pc[d] = "create"}
           S == {i \in Slots : \E j \in A : home[j] = i}
           R == {i \in Slots : \E d \in B : at[d] = i}
           f == [j \in {k \in A : home[k] \in S} |-> home[j]]
           g == [d \in {e \in B : at[e] \in R} |-> at[d]]
<1>1. IsFiniteSet(A) /\ IsFiniteSet(B)
  BY FS_Subset
<1>2. IsFiniteSet(S) /\ Cardinality(S) <= Cardinality(A)
  <2>1. IsFiniteSet(DOMAIN f) /\ Cardinality(DOMAIN f) <= Cardinality(A)
    <3>1. DOMAIN f \subseteq A
      OBVIOUS
    <3> QED
      BY <1>1, <3>1, FS_Subset
  <2>2. f \in Surjection(DOMAIN f, S)
    BY DEF Surjection
  <2>3. IsFiniteSet(S) /\ Cardinality(S) <= Cardinality(DOMAIN f)
    BY <2>1, <2>2, FS_Surjection
  <2>4. Cardinality(S) \in Nat /\ Cardinality(A) \in Nat /\ Cardinality(DOMAIN f) \in Nat
    BY <1>1, <2>1, <2>3, FS_CardinalityType
  <2> HIDE DEF A, S, f
  <2> QED
    BY <2>1, <2>3, <2>4
<1>3. IsFiniteSet(R) /\ Cardinality(R) <= Cardinality(B)
  <2>1. IsFiniteSet(DOMAIN g) /\ Cardinality(DOMAIN g) <= Cardinality(B)
    <3>1. DOMAIN g \subseteq B
      OBVIOUS
    <3> QED
      BY <1>1, <3>1, FS_Subset
  <2>2. g \in Surjection(DOMAIN g, R)
    BY DEF Surjection
  <2>3. IsFiniteSet(R) /\ Cardinality(R) <= Cardinality(DOMAIN g)
    BY <2>1, <2>2, FS_Surjection
  <2>4. Cardinality(R) \in Nat /\ Cardinality(B) \in Nat /\ Cardinality(DOMAIN g) \in Nat
    BY <1>1, <2>1, <2>3, FS_CardinalityType
  <2> HIDE DEF B, R, g
  <2> QED
    BY <2>1, <2>3, <2>4
<1>4. Slots = S \cup R
  <2>1. ASSUME NEW i \in Slots, NEW j \in Jobs, home[j] = i PROVE i \in S
    <3>1. i # 0
      BY PoolAssumption DEF Slots
    <3> QED
      BY <2>1, <3>1
  <2>2. ASSUME NEW i \in Slots, NEW d \in Dispatchers, pc[d] = "create", at[d] = i
        PROVE  i \in R
    BY <2>2
  <2>3. \A i \in Slots : i \in S \/ i \in R
    BY <2>1, <2>2 DEF Claimed
  <2> QED
    BY <2>3
<1>5. Cardinality(Slots) = ThreadCount
  BY FS_Interval, PoolAssumption DEF Slots
<1>6. Cardinality(S \cup R) = Cardinality(S) + Cardinality(R) - Cardinality(S \cap R)
  BY <1>2, <1>3, FS_Union
<1>7. Cardinality(S \cap R) \in Nat
  BY <1>2, FS_Intersection, FS_CardinalityType
<1>8. /\ Cardinality(S) \in Nat /\ Cardinality(R) \in Nat
      /\ Cardinality(A) \in Nat /\ Cardinality(B) \in Nat
  BY <1>1, <1>2, <1>3, FS_CardinalityType
<1>9. Claims = Cardinality(A) + Cardinality(B)
  BY DEF Claims
<1> HIDE DEF A, B, S, R
<1> QED
  BY <1>2, <1>3, <1>4, <1>5, <1>6, <1>7, <1>8, <1>9, PoolAssumption

LEMMA InitLoadInv == Init => LoadInv
BY PoolAssumption, InitTypeOK DEF Init, LoadInv, CallerOwnsJob, Unhoused, Passed, TypeOK, Slots

(* However many threads call the pool and whatever cannot be created, no   *)
(* job is refused or dropped before as many claims were made as the pool   *)
(* has slots: thread_avail and dispatch_thread (threadpool.h:80-133) pass  *)
(* only slots that were claimed for other jobs.                            *)
THEOREM LossesNeedLoad ==
  ASSUME IsFiniteSet(Jobs), IsFiniteSet(Dispatchers)
  PROVE  Spec => []LossNeedsLoad
<1>1. LoadInv /\ [Next]_vars => LoadInv'
  BY NextTypeOK, NextCallerOwnsJob, NextUnhoused, NextPassed DEF LoadInv
<1>2. LoadInv => LossNeedsLoad
  BY ClaimsCount DEF LoadInv, Passed, LossNeedsLoad
<1> QED
  BY <1>1, <1>2, InitLoadInv, PTL DEF Spec

(* What was given up never had a slot. *)
GivenUp == \A j \in Jobs : fate[j] \in {"refused", "dropped"} => home[j] = 0

LEMMA NextGivenUp ==
  TypeOK /\ TypeOK' /\ CallerOwnsJob /\ Unhoused /\ GivenUp /\ [Next]_vars => GivenUp'
<1> SUFFICES ASSUME TypeOK, TypeOK', CallerOwnsJob, Unhoused, GivenUp, [Next]_vars
             PROVE  GivenUp'
  OBVIOUS
<1> USE PoolAssumption DEF TypeOK, Unhoused, GivenUp
<1>1. ASSUME NEW d \in Dispatchers, NEW j \in Jobs, Offer(d, j) PROVE GivenUp'
  BY <1>1 DEF Offer
<1>2. ASSUME NEW d \in Dispatchers, ThreadAvail(d) PROVE GivenUp'
  BY <1>2 DEF ThreadAvail, LookFurther, GiveUp
<1>3. ASSUME NEW d \in Dispatchers, DispatchLook(d) PROVE GivenUp'
  BY <1>3 DEF DispatchLook, LookFurther, GiveUp
<1>4. ASSUME NEW d \in Dispatchers, Claim(d) \/ Undo(d) \/ CreateSlave(d) PROVE GivenUp'
  BY <1>4 DEF Claim, Undo, CreateSlave
<1>5. ASSUME NEW d \in Dispatchers, CreateWorker(d) PROVE GivenUp'
  <2>1. \E f : f \in {"running", "failed"} /\ fate' = [fate EXCEPT ![job[d]] = f]
    BY <1>5 DEF CreateWorker
  <2>2. home' = [home EXCEPT ![job[d]] = at[d]]
    BY <1>5 DEF CreateWorker
  <2> QED
    BY <2>1, <2>2
<1>6. ASSUME NEW j \in Jobs, Exit(j) \/ Slave(j) PROVE GivenUp'
  BY <1>6 DEF Exit, Slave, StartJoin, JoinReturns, MarkFree
<1>7. CASE UNCHANGED vars
  BY <1>7 DEF vars
<1> QED
  BY <1>1, <1>2, <1>3, <1>4, <1>5, <1>6, <1>7 DEF Next, DispatchThread, Finished

(* If every slot has been claimed while a job has been given up, there are *)
(* more jobs than slots: each slot has a job of its own, and none has that. *)
LEMMA MoreJobsThanSlots ==
  ASSUME LoadInv, GivenUp, IsFiniteSet(Jobs), NEW r \in Jobs, fate[r] \in {"refused", "dropped"}
  PROVE  Cardinality(Jobs) > ThreadCount
<1> DEFINE Has(j, i) == \/ home[j] = i
                        \/ \E d \in Dispatchers : pc[d] = "create" /\ at[d] = i /\ job[d] = j
           owner == [i \in Slots |-> CHOOSE j \in Jobs : Has(j, i)]
           Others == Jobs \ {r}
<1> USE DEF LoadInv, TypeOK, Unhoused
<1>1. ASSUME NEW i \in Slots
      PROVE  \E j \in Jobs : Has(j, i)
  <2>1. Claimed(i)
    BY DEF Passed
  <2>2. \A d \in Dispatchers : pc[d] = "create" => job[d] \in Jobs
    BY PoolAssumption
  <2> QED
    BY <2>1, <2>2 DEF Claimed
<1>2. \A i \in Slots : owner[i] \in Jobs /\ Has(owner[i], i)
  BY <1>1
<1>3. 0 \notin Slots
  BY PoolAssumption DEF Slots
<1>4. ASSUME NEW j \in Jobs, NEW i \in Slots, NEW k \in Slots, Has(j, i), Has(j, k)
      PROVE  i = k
  <2>1. \A d \in Dispatchers : pc[d] = "create" /\ job[d] = j => home[j] = 0
    OBVIOUS
  <2>2. \A d, e \in Dispatchers :
          pc[d] = "create" /\ pc[e] = "create" /\ job[d] = j /\ job[e] = j => d = e
    BY DEF CallerOwnsJob
  <2> QED
    BY <1>3, <1>4, <2>1, <2>2
<1>5. \A i \in Slots : ~Has(r, i)
  BY <1>3 DEF GivenUp
<1> HIDE DEF Has
<1>6. owner \in [Slots -> Others] /\ \A i, k \in Slots : owner[i] = owner[k] => i = k
  BY <1>2, <1>4, <1>5
<1> HIDE DEF owner
<1>7. owner \in Injection(Slots, Others)
  BY <1>6 DEF Injection, IsInjective
<1>8. IsFiniteSet(Others) /\ Cardinality(Others) = Cardinality(Jobs) - 1
  BY FS_RemoveElement
<1>9. Cardinality(Slots) <= Cardinality(Others)
  BY <1>7, <1>8, FS_Injection
<1>10. Cardinality(Slots) = ThreadCount
  BY FS_Interval, PoolAssumption DEF Slots
<1>11. Cardinality(Jobs) \in Nat
  BY FS_CardinalityType
<1> QED
  BY <1>8, <1>9, <1>10, <1>11, PoolAssumption

(* A pool with a slot for every job that is ever brought to it refuses and *)
(* drops none, however many threads call it, and whatever slots they come  *)
(* to share: who is told that a thread is available gets one.              *)
THEOREM EnoughSlots ==
  ASSUME IsFiniteSet(Jobs), Cardinality(Jobs) <= ThreadCount
  PROVE  Spec => [](NoSilentDrop /\ \A j \in Jobs : fate[j] # "refused")
<1> DEFINE Inv == LoadInv /\ GivenUp
<1>1. Init => Inv
  BY InitLoadInv DEF Init, GivenUp
<1>2. Inv /\ [Next]_vars => Inv'
  BY NextTypeOK, NextCallerOwnsJob, NextUnhoused, NextPassed, NextGivenUp DEF LoadInv
<1>3. Inv => NoSilentDrop /\ \A j \in Jobs : fate[j] # "refused"
  <2>1. Cardinality(Jobs) \in Nat
    BY FS_CardinalityType
  <2>2. Inv => ~\E j \in Jobs : fate[j] \in {"refused", "dropped"}
    BY <2>1, MoreJobsThanSlots, PoolAssumption
  <2> QED
    BY <2>2 DEF NoSilentDrop
<1> QED
  BY <1>1, <1>2, <1>3, PTL DEF Spec
=============================================================================
