---------------------- MODULE ProcessPerMessage_proofs ----------------------
(***************************************************************************)
(* Proofs about ProcessPerMessage, for any applications of the two hosts,  *)
(* any number of messages and any size of the pool.  Every step of a host  *)
(* is one of its pool's or leaves the pool alone, so what ThreadPool_proofs *)
(* says of any callers holds of these.                                     *)
(***************************************************************************)
EXTENDS ProcessPerMessage, FiniteSetTheorems, SequenceTheorems, TLAPS

(* What is proved of the pool. *)
Lib == INSTANCE ThreadPool_proofs WITH WorkerMayFail <- MayFail, SlaveMayFail <- {}

(***************************************************************************)
(* The inductive invariant.                                                *)
(***************************************************************************)

(* Until eth_deliver runs, only the constructor uses the pool. *)
BeforeEth ==
  fate[Eth] \in {"new", "offered"} =>
    /\ \A d \in Dispatchers \ {"main"} : pc[d] = "idle"
    /\ fate[Eth] = "offered" => pc["main"] # "idle" /\ job["main"] = Eth
    /\ pc["main"] = "create" => ~status_flags[at["main"]]
    /\ \A j \in Jobs : home[j] = 0 /\ slave[j] = "none" /\ target[j] = NoJob
    /\ \A j \in Jobs \ {Eth} : fate[j] = "new"
    /\ \A i \in Pool!Slots : pool[i] = NoJob

(* While it runs no caller is about to claim its slot, no slave is about   *)
(* to free it, and its handle is there for its own slave only.             *)
WhileEth ==
  fate[Eth] = "running" =>
    /\ home[Eth] \in Pool!Slots /\ ~status_flags[home[Eth]]
    /\ \A i \in Pool!Slots : pool[i] = Eth <=> i = home[Eth]
    /\ \A j \in Jobs \ {Eth} : home[j] # home[Eth] /\ target[j] # Eth
    /\ \A d \in Dispatchers : pc[d] \in {"claim", "create", "undo", "reap"} =>
         at[d] # home[Eth] \/ job[d] = Eth
    /\ \/ slave[Eth] \in {"none", "created"} /\ target[Eth] = NoJob
       \/ slave[Eth] = "joining" /\ target[Eth] = Eth

(* A caller's job is on offer until its thread is created, or is not; that *)
(* of eth_deliver is.                                                      *)
InHand ==
  \A d \in Dispatchers :
    /\ pc[d] \in {"avail", "dispatch", "claim", "create"} => fate[job[d]] = "offered"
    /\ pc[d] = "undo" => job[d] # Eth

HostInv == Lib!TypeOK /\ Lib!CallerOwnsJob /\ InHand /\ BeforeEth /\ WhileEth

-----------------------------------------------------------------------------
(***************************************************************************)
(* The host's steps are steps of its pool.                                 *)
(***************************************************************************)

(* Who brings the job j to the pool, and when. *)
Brings(d, j) ==
  \/ d = "main" /\ j = Eth
  \/ d # "main" /\ j # Eth /\ (fate[Eth] = "running" \/ (fate[Eth] # "new" /\ pc["main"] = "idle"))

HostStep ==
  \/ \E d \in Dispatchers : \E j \in Jobs : Brings(d, j) /\ Pool!Offer(d, j)
  \/ \E d \in Dispatchers : Pool!ThreadAvail(d) \/ Pool!DispatchThread(d)
  \/ \E j \in Jobs : Pool!Exit(j) \/ Pool!Slave(j)
  \/ UNCHANGED poolvars

LEMMA JobNames ==
  /\ Eth \in Jobs /\ NoJob \notin Jobs
  /\ \A x \in ToSend : Down(x[1], x[2]) \in Jobs
  /\ \A x \in ToReceive : Up(x[1], x[2]) \in Jobs
  /\ \A a, n : Down(a, n) # Eth /\ Up(a, n) # Eth
  /\ MayFail \subseteq Jobs \ {Eth}
<1>1. NoJob \notin Jobs
  BY DEF NoJob, Jobs, Eth, Down, Up
<1>2. \A a, n : Down(a, n) # Eth /\ Up(a, n) # Eth
  BY DEF Eth, Down, Up
<1> QED
  BY <1>1, <1>2 DEF Jobs, MayFail

LEMMA DispatcherNames ==
  /\ "main" \in Dispatchers /\ "eth_deliver" \in Dispatchers /\ Apps \subseteq Dispatchers
  /\ "main" \notin Apps /\ "main" # "eth_deliver"
BY HostAssumption DEF Dispatchers, AllApps

LEMMA StepsOfHost == [Next]_vars => HostStep
<1> SUFFICES ASSUME [Next]_vars
             PROVE  HostStep
  OBVIOUS
<1>1. CASE Construct
  BY <1>1, JobNames, DispatcherNames DEF Construct, HostStep, Brings
<1>2. ASSUME NEW a \in Apps, Poll(a)
      PROVE  HostStep
  <2>1. PICK n \in 1 .. TotSend : Pool!Offer(a, Down(a, n))
    BY <1>2 DEF Poll
  <2>2. Down(a, n) \in Jobs /\ Down(a, n) # Eth
    <3>1. <<a, n>> \in ToSend
      BY DEF ToSend
    <3>2. Down(<<a, n>>[1], <<a, n>>[2]) \in Jobs
      BY <3>1, JobNames, Zenon
    <3> QED
      BY <3>2, JobNames
  <2>3. Brings(a, Down(a, n))
    BY <1>2, <2>2, DispatcherNames DEF Poll, Brings
  <2> QED
    BY <2>1, <2>2, <2>3, DispatcherNames DEF HostStep
<1>3. CASE Receive
  <2>1. PICK x \in ToReceive : Pool!Offer("eth_deliver", Up(x[1], x[2]))
    BY <1>3 DEF Receive
  <2>2. Up(x[1], x[2]) \in Jobs /\ Up(x[1], x[2]) # Eth
    BY JobNames
  <2>3. Brings("eth_deliver", Up(x[1], x[2]))
    <3>1. fate[Eth] = "running"
      BY <1>3 DEF Receive
    <3> QED
      BY <2>2, <3>1, DispatcherNames, Zenon DEF Brings
  <2> QED
    BY <2>1, <2>2, <2>3, DispatcherNames DEF HostStep
<1>4. CASE EthReturns
  BY <1>4, JobNames DEF EthReturns, HostStep
<1>5. ASSUME NEW d \in Dispatchers, Calls(d)
      PROVE  HostStep
  BY <1>5 DEF Calls, HostStep
<1>6. ASSUME NEW j \in Jobs, Reaps(j)
      PROVE  HostStep
  BY <1>6 DEF Reaps, HostStep
<1>8. ASSUME NEW x \in ToSend, Sent(x)
      PROVE  HostStep
  BY <1>8, JobNames DEF Sent, HostStep
<1>9. ASSUME NEW x \in ToReceive, Delivered(x)
      PROVE  HostStep
  BY <1>9, JobNames DEF Delivered, HostStep
<1>7. CASE Lose \/ Finished \/ UNCHANGED vars
  BY <1>7 DEF Lose, Finished, vars, HostStep
<1> QED
  BY <1>1, <1>2, <1>3, <1>4, <1>5, <1>6, <1>7, <1>8, <1>9 DEF Next

LEMMA SameCalls ==
  ASSUME NEW d
  PROVE  /\ Pool!ThreadAvail(d) => Lib!ThreadAvail(d)
         /\ Pool!DispatchThread(d) => Lib!DispatchThread(d)
<1>1. Pool!LookFurther(d) <=> Lib!LookFurther(d)
  BY DEF Pool!LookFurther, Lib!LookFurther
<1>2. \A f : Pool!GiveUp(d, f) <=> Lib!GiveUp(d, f)
  BY DEF Pool!GiveUp, Lib!GiveUp
<1>3. Pool!ThreadAvail(d) => Lib!ThreadAvail(d)
  BY <1>1, <1>2, Zenon DEF Pool!ThreadAvail, Lib!ThreadAvail
<1>4. Pool!DispatchLook(d) => Lib!DispatchLook(d)
  BY <1>1, <1>2, Zenon DEF Pool!DispatchLook, Lib!DispatchLook
<1>5. Pool!Claim(d) => Lib!Claim(d)
  BY Zenon DEF Pool!Claim, Lib!Claim
<1>6. Pool!CreateWorker(d) => Lib!CreateWorker(d)
  BY Zenon DEF Pool!CreateWorker, Lib!CreateWorker
<1>7. Pool!Undo(d) => Lib!Undo(d)
  BY Zenon DEF Pool!Undo, Lib!Undo
<1>8. Pool!CreateSlave(d) => Lib!CreateSlave(d)
  BY Zenon DEF Pool!CreateSlave, Lib!CreateSlave
<1> QED
  BY <1>3, <1>4, <1>5, <1>6, <1>7, <1>8, Zenon DEF Pool!DispatchThread, Lib!DispatchThread

LEMMA SameSlaves ==
  ASSUME NEW j
  PROVE  Pool!Slave(j) => Lib!Slave(j)
<1>1. \A h : Pool!JoinDefined(h) <=> Lib!JoinDefined(h)
  BY Zenon DEF Pool!JoinDefined, Lib!JoinDefined
<1>2. Pool!StartJoin(j) => Lib!StartJoin(j)
  BY <1>1 DEF Pool!StartJoin, Lib!StartJoin
<1>3. Pool!JoinReturns(j) => Lib!JoinReturns(j)
  BY Zenon DEF Pool!JoinReturns, Lib!JoinReturns
<1>4. Pool!MarkFree(j) => Lib!MarkFree(j)
  BY Zenon DEF Pool!MarkFree, Lib!MarkFree
<1> QED
  BY <1>2, <1>3, <1>4, Zenon DEF Pool!Slave, Lib!Slave

LEMMA StepsOfPool == [Next]_vars => [Lib!Next]_(Lib!vars)
<1> SUFFICES ASSUME HostStep
             PROVE  [Lib!Next]_(Lib!vars)
  BY StepsOfHost
<1>1. ASSUME NEW d \in Dispatchers, NEW j \in Jobs, Pool!Offer(d, j)
      PROVE  Lib!Offer(d, j)
  BY <1>1 DEF Pool!Offer, Lib!Offer
<1>2. ASSUME NEW j \in Jobs, Pool!Exit(j)
      PROVE  Lib!Exit(j)
  BY <1>2 DEF Pool!Exit, Lib!Exit
<1>3. UNCHANGED poolvars => UNCHANGED Lib!vars
  BY DEF poolvars, Lib!vars
<1> QED
  BY <1>1, <1>2, <1>3, SameCalls, SameSlaves, Zenon DEF HostStep, Lib!Next

LEMMA PoolIsInstance == Lib!PoolAssumption
BY HostAssumption, JobNames DEF Lib!PoolAssumption

LEMMA InitOfPool == Init => Lib!Init
BY DEF Init, Pool!Init, Lib!Init, Pool!Slots, Lib!Slots

LEMMA FiniteHost == IsFiniteSet(Jobs) /\ IsFiniteSet(Dispatchers)
<1>1. IsFiniteSet(AllApps)
  <2>1. IsFiniteSet({"FTP"} \cup {"TELNET"}) /\ IsFiniteSet({"RDP"} \cup {"DNS"})
    BY FS_Singleton, FS_Union
  <2>2. IsFiniteSet(({"FTP"} \cup {"TELNET"}) \cup ({"RDP"} \cup {"DNS"}))
    BY <2>1, FS_Union
  <2>3. AllApps = ({"FTP"} \cup {"TELNET"}) \cup ({"RDP"} \cup {"DNS"})
    BY DEF AllApps
  <2> QED
    BY <2>2, <2>3
<1>2. IsFiniteSet(Apps) /\ IsFiniteSet(PeerApps) /\ IsFiniteSet(1 .. TotSend)
  BY <1>1, HostAssumption, FS_Subset, FS_Interval
<1>3. IsFiniteSet(ToSend) /\ IsFiniteSet(ToReceive)
  BY <1>2, FS_Product DEF ToSend, ToReceive
<1>4. IsFiniteSet({Down(x[1], x[2]) : x \in ToSend})
  <2> DEFINE D == {Down(x[1], x[2]) : x \in ToSend}
             f == [x \in ToSend |-> Down(x[1], x[2])]
  <2>1. f \in [ToSend -> D] /\ \A y \in D : \E x \in ToSend : f[x] = y
    OBVIOUS
  <2> HIDE DEF D, f
  <2>2. f \in Surjection(ToSend, D)
    BY <2>1 DEF Surjection
  <2>3. IsFiniteSet(D)
    BY <1>3, <2>2, FS_Surjection
  <2> QED
    BY <2>3 DEF D
<1>5. IsFiniteSet({Up(x[1], x[2]) : x \in ToReceive})
  <2> DEFINE U == {Up(x[1], x[2]) : x \in ToReceive}
             f == [x \in ToReceive |-> Up(x[1], x[2])]
  <2>1. f \in [ToReceive -> U] /\ \A y \in U : \E x \in ToReceive : f[x] = y
    OBVIOUS
  <2> HIDE DEF U, f
  <2>2. f \in Surjection(ToReceive, U)
    BY <2>1 DEF Surjection
  <2>3. IsFiniteSet(U)
    BY <1>3, <2>2, FS_Surjection
  <2> QED
    BY <2>3 DEF U
<1>6. IsFiniteSet(({Eth} \cup {Down(x[1], x[2]) : x \in ToSend})
                    \cup {Up(x[1], x[2]) : x \in ToReceive})
  BY <1>4, <1>5, FS_Singleton, FS_Union
<1>7. IsFiniteSet(({"main"} \cup {"eth_deliver"}) \cup Apps)
  BY <1>2, FS_Singleton, FS_Union
<1>8. Dispatchers = ({"main"} \cup {"eth_deliver"}) \cup Apps
  BY DEF Dispatchers
<1> QED
  BY <1>6, <1>7, <1>8 DEF Jobs

(* Whatever callers overlap, on the way down or up: no message is lost to  *)
(* the pool before as many functions have been given a slot as it has.     *)
THEOREM LossesNeedLoad == Spec => []LossNeedsLoad
<1>1. Spec => Lib!Spec
  BY InitOfPool, StepsOfPool, PTL DEF Spec, Lib!Spec
<1>2. Lib!IsFiniteSet(Jobs) /\ Lib!IsFiniteSet(Dispatchers)
  BY FiniteHost DEF IsFiniteSet, Lib!IsFiniteSet
<1>3. Lib!Spec => []Lib!LossNeedsLoad
  BY <1>2, PoolIsInstance, Lib!LossesNeedLoad
<1>4. \A S : Pool!Cardinality(S) = Lib!Cardinality(S)
  BY DEF Pool!Cardinality, Lib!Cardinality
<1>5. Lib!LossNeedsLoad => LossNeedsLoad
  BY <1>4, Zenon DEF LossNeedsLoad, Pool!LossNeedsLoad, Lib!LossNeedsLoad, Pool!Claims, Lib!Claims
<1> QED
  BY <1>1, <1>3, <1>5, PTL

(* No slot of the host's pool is lost: one that is not free has a thread   *)
(* that will free it, whichever deliver or send function was dispatched.   *)
THEOREM NoSlotIsLost == Spec => []BusySlotIsOwned
<1>1. Spec => Lib!Spec
  BY InitOfPool, StepsOfPool, PTL DEF Spec, Lib!Spec
<1>2. Lib!Spec => []Lib!BusySlotIsOwned
  BY PoolIsInstance, Lib!NoSlotIsLost
<1>3. Lib!BusySlotIsOwned => BusySlotIsOwned
  BY Zenon DEF BusySlotIsOwned, Lib!BusySlotIsOwned, Pool!BusySlotIsOwned, Lib!Slots, Pool!Slots
<1> QED
  BY <1>1, <1>2, <1>3, PTL

-----------------------------------------------------------------------------
(***************************************************************************)
(* The slot of eth_deliver.                                                *)
(***************************************************************************)

LEMMA SameSlots == Pool!Slots = Lib!Slots
BY DEF Pool!Slots, Lib!Slots

LEMMA InitHostInv == Init => HostInv
<1> SUFFICES ASSUME Init
             PROVE  HostInv
  OBVIOUS
<1>1. Lib!TypeOK /\ Lib!CallerOwnsJob
  BY InitOfPool, PoolIsInstance, Lib!InitTypeOK DEF Lib!Init, Lib!CallerOwnsJob
<1>2. InHand /\ BeforeEth /\ WhileEth
  BY JobNames, DispatcherNames DEF Init, Pool!Init, InHand, BeforeEth, WhileEth
<1> QED
  BY <1>1, <1>2 DEF HostInv

(* A job stays on offer, in its caller's hands, until its thread is created. *)
LEMMA NextInHand ==
  ASSUME HostInv, [Next]_vars
  PROVE  InHand'
<1> USE DEF InHand, Lib!TypeOK, Lib!CallerOwnsJob
<1>1. HostStep /\ Lib!TypeOK /\ Lib!CallerOwnsJob /\ InHand
  BY StepsOfHost DEF HostInv
<1>2. ASSUME NEW d \in Dispatchers, NEW j \in Jobs, Pool!Offer(d, j)
      PROVE  InHand'
  BY <1>1, <1>2 DEF Pool!Offer
<1>3. ASSUME NEW d \in Dispatchers, Pool!ThreadAvail(d)
      PROVE  InHand'
  BY <1>1, <1>3 DEF Pool!ThreadAvail, Pool!LookFurther, Pool!GiveUp
<1>4. ASSUME NEW d \in Dispatchers, Pool!DispatchThread(d)
      PROVE  InHand'
  <2>1. CASE Pool!DispatchLook(d)
    BY <1>1, <2>1 DEF Pool!DispatchLook, Pool!LookFurther, Pool!GiveUp
  <2>2. CASE Pool!Claim(d)
    BY <1>1, <2>2 DEF Pool!Claim
  <2>3. CASE Pool!CreateWorker(d)
    BY <1>1, <2>3, JobNames DEF Pool!CreateWorker
  <2>4. CASE Pool!Undo(d) \/ Pool!CreateSlave(d)
    BY <1>1, <2>4 DEF Pool!Undo, Pool!CreateSlave
  <2> QED
    BY <1>4, <2>1, <2>2, <2>3, <2>4 DEF Pool!DispatchThread
<1>5. ASSUME NEW j \in Jobs, Pool!Exit(j)
      PROVE  InHand'
  BY <1>1, <1>5 DEF Pool!Exit
<1>6. ASSUME NEW j \in Jobs, Pool!Slave(j)
      PROVE  InHand'
  BY <1>1, <1>6 DEF Pool!Slave, Pool!StartJoin, Pool!JoinReturns, Pool!MarkFree
<1>7. CASE UNCHANGED poolvars
  BY <1>1, <1>7 DEF poolvars
<1> QED
  BY <1>1, <1>2, <1>3, <1>4, <1>5, <1>6, <1>7 DEF HostStep

(* Before it runs, only the constructor is inside the pool. *)
LEMMA OnlyMain ==
  ASSUME HostInv, NEW d \in Dispatchers, pc[d] # "idle", fate[Eth] \in {"new", "offered"}
  PROVE  d = "main" /\ job[d] = Eth /\ fate[Eth] = "offered"
BY DispatcherNames DEF HostInv, BeforeEth, Lib!CallerOwnsJob, Lib!TypeOK

(* A search for a free slot that goes on, or gives the job up. *)
LEMMA SearchBeforeEth ==
  ASSUME HostInv, NEW d \in Dispatchers, pc[d] # "idle",
         NEW c, c # "create", pc' = [pc EXCEPT ![d] = c],
         UNCHANGED <<status_flags, pool, slave, home, target>>,
         \/ c # "idle" /\ UNCHANGED <<job, fate>>
         \/ \E f : f \notin {"new", "offered"} /\ fate' = [fate EXCEPT ![job[d]] = f]
  PROVE  BeforeEth'
<1>1. SUFFICES ASSUME fate'[Eth] \in {"new", "offered"}
               PROVE  BeforeEth'
  BY DEF BeforeEth
<1>2. Lib!TypeOK /\ Lib!CallerOwnsJob /\ BeforeEth /\ DOMAIN fate = Jobs
  BY DEF HostInv, Lib!TypeOK
<1>3. c # "idle" /\ UNCHANGED <<job, fate>>
  <2>1. CASE \E f : f \notin {"new", "offered"} /\ fate' = [fate EXCEPT ![job[d]] = f]
    <3>1. PICK f : f \notin {"new", "offered"} /\ fate' = [fate EXCEPT ![job[d]] = f]
      BY <2>1
    <3>2. \A j \in Jobs : fate'[j] = IF j = job[d] THEN f ELSE fate[j]
      <4>1. DOMAIN fate = Jobs
        BY <1>2
      <4> QED
        BY <3>1, <4>1
    <3>3. job[d] # Eth /\ fate[Eth] \in {"new", "offered"}
      BY <1>1, <3>1, <3>2, JobNames
    <3> QED
      BY <3>3, OnlyMain
  <2> QED
    BY <2>1
<1>4. d = "main" /\ job[d] = Eth /\ fate[Eth] = "offered"
  BY <1>1, <1>3, OnlyMain
<1>5. pc'["main"] = c /\ \A e \in Dispatchers \ {"main"} : pc'[e] = pc[e]
  BY <1>2, <1>4 DEF Lib!TypeOK
<1> QED
  BY <1>2, <1>3, <1>4, <1>5 DEF BeforeEth

(* Before it runs, only the constructor's step changes anything. *)
LEMMA NextBeforeEth ==
  ASSUME HostInv, [Next]_vars
  PROVE  BeforeEth'
<1> USE DEF BeforeEth, Lib!TypeOK
<1>1. HostStep /\ Lib!TypeOK /\ Lib!CallerOwnsJob /\ InHand /\ BeforeEth
  BY StepsOfHost DEF HostInv
<1> USE JobNames, DispatcherNames, SameSlots
<1>2. ASSUME NEW d \in Dispatchers, NEW j \in Jobs, Brings(d, j), Pool!Offer(d, j)
      PROVE  BeforeEth'
  BY <1>1, <1>2 DEF Brings, Pool!Offer
<1>3. ASSUME NEW d \in Dispatchers, Pool!ThreadAvail(d)
      PROVE  BeforeEth'
  <2>1. pc[d] # "idle" /\ UNCHANGED <<status_flags, pool, slave, home, target>>
    BY <1>3 DEF Pool!ThreadAvail
  <2>2. CASE pc' = [pc EXCEPT ![d] = "dispatch"] /\ UNCHANGED <<job, fate>>
    BY <2>1, <2>2, SearchBeforeEth
  <2>3. CASE Pool!LookFurther(d)
    <3>1. pc' = [pc EXCEPT ![d] = pc[d]] /\ pc[d] = "avail"
      BY <1>1, <1>3, <2>3 DEF Pool!ThreadAvail, Pool!LookFurther
    <3> QED
      BY <2>1, <2>3, <3>1, SearchBeforeEth DEF Pool!LookFurther
  <2>4. CASE Pool!GiveUp(d, "refused")
    BY <2>1, <2>4, SearchBeforeEth DEF Pool!GiveUp
  <2> QED
    BY <1>3, <2>2, <2>3, <2>4 DEF Pool!ThreadAvail
<1>4. ASSUME NEW d \in Dispatchers, Pool!DispatchThread(d)
      PROVE  BeforeEth'
  <2>1. CASE Pool!DispatchLook(d)
    <3>1. pc[d] # "idle" /\ UNCHANGED <<status_flags, pool, slave, home, target>>
      BY <2>1 DEF Pool!DispatchLook
    <3>2. CASE pc' = [pc EXCEPT ![d] = "claim"] /\ UNCHANGED <<at, job, fate>>
      BY <3>1, <3>2, SearchBeforeEth
    <3>3. CASE Pool!LookFurther(d)
      <4>1. pc' = [pc EXCEPT ![d] = pc[d]] /\ pc[d] = "dispatch"
        BY <1>1, <2>1, <3>3 DEF Pool!DispatchLook, Pool!LookFurther
      <4> QED
        BY <3>1, <3>3, <4>1, SearchBeforeEth DEF Pool!LookFurther
    <3>4. CASE Pool!GiveUp(d, "dropped")
      BY <3>1, <3>4, SearchBeforeEth DEF Pool!GiveUp
    <3> QED
      BY <2>1, <3>2, <3>3, <3>4 DEF Pool!DispatchLook
  <2>2. CASE Pool!Claim(d)
    BY <1>1, <2>2 DEF Pool!Claim
  <2>3. CASE Pool!CreateWorker(d)
    BY <1>1, <2>3 DEF Pool!CreateWorker, InHand
  <2>4. CASE Pool!Undo(d) \/ Pool!CreateSlave(d)
    BY <1>1, <2>4 DEF Pool!Undo, Pool!CreateSlave
  <2> QED
    BY <1>4, <2>1, <2>2, <2>3, <2>4 DEF Pool!DispatchThread
<1>5. ASSUME NEW j \in Jobs, Pool!Exit(j)
      PROVE  BeforeEth'
  BY <1>1, <1>5 DEF Pool!Exit
<1>6. ASSUME NEW j \in Jobs, Pool!Slave(j)
      PROVE  BeforeEth'
  BY <1>1, <1>6 DEF Pool!Slave, Pool!StartJoin, Pool!JoinReturns, Pool!MarkFree
<1>7. CASE UNCHANGED poolvars
  BY <1>1, <1>7 DEF poolvars
<1> QED
  BY <1>1, <1>2, <1>3, <1>4, <1>5, <1>6, <1>7 DEF HostStep

(* While it runs, its slot is left alone by every caller and every slave.  *)
LEMMA NextWhileEth ==
  ASSUME HostInv, [Next]_vars
  PROVE  WhileEth'
<1> USE DEF Lib!TypeOK
<1>1. HostStep /\ Lib!TypeOK /\ Lib!CallerOwnsJob /\ InHand /\ BeforeEth /\ WhileEth
  BY StepsOfHost DEF HostInv
<1> USE JobNames, DispatcherNames, SameSlots
<1>2. ASSUME NEW d \in Dispatchers, NEW j \in Jobs, Brings(d, j), Pool!Offer(d, j)
      PROVE  WhileEth'
  BY <1>1, <1>2 DEF Pool!Offer, WhileEth
<1>3. ASSUME NEW d \in Dispatchers, Pool!ThreadAvail(d)
      PROVE  WhileEth'
  BY <1>1, <1>3 DEF Pool!ThreadAvail, Pool!LookFurther, Pool!GiveUp, WhileEth
<1>4. ASSUME NEW d \in Dispatchers, Pool!DispatchThread(d)
      PROVE  WhileEth'
  <2>1. CASE Pool!DispatchLook(d)
    BY <1>1, <2>1 DEF Pool!DispatchLook, Pool!LookFurther, Pool!GiveUp, WhileEth
  <2>2. CASE Pool!Claim(d)
    BY <1>1, <2>2 DEF Pool!Claim, WhileEth, InHand
  <2>3. CASE Pool!CreateWorker(d)
    <3>1. CASE fate[Eth] = "running"
      BY <1>1, <2>3, <3>1 DEF Pool!CreateWorker, WhileEth, InHand
    <3>2. CASE job[d] = Eth
      <4>1. /\ pc[d] = "create" /\ at[d] \in Pool!Slots
            /\ home' = [home EXCEPT ![Eth] = at[d]]
            /\ pool' = [pool EXCEPT ![at[d]] = Eth]
            /\ pc' = [pc EXCEPT ![d] = "reap"]
            /\ UNCHANGED <<status_flags, at, job, slave, target>>
        BY <1>1, <2>3, <3>2 DEF Pool!CreateWorker
      <4>2. fate[Eth] = "offered"
        BY <1>1, <3>2, <4>1 DEF InHand
      <4>3. /\ d = "main"
            /\ \A e \in Dispatchers \ {d} : pc[e] = "idle"
            /\ ~status_flags[at[d]]
            /\ \A j \in Jobs : home[j] = 0 /\ slave[j] = "none" /\ target[j] = NoJob
            /\ \A i \in Pool!Slots : pool[i] = NoJob
        BY <1>1, <4>1, <4>2 DEF BeforeEth
      <4>4. home'[Eth] = at[d] /\ \A j \in Jobs \ {Eth} : home'[j] = 0
        BY <1>1, <4>1, <4>3
      <4>5. \A i \in Pool!Slots : pool'[i] = Eth <=> i = home'[Eth]
        BY <1>1, <4>1, <4>3, <4>4
      <4>6. 0 \notin Pool!Slots /\ NoJob # Eth
        BY DEF Pool!Slots
      <4>7. \A e \in Dispatchers : pc'[e] \in {"claim", "create", "reap"} => job'[e] = Eth
        BY <1>1, <3>2, <4>1, <4>3
      <4> QED
        BY <4>1, <4>3, <4>4, <4>5, <4>6, <4>7 DEF WhileEth
    <3>3. CASE job[d] # Eth /\ fate[Eth] # "running"
      BY <1>1, <2>3, <3>3 DEF Pool!CreateWorker, WhileEth
    <3> QED
      BY <3>1, <3>2, <3>3
  <2>4. CASE Pool!Undo(d)
    BY <1>1, <2>4 DEF Pool!Undo, InHand, WhileEth
  <2>5. CASE Pool!CreateSlave(d)
    BY <1>1, <2>5 DEF Pool!CreateSlave, WhileEth, Lib!CallerOwnsJob
  <2> QED
    BY <1>4, <2>1, <2>2, <2>3, <2>4, <2>5 DEF Pool!DispatchThread
<1>5. ASSUME NEW j \in Jobs, Pool!Exit(j)
      PROVE  WhileEth'
  BY <1>1, <1>5 DEF Pool!Exit, WhileEth
<1>6. ASSUME NEW j \in Jobs, Pool!Slave(j)
      PROVE  WhileEth'
  <2>1. CASE Pool!StartJoin(j)
    BY <1>1, <2>1 DEF Pool!StartJoin, Pool!JoinDefined, WhileEth
  <2>2. CASE Pool!JoinReturns(j)
    BY <1>1, <2>2 DEF Pool!JoinReturns, WhileEth
  <2>3. CASE Pool!MarkFree(j)
    BY <1>1, <2>3 DEF Pool!MarkFree, WhileEth
  <2> QED
    BY <1>6, <2>1, <2>2, <2>3 DEF Pool!Slave
<1>7. CASE UNCHANGED poolvars
  BY <1>1, <1>7 DEF poolvars, WhileEth
<1> QED
  BY <1>1, <1>2, <1>3, <1>4, <1>5, <1>6, <1>7 DEF HostStep

LEMMA NextHostInv == HostInv /\ [Next]_vars => HostInv'
<1> SUFFICES ASSUME HostInv, [Next]_vars
             PROVE  HostInv'
  OBVIOUS
<1>1. Lib!TypeOK' /\ Lib!CallerOwnsJob'
  BY PoolIsInstance, StepsOfPool, Lib!NextTypeOK, Lib!NextCallerOwnsJob DEF HostInv
<1> QED
  BY <1>1, NextInHand, NextBeforeEth, NextWhileEth DEF HostInv

(* The slot that eth_deliver runs in is never given to a message, however  *)
(* the callers of the pool race for slots.                                 *)
THEOREM SlotOfEthIsKept == Spec => []EthKeepsSlot
<1>1. HostInv => EthKeepsSlot
  BY DEF HostInv, WhileEth, EthKeepsSlot
<1> QED
  BY <1>1, InitHostInv, NextHostInv, PTL DEF Spec

-----------------------------------------------------------------------------
(***************************************************************************)
(* What a message is when it arrives.                                      *)
(***************************************************************************)

LEMMA InFront ==
  ASSUME NEW S, NEW e \in S, NEW s \in Seq(S)
  PROVE  /\ <<e>> \o s \in Seq(S) /\ <<e>> \o s # <<>>
         /\ Head(<<e>> \o s) = e /\ Tail(<<e>> \o s) = s
<1>1. <<e>> \o s \in Seq(S) /\ <<e>> \o s # <<>> /\ Head(<<e>> \o s) = e
  OBVIOUS
<1>2. Tail(<<e>> \o s) = s
  <2>1. Len(Tail(<<e>> \o s)) = Len(s) /\ Tail(<<e>> \o s) \in Seq(S)
    OBVIOUS
  <2>2. \A i \in 1 .. Len(s) : Tail(<<e>> \o s)[i] = s[i]
    OBVIOUS
  <2> QED
    BY <2>1, <2>2, SeqEqual
<1> QED
  BY <1>1, <1>2

(* What deliver functions make of the Message of a datagram, whichever     *)
(* application it is for.                                                  *)
LEMMA DeliveryOf ==
  ASSUME NEW a \in AllApps, NEW n
  PROVE  Delivery(StripHdr(Datagram(a, n), StrippedLen["ETH"]))
           = [at |-> a, msg |-> Fresh(a, n)]
<1> DEFINE R(h) == [app |-> a, num |-> n, hdrs |-> h, seen |-> 0]
           E(p, hlp) == [of |-> p, hlp |-> hlp]
           tp == Transport[a]
<1>1. ASSUME NEW h, NEW p, NEW hlp
      PROVE  AddHdr(R(h), p, hlp) = R(<<E(p, hlp)>> \o h)
  <2> DEFINE g == <<E(p, hlp)>> \o h
  <2>1. AddHdr(R(h), p, hlp) = [R(h) EXCEPT !.hdrs = g]
    BY DEF AddHdr
  <2> HIDE DEF g
  <2>2. [R(h) EXCEPT !.hdrs = g] = R(g)
    OBVIOUS
  <2> QED
    BY <2>1, <2>2 DEF g
<1>2. Fresh(a, n) = R(<<>>)
  BY DEF Fresh
<1> DEFINE h1 == <<E(a, a)>> \o <<>>
           h2 == <<E(tp, a)>> \o h1
           h3 == <<E("IP", tp)>> \o h2
           h4 == <<E("ETH", "IP")>> \o h3
           Hdrs == {E(a, a), E(tp, a), E("IP", tp), E("ETH", "IP")}
<1>3. <<>> \in Seq(Hdrs)
  OBVIOUS
<1>4. /\ h1 # <<>> /\ Head(h1) = E(a, a) /\ Tail(h1) = <<>>
      /\ h2 # <<>> /\ Head(h2) = E(tp, a) /\ Tail(h2) = h1
      /\ h3 # <<>> /\ Head(h3) = E("IP", tp) /\ Tail(h3) = h2
      /\ h4 # <<>> /\ Head(h4) = E("ETH", "IP") /\ Tail(h4) = h3
  <2> HIDE DEF E, tp
  <2>1. h1 \in Seq(Hdrs) /\ h1 # <<>> /\ Head(h1) = E(a, a) /\ Tail(h1) = <<>>
    BY <1>3, InFront
  <2> HIDE DEF h1
  <2>2. h2 \in Seq(Hdrs) /\ h2 # <<>> /\ Head(h2) = E(tp, a) /\ Tail(h2) = h1
    BY <2>1, InFront
  <2> HIDE DEF h2
  <2>3. h3 \in Seq(Hdrs) /\ h3 # <<>> /\ Head(h3) = E("IP", tp) /\ Tail(h3) = h2
    BY <2>2, InFront
  <2> HIDE DEF h3
  <2>4. h4 # <<>> /\ Head(h4) = E("ETH", "IP") /\ Tail(h4) = h3
    BY <2>3, InFront
  <2> QED
    BY <2>1, <2>2, <2>3, <2>4
<1>5. ASSUME NEW h, h # <<>>, NEW len, AddedLen[Head(h).of] = len
      PROVE  StripHdr(R(h), len) = R(Tail(h)) /\ FirstHdr(R(h)).hlp = Head(h).hlp
  BY <1>5 DEF StripHdr, FirstHdr
<1> HIDE DEF R
<1>6. Datagram(a, n) = R(h4)
  <2>1. AddHdr(Fresh(a, n), a, a) = R(h1)
    BY <1>1, <1>2, Zenon
  <2>2. AddHdr(R(h1), Transport[a], a) = R(h2)
    BY <1>1, Zenon
  <2>3. AddHdr(R(h2), "IP", Transport[a]) = R(h3)
    BY <1>1, Zenon
  <2>4. AddHdr(R(h3), "ETH", "IP") = R(h4)
    BY <1>1, Zenon
  <2> QED
    BY <2>1, <2>2, <2>3, <2>4, Zenon DEF Datagram
<1> HIDE DEF h1, h2, h3, h4
<1>7. /\ E(a, a).of = a /\ E(tp, a).of = tp /\ E("IP", tp).of = "IP"
      /\ E("ETH", "IP").of = "ETH" /\ E(tp, a).hlp = a /\ E("IP", tp).hlp = tp
  OBVIOUS
<1>8. \A p \in Protocols : AddedLen[p] = StrippedLen[p]
  BY DEF AddedLen, StrippedLen, Protocols, AllApps
<1>9. /\ tp \in {"TCP", "UDP"} /\ tp \in DOMAIN Above /\ a \in Above[tp]
      /\ a \notin DOMAIN Above /\ "IP" \in DOMAIN Above /\ tp \in Above["IP"]
      /\ tp # "nobody" /\ a # "nobody" /\ {a, tp, "IP", "ETH"} \subseteq Protocols
  BY DEF Transport, Above, AllApps, Protocols
<1> HIDE DEF E, tp
<1>10. StripHdr(Datagram(a, n), StrippedLen["ETH"]) = R(h3)
  BY <1>4, <1>5, <1>6, <1>7, <1>8, <1>9, Zenon
<1>11. StripHdr(R(h3), StrippedLen["IP"]) = R(h2) /\ FirstHdr(R(h3)).hlp = tp
  BY <1>4, <1>5, <1>7, <1>8, <1>9
<1>12. StripHdr(R(h2), StrippedLen[tp]) = R(h1) /\ FirstHdr(R(h2)).hlp = a
  BY <1>4, <1>5, <1>7, <1>8, <1>9
<1>13. StripHdr(R(h1), StrippedLen[a]) = R(<<>>)
  <2>1. AddedLen[Head(h1).of] = StrippedLen[a]
    BY <1>4, <1>7, <1>8, <1>9
  <2> QED
    BY <1>4, <1>5, <2>1, Zenon
<1>14. Climb([at |-> "IP", msg |-> R(h3)]) = [at |-> tp, msg |-> R(h2)]
  BY <1>9, <1>11 DEF Climb
<1>15. Climb([at |-> tp, msg |-> R(h2)]) = [at |-> a, msg |-> R(h1)]
  BY <1>9, <1>12 DEF Climb
<1>16. Climb([at |-> a, msg |-> R(h1)]) = [at |-> a, msg |-> R(<<>>)]
  BY <1>9, <1>13 DEF Climb
<1>17. Delivery(R(h3)) = [at |-> a, msg |-> R(<<>>)]
  BY <1>9, <1>14, <1>15, <1>16 DEF Delivery
<1> QED
  BY <1>2, <1>10, <1>17

(* What the threads hold is what was received; what was given is theirs.   *)
MailInv ==
  /\ \A x \in DOMAIN held : held[x] = Payload(x)
  /\ \A x \in ToReceive : fate[Up(x[1], x[2])] # "new" => x \in DOMAIN held
  /\ OwnMail

LEMMA MessageNames ==
  /\ \A x, y \in ToReceive : Up(x[1], x[2]) = Up(y[1], y[2]) => x = y
  /\ \A a, n, b, m : Down(a, n) # Up(b, m)
<1>1. \A a, n, b, m : Up(a, n) = Up(b, m) => a = b /\ n = m
  BY DEF Up
<1>2. \A x \in ToReceive : x = <<x[1], x[2]>>
  BY DEF ToReceive
<1>3. \A a, n, b, m : Down(a, n) # Up(b, m)
  BY DEF Down, Up
<1> QED
  BY <1>1, <1>2, <1>3

(* A caller's step starts no offer and ends no job. *)
LEMMA FateOfCalls ==
  ASSUME HostInv, NEW d \in Dispatchers, Pool!ThreadAvail(d) \/ Pool!DispatchThread(d),
         NEW j \in Jobs
  PROVE  (fate'[j] = "exited" <=> fate[j] = "exited") /\ (fate'[j] # "new" => fate[j] # "new")
<1>1. Lib!TypeOK /\ Lib!CallerOwnsJob /\ InHand
  BY DEF HostInv
<1>2. CASE UNCHANGED fate
  BY <1>2
<1>3. ASSUME NEW f, f # "exited", fate' = [fate EXCEPT ![job[d]] = f],
             pc[d] \in {"avail", "dispatch", "claim", "create"}
      PROVE  (fate'[j] = "exited" <=> fate[j] = "exited")
               /\ (fate'[j] # "new" => fate[j] # "new")
  BY <1>1, <1>3 DEF InHand, Lib!TypeOK
<1>4. \A f : Pool!GiveUp(d, f) => fate' = [fate EXCEPT ![job[d]] = f]
  BY DEF Pool!GiveUp
<1>5. CASE Pool!ThreadAvail(d)
  <2>1. pc[d] = "avail" /\ (UNCHANGED fate \/ Pool!GiveUp(d, "refused"))
    BY <1>5 DEF Pool!ThreadAvail, Pool!LookFurther
  <2> QED
    BY <1>2, <1>3, <1>4, <2>1
<1>6. CASE Pool!DispatchLook(d)
  <2>1. pc[d] = "dispatch" /\ (UNCHANGED fate \/ Pool!GiveUp(d, "dropped"))
    BY <1>6 DEF Pool!DispatchLook, Pool!LookFurther
  <2> QED
    BY <1>2, <1>3, <1>4, <2>1
<1>7. CASE Pool!CreateWorker(d)
  <2>1. /\ pc[d] = "create"
        /\ \/ fate' = [fate EXCEPT ![job[d]] = "running"]
           \/ fate' = [fate EXCEPT ![job[d]] = "failed"]
    BY <1>7 DEF Pool!CreateWorker
  <2> QED
    BY <1>3, <2>1
<1>8. CASE Pool!Claim(d) \/ Pool!Undo(d) \/ Pool!CreateSlave(d)
  BY <1>2, <1>8 DEF Pool!Claim, Pool!Undo, Pool!CreateSlave
<1> QED
  BY <1>5, <1>6, <1>7, <1>8 DEF Pool!DispatchThread

(* Steps that leave the mail alone, and the threads that have it. *)
LEMMA MailStays ==
  ASSUME MailInv, UNCHANGED mail,
         \A x \in ToReceive :
           LET j == Up(x[1], x[2])
           IN  /\ fate'[j] = "exited" <=> fate[j] = "exited"
               /\ fate'[j] # "new" => fate[j] # "new"
  PROVE  MailInv'
<1>1. Returned' = Returned
  BY DEF Returned
<1> QED
  BY <1>1 DEF MailInv, OwnMail, mail, Payload

LEMMA NextMailInv ==
  ASSUME HostInv, MailInv, [Next]_vars
  PROVE  MailInv'
<1>1. Lib!TypeOK /\ DOMAIN fate = Jobs
  BY DEF HostInv, Lib!TypeOK
<1>2. \A x \in ToReceive : Up(x[1], x[2]) \in Jobs /\ Up(x[1], x[2]) # Eth
  BY JobNames
<1>3. ASSUME NEW d, NEW k, Pool!Offer(d, k), UNCHANGED mail,
             \A x \in ToReceive : k # Up(x[1], x[2])
      PROVE  MailInv'
  BY <1>1, <1>2, <1>3, MailStays DEF Pool!Offer
<1>4. ASSUME NEW k, Pool!Exit(k), UNCHANGED mail,
             \A x \in ToReceive : k # Up(x[1], x[2])
      PROVE  MailInv'
  BY <1>1, <1>2, <1>4, MailStays DEF Pool!Exit
<1>5. CASE Construct
  BY <1>2, <1>3, <1>5 DEF Construct
<1>6. ASSUME NEW a \in Apps, Poll(a)
      PROVE  MailInv'
  <2>1. PICK n \in 1 .. TotSend : Pool!Offer(a, Down(a, n))
    BY <1>6 DEF Poll
  <2> QED
    BY <1>3, <1>6, <2>1, MessageNames DEF Poll
<1>7. CASE Receive
  <2>1. PICK x \in ToReceive :
          Pool!Offer("eth_deliver", Up(x[1], x[2])) /\ held' = Buffer(x)
    BY <1>7 DEF Receive
  <2>2. /\ DOMAIN held' = DOMAIN held \cup {x}
        /\ \A y \in DOMAIN held' : held'[y] = Payload(y)
    BY <2>1 DEF Buffer, Received, MailInv
  <2>3. \A y \in ToReceive : fate'[Up(y[1], y[2])] # "new" => y \in DOMAIN held'
    <3>1. \A y \in ToReceive : y # x => fate'[Up(y[1], y[2])] = fate[Up(y[1], y[2])]
      BY <1>1, <1>2, <2>1, MessageNames DEF Pool!Offer
    <3> QED
      BY <2>2, <3>1 DEF MailInv
  <2>4. \A y \in ToReceive :
          fate'[Up(y[1], y[2])] = "exited" <=> fate[Up(y[1], y[2])] = "exited"
    <3>1. fate[Up(x[1], x[2])] = "new"
      BY <2>1 DEF Pool!Offer
    <3>2. \A j \in Jobs :
            fate'[j] = IF j = Up(x[1], x[2]) THEN "offered" ELSE fate[j]
      BY <1>1, <2>1 DEF Pool!Offer
    <3> QED
      BY <1>2, <3>1, <3>2
  <2>5. Returned' = Returned /\ inbox' = inbox
    BY <1>7, <2>4 DEF Returned, Receive
  <2> QED
    BY <2>2, <2>3, <2>5 DEF MailInv, OwnMail, Payload
<1>8. CASE EthReturns
  BY <1>2, <1>4, <1>8 DEF EthReturns
<1>9. ASSUME NEW x \in ToSend, Sent(x)
      PROVE  MailInv'
  BY <1>4, <1>9, MessageNames DEF Sent
<1>10. ASSUME NEW x \in ToReceive, Delivered(x)
       PROVE  MailInv'
  <2>1. /\ fate[Up(x[1], x[2])] = "running"
        /\ \A j \in Jobs : fate'[j] = IF j = Up(x[1], x[2]) THEN "exited" ELSE fate[j]
        /\ inbox' = inbox \cup {Delivery(held[x])} /\ held' = held
    BY <1>1, <1>10 DEF Delivered, Pool!Exit
  <2>2. held[x] = Payload(x)
    BY <2>1 DEF MailInv
  <2>3. x[1] \in AllApps
    BY HostAssumption DEF ToReceive
  <2>4. Delivery(held[x]) = [at |-> x[1], msg |-> Fresh(x[1], x[2])]
    BY <2>2, <2>3, DeliveryOf DEF Payload
  <2>5. Returned' = Returned \cup {x}
    BY <1>2, <2>1, MessageNames DEF Returned
  <2>6. OwnMail'
    BY <2>1, <2>4, <2>5 DEF MailInv, OwnMail
  <2>7. \A y \in ToReceive : fate'[Up(y[1], y[2])] # "new" => y \in DOMAIN held'
    BY <1>2, <2>1 DEF MailInv
  <2> QED
    BY <2>1, <2>6, <2>7 DEF MailInv, Payload
<1>11. ASSUME NEW d \in Dispatchers, Calls(d)
       PROVE  MailInv'
  BY <1>2, <1>11, FateOfCalls, MailStays DEF Calls
<1>12. ASSUME NEW j \in Jobs, Reaps(j)
       PROVE  MailInv'
  <2>1. UNCHANGED fate
    BY <1>12 DEF Reaps, Pool!Slave, Pool!StartJoin, Pool!JoinReturns, Pool!MarkFree
  <2> QED
    BY <1>12, <2>1, MailStays DEF Reaps
<1>13. CASE Lose \/ Finished \/ UNCHANGED vars
  BY <1>13, MailStays DEF Lose, Finished, vars, poolvars
<1> QED
  BY <1>5, <1>6, <1>7, <1>8, <1>9, <1>10, <1>11, <1>12, <1>13 DEF Next

(* An application is given what its peer made, whichever application it is *)
(* and whichever message, in whatever order datagrams arrive and however   *)
(* the threads that deliver them overlap with further arrivals.            *)
THEOREM MailIsOwn == Spec => []OwnMail
<1>1. Init => MailInv
  <2> SUFFICES ASSUME Init
               PROVE  MailInv
    OBVIOUS
  <2>1. DOMAIN held = {} /\ inbox = {}
    BY DEF Init
  <2>2. \A x \in ToReceive : fate[Up(x[1], x[2])] = "new"
    BY JobNames DEF Init, Pool!Init
  <2>3. Returned = {}
    BY <2>2 DEF Returned
  <2> QED
    BY <2>1, <2>2, <2>3 DEF MailInv, OwnMail
<1>2. MailInv => OwnMail
  BY DEF MailInv
<1> QED
  BY <1>1, <1>2, InitHostInv, NextHostInv, NextMailInv, PTL DEF Spec
=============================================================================
