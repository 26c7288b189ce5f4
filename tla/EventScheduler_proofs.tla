------------------------ MODULE EventScheduler_proofs ------------------------
(***************************************************************************)
(* Proofs about EventScheduler, for every number of events and threads.    *)
(*   - TypeCorrect, OnlyCancelledSkip: any number of callers, and any      *)
(*     number of cancels racing with the events' threads on the vector.    *)
(*   - DistinctIds: any number of callers whose calls of eventSchedule do  *)
(*     not overlap.                                                        *)
(*   - OneCallerCancels: one caller, as in driver2.cc, and one event       *)
(*     cancelled so far.                                                   *)
(***************************************************************************)
EXTENDS EventScheduler, SequenceTheorems, FiniteSetTheorems, TLAPS

-----------------------------------------------------------------------------
(***************************************************************************)
(* Erasing from the vector.                                                *)
(***************************************************************************)

(* Erasing at any position leaves ids that were there. *)
LEMMA WithoutKeeps ==
  ASSUME NEW s \in Seq(Nat), NEW i \in Nat
  PROVE  /\ Without(s, i) \in Seq(Nat)
         /\ \A k \in DOMAIN Without(s, i) : \E j \in DOMAIN s : Without(s, i)[k] = s[j]
<1>1. CASE i <= Len(s)
  <2> DEFINE a == SubSeq(s, 1, i - 1)
             b == SubSeq(s, i + 1, Len(s))
  <2>1. /\ a \in Seq(Nat) /\ b \in Seq(Nat)
        /\ \A k \in 1 .. Len(a) : k \in 1 .. Len(s) /\ a[k] = s[k]
        /\ \A k \in 1 .. Len(b) : i + k \in 1 .. Len(s) /\ b[k] = s[i + k]
    BY <1>1
  <2>2. Without(s, i) = a \o b
    BY <1>1 DEF Without, RemoveAt
  <2> HIDE DEF a, b
  <2>3. /\ a \o b \in Seq(Nat)
        /\ DOMAIN (a \o b) = 1 .. Len(a) + Len(b)
        /\ \A k \in 1 .. Len(a) + Len(b) :
             (a \o b)[k] = IF k <= Len(a) THEN a[k] ELSE b[k - Len(a)]
    BY <2>1
  <2>4. ASSUME NEW k \in 1 .. Len(a) + Len(b)
        PROVE  \E j \in DOMAIN s : (a \o b)[k] = s[j]
    <3>1. CASE k <= Len(a)
      <4>1. k \in 1 .. Len(a)
        BY <2>1, <3>1
      <4>2. k \in 1 .. Len(s) /\ (a \o b)[k] = s[k]
        BY <2>1, <2>3, <4>1, <3>1
      <4> QED
        BY <4>2
    <3>2. CASE ~(k <= Len(a))
      <4>1. k - Len(a) \in 1 .. Len(b)
        BY <2>1, <3>2
      <4>2. /\ i + (k - Len(a)) \in 1 .. Len(s)
            /\ (a \o b)[k] = s[i + (k - Len(a))]
        BY <2>1, <2>3, <3>2, <4>1
      <4> QED
        BY <4>2
    <3> QED
      BY <3>1, <3>2
  <2> QED
    BY <2>2, <2>3, <2>4
<1>2. CASE ~(i <= Len(s))
  BY <1>2 DEF Without, Front
<1> QED
  BY <1>1, <1>2

-----------------------------------------------------------------------------
(***************************************************************************)
(* Types.                                                                  *)
(***************************************************************************)

LEMMA InitTypeOK == Init => TypeOK
<1> SUFFICES ASSUME Init PROVE TypeOK
  OBVIOUS
<1> USE SchedulerAssumption DEF Init, NoEvent
<1>1. phase \in [Events -> {"waiting", "refused", "running", "lingering", "gone"}]
  BY DEF Pool!Init
<1>2. queue \in Seq(Nat) /\ snap \in [Callers \cup Events -> Seq(Nat)]
  OBVIOUS
<1>3. /\ DOMAIN pc = Callers \cup Events
      /\ \A c \in Callers : pc[c] = "idle" /\ mine[c] = NoEvent
      /\ \A e \in Events : pc[e] = "new"
  OBVIOUS
<1> QED
  BY <1>1, <1>2, <1>3 DEF TypeOK

(* The pool's part of the state keeps its type. *)
LEMMA PoolTypes ==
  ASSUME phase \in [Events -> {"waiting", "refused", "running", "lingering", "gone"}],
         NEW e \in Events,
         Pool!Start(e) \/ Pool!Refuse(e) \/ Pool!Return(e) \/ Pool!Release(e)
  PROVE  phase' \in [Events -> {"waiting", "refused", "running", "lingering", "gone"}]
BY DEF Pool!Start, Pool!Refuse, Pool!Return, Pool!Release, Pool!Move

(* No event goes back to waiting, and only the one the pool starts leaves. *)
LEMMA PoolMoves ==
  ASSUME phase \in [Events -> {"waiting", "refused", "running", "lingering", "gone"}],
         NEW e \in Events,
         Pool!Start(e) \/ Pool!Refuse(e) \/ Pool!Return(e) \/ Pool!Release(e)
  PROVE  /\ \A f \in Events : phase'[f] = "waiting" => phase[f] = "waiting"
         /\ phase'[e] # "waiting"
BY DEF Pool!Start, Pool!Refuse, Pool!Return, Pool!Release, Pool!Move

LEMMA NextTypeOK == TypeOK /\ [Next]_vars => TypeOK'
<1> SUFFICES ASSUME TypeOK, [Next]_vars PROVE TypeOK'
  OBVIOUS
<1> USE SchedulerAssumption
    DEF TypeOK, counting, cancelling, searching, loaded, At, NoEvent, Load, Done, Moved
<1>1. ASSUME NEW c \in Callers, NEW e \in Events, Avail(c, e) PROVE TypeOK'
  BY <1>1 DEF Avail
<1>2. ASSUME NEW c \in Callers, NEW e \in Events, Unavail(c, e) PROVE TypeOK'
  BY <1>2, PoolTypes DEF Unavail
<1>3. ASSUME NEW c \in Callers, LoadCounter(c) PROVE TypeOK'
  BY <1>3 DEF LoadCounter
<1>4. ASSUME NEW c \in Callers, StoreCounter(c) PROVE TypeOK'
  BY <1>4 DEF StoreCounter
<1>5. ASSUME NEW c \in Callers, Dispatch(c), mine[c] \in Events PROVE TypeOK'
  BY <1>5, PoolTypes DEF Dispatch
<1>6. ASSUME NEW c \in Callers, Return(c) PROVE TypeOK'
  BY <1>6 DEF Return
<1>7. ASSUME NEW c \in Callers, NEW e \in Events, LoadQueue(c, e) PROVE TypeOK'
  BY <1>7 DEF LoadQueue, Growing
<1>8. ASSUME NEW c \in Callers, Push(c), mine[c] \in Events PROVE TypeOK'
  <2>1. cap' \in Nat /\ queue' \in Seq(Nat)
    BY <1>8 DEF Push
  <2>2. snap' \in [Callers \cup Events -> Seq(Nat)] /\ base' \in [Callers \cup Events -> Nat]
    BY <1>8 DEF Push
  <2>3. pc' = [pc EXCEPT ![c] = "idle"] /\ mine' = [mine EXCEPT ![c] = NoEvent]
    BY <1>8 DEF Push
  <2>4. /\ mine' \in [Callers -> Events \cup {NoEvent}]
        /\ DOMAIN pc' = Callers \cup Events
        /\ \A d \in Callers : pc'[d] \in {"idle", "load", "store", "dispatch", "return", "push"}
        /\ \A d \in Callers : pc'[d] # "idle" <=> mine'[d] # NoEvent
        /\ \A e \in Events : pc'[e] = pc[e]
    BY <2>3
  <2>5. intime' \subseteq Events
    BY <1>8 DEF Push
  <2>6. UNCHANGED <<phase, asked, counting, searching>> /\ crashed' \in BOOLEAN
    BY <1>8 DEF Push
  <2> QED
    BY <2>1, <2>2, <2>4, <2>5, <2>6
<1>9. ASSUME NEW e \in Events, Wake(e) PROVE TypeOK'
  <2>1. crashed' \in BOOLEAN
    BY <1>9 DEF Wake, Growing
  <2> QED
    BY <1>9, <2>1 DEF Wake
<1>10. ASSUME NEW e \in Events, Search(e) PROVE TypeOK'
  <2>1. crashed' \in BOOLEAN
    BY <1>10 DEF Search, Growing
  <2>2. /\ pc' \in {pc, [pc EXCEPT ![e] = "fired"], [pc EXCEPT ![e] = "erase"]}
        /\ idx' \in {idx, [idx EXCEPT ![e] = @ + 1]}
    BY <1>10 DEF Search
  <2>3. /\ DOMAIN pc' = Callers \cup Events
        /\ \A c \in Callers : pc'[c] = pc[c]
        /\ \A f \in Events :
             pc'[f] \in {"new", "asleep", "search", "erase", "shrink", "fired", "skipped"}
    BY <2>2
  <2>4. idx' \in [Events -> Nat] /\ \A f \in Events : idx[f] # 0 => idx'[f] # 0
    <3>1. CASE idx' = idx
      BY <3>1
    <3>2. CASE idx' = [idx EXCEPT ![e] = @ + 1]
      BY <3>2
    <3> QED
      BY <2>2, <3>1, <3>2
  <2>6. \A f \in Events : pc'[f] = "search" => pc[f] = "search"
    BY <2>2
  <2>5. /\ UNCHANGED <<phase, mine, loaded, queue, cap, asked, intime, lim>>
        /\ UNCHANGED <<eventcounter, id, returned, seen>>
    BY <1>10 DEF Search
  <2>7. \A f \in Events : pc'[f] = "search" => idx'[f] # 0
    BY <2>4, <2>6
  <2> QED
    BY <2>1, <2>3, <2>4, <2>5, <2>7
<1>11. ASSUME NEW e \in Events, LoadForErase(e) PROVE TypeOK'
  <2>1. crashed' \in BOOLEAN
    BY <1>11 DEF LoadForErase, Growing
  <2> QED
    BY <1>11, <2>1 DEF LoadForErase
<1>12. ASSUME NEW e \in Events, Erase(e) PROVE TypeOK'
  <2>1. queue' \in Seq(Nat)
    BY <1>12, WithoutKeeps DEF Erase
  <2>2. crashed' \in BOOLEAN
    BY <1>12 DEF Erase, Growing
  <2>3. /\ snap' = [snap EXCEPT ![e] = <<>>] /\ base' = [base EXCEPT ![e] = 0]
        /\ pc' = [pc EXCEPT ![e] = "skipped"]
        /\ UNCHANGED <<phase, mine, cap, asked, intime, counting, searching>>
    BY <1>12 DEF Erase
  <2> QED
    BY <2>1, <2>2, <2>3
<1>13. ASSUME NEW e \in Events, GoBack(e) PROVE TypeOK'
  BY <1>13, PoolTypes DEF GoBack
<1>14. CASE UNCHANGED vars
  BY <1>14 DEF vars
<1>15. \A c \in Callers : Dispatch(c) \/ Push(c) => mine[c] \in Events
  BY DEF Dispatch, Push
<1> QED
  BY <1>1, <1>2, <1>3, <1>4, <1>5, <1>6, <1>7, <1>8, <1>9, <1>10, <1>11, <1>12,
     <1>13, <1>14, <1>15
     DEF Next, EventSchedule, EventCancel, EventWrapper, Finished

(* Type correctness of the scheduler, for any number of callers. *)
THEOREM TypeCorrect == Spec => []TypeOK
BY InitTypeOK, NextTypeOK, PTL DEF Spec

-----------------------------------------------------------------------------
(***************************************************************************)
(* Ids.                                                                    *)
(***************************************************************************)

(* While calls do not overlap the counter only grows between two events,   *)
(* so that every step leaves the ids distinct.                             *)
LEMMA NextIdsInv ==
  TypeOK /\ IdsInv /\ Apart /\ [Next]_vars => IdsInv'
<1> SUFFICES ASSUME TypeOK, IdsInv, Apart, [Next]_vars PROVE IdsInv'
  OBVIOUS
<1> USE SchedulerAssumption
    DEF Apart, Scheduling, TypeOK, IdsInv, IdNamesOneEvent, counting, At
<1>1. ASSUME NEW c \in Callers, NEW e \in Events, Avail(c, e) PROVE IdsInv'
  BY <1>1 DEF Avail
<1>2. ASSUME NEW c \in Callers, NEW e \in Events, Unavail(c, e) PROVE IdsInv'
  BY <1>2, PoolMoves DEF Unavail
<1>3. ASSUME NEW c \in Callers, LoadCounter(c) PROVE IdsInv'
  BY <1>3 DEF LoadCounter
<1>4. ASSUME NEW c \in Callers, StoreCounter(c) PROVE IdsInv'
  <2>1. /\ pc[c] = "store" /\ pc' = [pc EXCEPT ![c] = "dispatch"]
        /\ eventcounter' = eventcounter + 1
        /\ UNCHANGED <<phase, mine, seen, id, returned>>
    BY <1>4 DEF StoreCounter
  <2>2. \A d \in Callers : pc'[d] \in {"store", "dispatch", "return"} => pc'[d] = "dispatch"
    BY <2>1
  <2>3. \A e \in Events : pc'[e] = pc[e] /\ id[e] < eventcounter'
    BY <2>1
  <2> QED
    BY <2>1, <2>2, <2>3
<1>5. ASSUME NEW c \in Callers, Dispatch(c) PROVE IdsInv'
  <2>1. mine[c] \in Events
    BY <1>5 DEF Dispatch, NoEvent
  <2>2. \A d \in Callers : pc'[d] \in {"store", "dispatch", "return"} => d = c /\ pc'[d] = "return"
    BY <1>5, <2>1 DEF Dispatch
  <2>3. /\ eventcounter' = eventcounter /\ returned' = returned /\ mine' = mine
        /\ eventcounter # 0 /\ \A e \in Events : id[e] < eventcounter
        /\ id' = [id EXCEPT ![mine[c]] = eventcounter]
        /\ \A e \in Events : e # mine[c] => pc'[e] = pc[e]
        /\ pc'[mine[c]] = "asleep"
    BY <1>5, <2>1 DEF Dispatch
  <2>4. \A e \in Events : id'[e] = IF e = mine[c] THEN eventcounter ELSE id[e]
    BY <2>1, <2>3
  <2>5. id[mine[c]] = 0 /\ returned[mine[c]] = 0
    BY <1>5, <2>1 DEF Dispatch, Pool!Start, Pool!Move
  <2>6. IdNamesOneEvent'
    <3>1. ASSUME NEW e \in Events, returned'[e] # 0 PROVE returned'[e] = id'[e]
      BY <2>3, <2>4, <2>5, <3>1
    <3>2. ASSUME NEW e \in Events, NEW f \in Events, id'[e] = id'[f],
                 pc'[e] # "new", pc'[f] # "new"
          PROVE  e = f
      <4>1. id[e] \in Nat /\ id[f] \in Nat /\ eventcounter \in Nat
        OBVIOUS
      <4>2. id[e] # eventcounter /\ id[f] # eventcounter
        BY <2>3, <4>1
      <4>3. CASE e # mine[c] /\ f # mine[c]
        <5>1. id[e] = id[f] /\ pc[e] # "new" /\ pc[f] # "new"
          BY <2>3, <2>4, <3>2, <4>3
        <5> QED
          BY <5>1
      <4>4. CASE e = mine[c] \/ f = mine[c]
        BY <2>4, <3>2, <4>2, <4>4
      <4> QED
        BY <4>3, <4>4
    <3> QED
      BY <3>1, <3>2
  <2>7. \A e \in Events : id'[e] <= eventcounter' /\ (pc'[e] = "new" <=> id'[e] = 0)
    BY <2>1, <2>3, <2>4
  <2>8. \A e \in Events : phase'[e] = "waiting" => id'[e] = 0
    BY <1>5, <2>1, <2>4, PoolMoves DEF Dispatch
  <2>9. \A d \in Callers : /\ pc'[d] # "store" /\ pc'[d] # "dispatch"
                            /\ pc'[d] = "return" => id'[mine'[d]] = eventcounter'
    BY <2>1, <2>2, <2>3, <2>4
  <2> HIDE DEF IdNamesOneEvent
  <2> QED
    BY <2>2, <2>6, <2>7, <2>8, <2>9
<1>6. ASSUME NEW c \in Callers, Return(c) PROVE IdsInv'
  <2>1. mine[c] \in Events
    BY <1>6 DEF Return, NoEvent
  <2>2. /\ pc[c] = "return" /\ pc' = [pc EXCEPT ![c] = "idle"]
        /\ returned' = [returned EXCEPT ![mine[c]] = id[mine[c]]]
        /\ UNCHANGED <<phase, eventcounter, seen, id>>
    BY <1>6, <2>1 DEF Return
  <2>3. \A d \in Callers : pc'[d] \notin {"store", "dispatch", "return"}
    BY <2>2
  <2>4. \A e \in Events : pc'[e] = pc[e]
    BY <2>2
  <2>5. \A e \in Events : returned'[e] # 0 => returned'[e] = id[e]
    BY <2>1, <2>2
  <2>6. IdNamesOneEvent'
    BY <2>2, <2>4, <2>5
  <2> HIDE DEF IdNamesOneEvent, Apart
  <2> QED
    BY <2>2, <2>3, <2>4, <2>6
<1>7. ASSUME NEW c \in Callers, NEW e \in Events, LoadQueue(c, e) PROVE IdsInv'
  BY <1>7 DEF LoadQueue
<1>8. ASSUME NEW c \in Callers, Push(c) PROVE IdsInv'
  BY <1>8 DEF Push
<1>9. ASSUME NEW e \in Events, Wake(e) PROVE IdsInv'
  BY <1>9 DEF Wake
<1>10. ASSUME NEW e \in Events, Search(e) PROVE IdsInv'
  <2>1. /\ pc' \in {pc, [pc EXCEPT ![e] = "fired"], [pc EXCEPT ![e] = "erase"]}
        /\ pc[e] = "search"
        /\ UNCHANGED <<eventcounter, id, returned, seen, mine, phase>>
    BY <1>10 DEF Search
  <2>2. /\ \A c \in Callers : pc'[c] = pc[c]
        /\ \A f \in Events : pc'[f] # "new" <=> pc[f] # "new"
    BY <2>1
  <2> QED
    BY <2>1, <2>2
<1>11. ASSUME NEW e \in Events, LoadForErase(e) PROVE IdsInv'
  BY <1>11 DEF LoadForErase
<1>12. ASSUME NEW e \in Events, Erase(e) PROVE IdsInv'
  BY <1>12 DEF Erase
<1>13. ASSUME NEW e \in Events, GoBack(e) PROVE IdsInv'
  BY <1>13, PoolMoves DEF GoBack
<1>14. CASE UNCHANGED vars
  BY <1>14 DEF vars
<1> QED
  BY <1>1, <1>2, <1>3, <1>4, <1>5, <1>6, <1>7, <1>8, <1>9, <1>10, <1>11, <1>12,
     <1>13, <1>14
     DEF Next, EventSchedule, EventCancel, EventWrapper, Finished

LEMMA InitIdsInv == Init => IdsInv
BY SchedulerAssumption DEF Init, IdsInv, IdNamesOneEvent

(* While no two calls of eventSchedule overlap, it returns the id of the   *)
(* event it scheduled, and no two events have the same.                    *)
THEOREM DistinctIds == Spec => IdsDistinctIfApart
<1>1. IdsInv => IdNamesOneEvent
  BY DEF IdsInv
<1> QED
  BY <1>1, InitIdsInv, NextIdsInv, TypeCorrect, PTL DEF Spec, IdsDistinctIfApart

(* No two callers schedule the same event, and none an old one.            *)
LEMMA NextOwnEvent == TypeOK /\ OwnEvent /\ [Next]_vars => OwnEvent'
<1> SUFFICES ASSUME TypeOK, OwnEvent, [Next]_vars PROVE OwnEvent'
  OBVIOUS
<1> USE SchedulerAssumption DEF TypeOK, OwnEvent, Scheduling, counting, At
(* The steps that touch none of it. *)
<1>1. ASSUME UNCHANGED <<mine, returned>>,
             \A e \in Events : phase'[e] = "waiting" => phase[e] = "waiting" /\ pc'[e] = pc[e],
             \A c \in Callers : /\ Scheduling(c)' => Scheduling(c)
                                /\ pc'[c] = "return" => pc[c] = "return" \/ phase'[mine[c]] # "waiting",
             \A c \in Callers : mine[c] \in Events => (phase'[mine[c]] = "waiting" => phase[mine[c]] = "waiting")
      PROVE  OwnEvent'
  <2>1. \A c \in Callers : Scheduling(c) => mine[c] \in Events
    BY DEF NoEvent
  <2> QED
    BY <1>1, <2>1
<1>2. ASSUME NEW c \in Callers, NEW e \in Events, Avail(c, e) PROVE OwnEvent'
  BY <1>2 DEF Avail
<1>3. ASSUME NEW c \in Callers, NEW e \in Events, Unavail(c, e) PROVE OwnEvent'
  BY <1>1, <1>3, PoolMoves DEF Unavail
<1>4. ASSUME NEW c \in Callers, LoadCounter(c) \/ StoreCounter(c) PROVE OwnEvent'
  BY <1>1, <1>4 DEF LoadCounter, StoreCounter
<1>5. ASSUME NEW c \in Callers, Dispatch(c) PROVE OwnEvent'
  <2>1. mine[c] \in Events
    BY <1>5 DEF Dispatch, NoEvent
  <2>2. /\ pc' = [pc EXCEPT ![c] = "return", ![mine[c]] = "asleep"]
        /\ pc[c] = "dispatch" /\ UNCHANGED <<mine, returned>>
        /\ \A f \in Events : phase'[f] = "waiting" => phase[f] = "waiting"
        /\ phase'[mine[c]] # "waiting"
    BY <1>5, <2>1, PoolMoves DEF Dispatch
  <2> QED
    BY <1>1, <2>1, <2>2
<1>6. ASSUME NEW c \in Callers, Return(c) PROVE OwnEvent'
  <2>1. mine[c] \in Events
    BY <1>6 DEF Return, NoEvent
  <2> QED
    BY <1>6, <2>1 DEF Return, NoEvent
<1>7. ASSUME NEW c \in Callers, NEW e \in Events, LoadQueue(c, e) PROVE OwnEvent'
  BY <1>7 DEF LoadQueue
<1>8. ASSUME NEW c \in Callers, Push(c) PROVE OwnEvent'
  BY <1>8 DEF Push
<1>9. ASSUME NEW e \in Events, Wake(e) \/ LoadForErase(e) \/ Erase(e) PROVE OwnEvent'
  <2>1. /\ \E x \in {"search", "shrink", "skipped"} : pc' = [pc EXCEPT ![e] = x]
        /\ pc[e] # "new" /\ UNCHANGED <<mine, returned, phase>>
    BY <1>9 DEF Wake, LoadForErase, Erase
  <2>2. /\ \A c \in Callers : pc'[c] = pc[c]
        /\ \A f \in Events : f # e => pc'[f] = pc[f]
    BY <2>1
  <2> QED
    BY <2>1, <2>2
<1>10. ASSUME NEW e \in Events, Search(e) PROVE OwnEvent'
  <2>1. /\ pc' \in {pc, [pc EXCEPT ![e] = "fired"], [pc EXCEPT ![e] = "erase"]}
        /\ pc[e] = "search" /\ UNCHANGED <<mine, returned, phase>>
    BY <1>10 DEF Search
  <2>2. /\ \A c \in Callers : pc'[c] = pc[c]
        /\ \A f \in Events : f # e => pc'[f] = pc[f]
    BY <2>1
  <2> QED
    BY <2>1, <2>2
<1>11. ASSUME NEW e \in Events, GoBack(e) PROVE OwnEvent'
  BY <1>1, <1>11, PoolMoves DEF GoBack
<1>12. CASE UNCHANGED vars
  BY <1>1, <1>12 DEF vars
<1> QED
  BY <1>2, <1>3, <1>4, <1>5, <1>6, <1>7, <1>8, <1>9, <1>10, <1>11, <1>12
     DEF Next, EventSchedule, EventCancel, EventWrapper, Finished

(* Every id in the vector, and in the copies on their way back to it, was  *)
(* cancelled, however pushes and erases are interleaved.                   *)
LEMMA NextCancelledInv ==
  TypeOK /\ OwnEvent /\ CancelledInv /\ [Next]_vars => CancelledInv'
<1> SUFFICES ASSUME TypeOK, OwnEvent, CancelledInv, [Next]_vars PROVE CancelledInv'
  OBVIOUS
<1> USE SchedulerAssumption
    DEF TypeOK, CancelledInv, OfCancelled, OnlyCancelledSkipped, counting, cancelling, loaded,
        At, Load, Done
(* The steps that touch none of it. *)
<1>1. ASSUME UNCHANGED <<queue, snap, asked, returned>>,
             \A c \in Callers : pc'[c] = "push" => pc[c] = "push" /\ mine'[c] = mine[c],
             \A e \in Events : pc'[e] \in {"erase", "shrink", "skipped"}
                              => pc[e] \in {"erase", "shrink", "skipped"} /\ id'[e] = id[e]
      PROVE  CancelledInv'
  <2>1. CancelledIds' = CancelledIds
    BY <1>1 DEF CancelledIds
  <2> QED
    BY <1>1, <2>1
<1>2. ASSUME NEW c \in Callers, NEW e \in Events, Avail(c, e) \/ Unavail(c, e)
      PROVE  CancelledInv'
  <2>1. /\ UNCHANGED <<queue, snap, asked, returned, id>>
        /\ \/ pc' = [pc EXCEPT ![c] = "load"] /\ mine' = [mine EXCEPT ![c] = e]
           \/ pc' = pc /\ mine' = mine
    BY <1>2 DEF Avail, Unavail
  <2> QED
    BY <1>1, <2>1
<1>3. ASSUME NEW c \in Callers, LoadCounter(c) \/ StoreCounter(c) PROVE CancelledInv'
  BY <1>1, <1>3 DEF LoadCounter, StoreCounter
<1>4. ASSUME NEW c \in Callers, Dispatch(c) PROVE CancelledInv'
  <2>1. mine[c] \in Events
    BY <1>4 DEF Dispatch, NoEvent
  <2>2. pc[mine[c]] = "new"
    BY <1>4, <2>1 DEF Dispatch, Pool!Start, Pool!Move, OwnEvent
  <2> QED
    BY <1>1, <1>4, <2>1, <2>2 DEF Dispatch
<1>5. ASSUME NEW c \in Callers, Return(c) PROVE CancelledInv'
  <2>1. \A e \in Events : returned[e] # 0 => returned'[e] = returned[e]
    BY <1>5 DEF Return, OwnEvent, Scheduling
  <2>2. /\ UNCHANGED <<queue, snap, asked>>
        /\ \A d \in Callers : pc'[d] = "push" => pc[d] = "push" /\ mine'[d] = mine[d]
        /\ \A e \in Events : pc'[e] = pc[e] /\ id' = id
    BY <1>5 DEF Return
  <2>3. ASSUME NEW n \in CancelledIds PROVE n \in CancelledIds'
    <3>1. PICK f \in asked : n = returned[f] /\ n # 0
      BY DEF CancelledIds
    <3>2. f \in asked' /\ returned'[f] = n
      BY <2>1, <2>2, <3>1
    <3> QED
      BY <3>1, <3>2 DEF CancelledIds
  <2>4. \A d \in Callers : pc[d] = "push" => returned'[mine[d]] \in CancelledIds'
    <3>1. \A d \in Callers : pc[d] = "push" => mine[d] \in Events /\ returned[mine[d]] # 0
      BY DEF CancelledIds, NoEvent
    <3> QED
      BY <2>1, <2>3, <3>1
  <2>5. OnlyCancelledSkipped'
    <3>1. ASSUME NEW e \in Events, pc'[e] \in {"erase", "shrink", "skipped"}
          PROVE  id'[e] \in CancelledIds'
      <4>1. id[e] \in CancelledIds /\ id'[e] = id[e]
        BY <2>2, <3>1
      <4> QED
        BY <2>3, <4>1
    <3> QED
      BY <3>1
  <2> QED
    BY <2>2, <2>3, <2>4, <2>5
<1>6. ASSUME NEW c \in Callers, NEW e \in Events, LoadQueue(c, e) PROVE CancelledInv'
  <2>1. CancelledIds \subseteq CancelledIds' /\ returned'[e] \in CancelledIds'
    BY <1>6 DEF LoadQueue, CancelledIds
  <2> QED
    BY <1>6, <2>1 DEF LoadQueue
<1>7. ASSUME NEW c \in Callers, Push(c) PROVE CancelledInv'
  <2>1. /\ queue' = Append(snap[c], returned[mine[c]])
        /\ returned[mine[c]] \in CancelledIds
        /\ CancelledIds' = CancelledIds
    BY <1>7 DEF Push, CancelledIds
  <2>2. \A i \in DOMAIN queue' :
           \/ i \in DOMAIN snap[c] /\ queue'[i] = snap[c][i]
           \/ queue'[i] = returned[mine[c]]
    BY <2>1
  <2>3. OfCancelled(queue)'
    BY <2>1, <2>2
  <2>4. /\ snap' = [snap EXCEPT ![c] = <<>>] /\ returned' = returned
        /\ \A d \in Callers : pc'[d] = "push" => pc[d] = "push" /\ mine'[d] = mine[d]
        /\ \A e \in Events : pc'[e] = pc[e]
        /\ asked' = asked /\ id' = id
    BY <1>7 DEF Push
  <2>5. \A t \in Callers \cup Events : snap'[t] = snap[t] \/ snap'[t] = <<>>
    BY <2>4
  <2>6. \A t \in Callers \cup Events : OfCancelled(snap[t])'
    <3>1. ASSUME NEW t \in Callers \cup Events, NEW i \in DOMAIN snap'[t]
          PROVE  snap'[t][i] \in CancelledIds
      <4>1. CASE snap'[t] = snap[t]
        BY <3>1, <4>1
      <4>2. CASE snap'[t] = <<>>
        BY <3>1, <4>2
      <4> QED
        BY <2>5, <4>1, <4>2
    <3> QED
      BY <2>1, <3>1
  <2>7. \A d \in Callers : pc'[d] = "push" => returned'[mine'[d]] \in CancelledIds'
    BY <2>1, <2>4
  <2>8. OnlyCancelledSkipped'
    BY <2>1, <2>4
  <2> QED
    BY <2>3, <2>6, <2>7, <2>8
<1>8. ASSUME NEW e \in Events, Wake(e) \/ GoBack(e) PROVE CancelledInv'
  BY <1>1, <1>8 DEF Wake, GoBack
<1>9. ASSUME NEW e \in Events, Search(e) PROVE CancelledInv'
  <2>1. /\ \/ pc' \in {pc, [pc EXCEPT ![e] = "fired"]}
           \/ /\ pc' = [pc EXCEPT ![e] = "erase"]
              /\ idx[e] <= Len(queue) /\ queue[idx[e]] = id[e]
        /\ pc[e] = "search"
        /\ UNCHANGED <<returned, mine, snap, queue, asked, id>>
    BY <1>9 DEF Search
  <2>2. CASE pc' \in {pc, [pc EXCEPT ![e] = "fired"]}
    BY <1>1, <2>1, <2>2
  <2>3. CASE /\ pc' = [pc EXCEPT ![e] = "erase"]
             /\ idx[e] <= Len(queue) /\ queue[idx[e]] = id[e]
    <3>1. idx[e] \in DOMAIN queue
      BY <2>1, <2>3
    <3>2. id[e] \in CancelledIds
      BY <2>3, <3>1
    <3>5. CancelledIds' = CancelledIds
      BY <2>1 DEF CancelledIds
    <3> QED
      BY <2>1, <2>3, <3>2, <3>5
  <2> QED
    BY <2>1, <2>2, <2>3
<1>10. ASSUME NEW e \in Events, LoadForErase(e) PROVE CancelledInv'
  <2>1. CancelledIds' = CancelledIds
    BY <1>10 DEF LoadForErase, CancelledIds
  <2> QED
    BY <1>10, <2>1 DEF LoadForErase
<1>11. ASSUME NEW e \in Events, Erase(e) PROVE CancelledInv'
  <2>1. snap[e] \in Seq(Nat) /\ idx[e] \in Nat
    OBVIOUS
  <2>2. \A k \in DOMAIN Without(snap[e], idx[e]) :
           \E j \in DOMAIN snap[e] : Without(snap[e], idx[e])[k] = snap[e][j]
    <3> HIDE DEF TypeOK, CancelledInv, OfCancelled
    <3>1. /\ Without(snap[e], idx[e]) \in Seq(Nat)
          /\ \A k \in DOMAIN Without(snap[e], idx[e]) :
               \E j \in DOMAIN snap[e] : Without(snap[e], idx[e])[k] = snap[e][j]
      BY ONLY <2>1, WithoutKeeps
    <3> QED
      BY <3>1
  <2>3. /\ queue' = Without(snap[e], idx[e])
        /\ CancelledIds' = CancelledIds
    BY <1>11 DEF Erase, CancelledIds
  <2>4. OfCancelled(queue)'
    BY <2>2, <2>3
  <2>5. /\ snap' = [snap EXCEPT ![e] = <<>>]
        /\ \A d \in Callers : pc'[d] = pc[d]
        /\ \A f \in Events : pc'[f] = pc[f] \/ (f = e /\ pc[f] = "shrink")
        /\ UNCHANGED <<returned, asked, mine, id>>
    BY <1>11 DEF Erase
  <2>6. \A t \in Callers \cup Events : snap'[t] = snap[t] \/ snap'[t] = <<>>
    BY <2>5
  <2> QED
    BY <2>3, <2>4, <2>5, <2>6
<1>12. CASE UNCHANGED vars
  BY <1>1, <1>12 DEF vars
<1> QED
  BY <1>2, <1>3, <1>4, <1>5, <1>6, <1>7, <1>8, <1>9, <1>10, <1>11, <1>12
     DEF Next, EventSchedule, EventCancel, EventWrapper, Finished

LEMMA InitCancelledInv == Init => OwnEvent /\ CancelledInv
BY SchedulerAssumption
   DEF Init, Pool!Init, OwnEvent, Scheduling, CancelledInv, OfCancelled, OnlyCancelledSkipped

(* Only events whose id was cancelled are skipped, whatever the races on   *)
(* the vector do to the ids in it, for any number of callers.              *)
THEOREM OnlyCancelledSkip == Spec => []OnlyCancelledSkipped
<1>1. CancelledInv => OnlyCancelledSkipped
  BY DEF CancelledInv
<1> QED
  BY <1>1, InitCancelledInv, NextOwnEvent, NextCancelledInv, TypeCorrect, PTL DEF Spec

-----------------------------------------------------------------------------
(***************************************************************************)
(* One caller, and one event cancelled.                                    *)
(***************************************************************************)

OneCaller == \A c, d \in Callers : c = d

OneAsked == \A e, f \in asked : e = f

(* Until its id is pushed the vector is empty; from then on it stays there *)
(* for the one event that has it.                                          *)
LoneInv ==
  /\ IsFiniteSet(asked) /\ intime \subseteq asked
  /\ OneAsked =>
       /\ \A c \in Callers : pc[c] = "push" =>
            /\ snap[c] = <<>> /\ queue = <<>> /\ intime = {} /\ mine[c] \in asked
            /\ \A e \in Events : pc[e] \notin {"erase", "shrink"}
       /\ \A e \in intime :
            /\ pc[e] \in {"asleep", "search", "erase", "shrink", "skipped"}
            /\ pc[e] \in {"asleep", "search"} => queue = <<id[e]>>
            /\ pc[e] = "search" => idx[e] = 1 /\ lim[e] = 1

LEMMA NextLoneInv ==
  ASSUME OneCaller
  PROVE  TypeOK /\ IdsInv /\ CancelledInv /\ LoneInv /\ [Next]_vars => LoneInv'
<1> SUFFICES ASSUME TypeOK, IdsInv, CancelledInv, LoneInv, [Next]_vars PROVE LoneInv'
  OBVIOUS
<1>0. /\ \A c \in Callers : pc[c] \in {"idle", "load", "store", "dispatch", "return", "push"}
      /\ DOMAIN pc = Callers \cup Events /\ Callers \cap Events = {}
      /\ asked \subseteq Events /\ intime \subseteq Events /\ queue \in Seq(Nat)
      /\ snap \in [Callers \cup Events -> Seq(Nat)]
      /\ idx \in [Events -> Nat] /\ lim \in [Events -> Nat]
      /\ \A c, d \in Callers : c = d
  BY SchedulerAssumption DEF TypeOK, OneCaller
<1> USE DEF LoneInv, OneAsked, counting, cancelling, searching, loaded, Load, Done, At
(* The steps that touch none of it. *)
<1>1. ASSUME UNCHANGED <<queue, snap, asked, intime, lim, idx>>,
             \A c \in Callers : pc'[c] = "push" => pc[c] = "push" /\ mine'[c] = mine[c],
             \A e \in Events : pc[e] # "new" => pc'[e] = pc[e] /\ id'[e] = id[e],
             \A e \in Events : pc[e] = "new" => pc'[e] \in {"new", "asleep"}
      PROVE  LoneInv'
  <2>1. ASSUME NEW e \in intime, OneAsked PROVE pc'[e] = pc[e] /\ id'[e] = id[e]
    BY <1>0, <1>1, <2>1
  <2>2. ASSUME NEW e \in Events PROVE pc'[e] \in {"erase", "shrink"} => pc[e] \in {"erase", "shrink"}
    BY <1>1
  <2> QED
    BY <1>1, <2>1, <2>2
<1>2. ASSUME NEW c \in Callers, NEW e \in Events, Avail(c, e) \/ Unavail(c, e)
      PROVE  LoneInv'
  BY <1>0, <1>1, <1>2 DEF Avail, Unavail
<1>3. ASSUME NEW c \in Callers, LoadCounter(c) \/ StoreCounter(c) \/ Return(c)
      PROVE  LoneInv'
  BY <1>0, <1>1, <1>3 DEF LoadCounter, StoreCounter, Return
<1>4. ASSUME NEW c \in Callers, Dispatch(c) PROVE LoneInv'
  <2>1. mine[c] \in Events
    BY <1>4, SchedulerAssumption DEF Dispatch, NoEvent, TypeOK
  <2>2. pc[mine[c]] = "new"
    BY <1>4, <2>1 DEF Dispatch, Pool!Start, Pool!Move, IdsInv
  <2> QED
    <3>1. /\ pc' = [pc EXCEPT ![c] = "return", ![mine[c]] = "asleep"]
          /\ id' = [id EXCEPT ![mine[c]] = eventcounter]
          /\ UNCHANGED <<mine, queue, snap, asked, intime, lim, idx>>
      BY <1>4 DEF Dispatch
    <3>2. /\ \A d \in Callers : pc'[d] = "push" => pc[d] = "push"
          /\ \A e \in Events : e # mine[c] => pc'[e] = pc[e] /\ id'[e] = id[e]
          /\ pc'[mine[c]] = "asleep"
      <4>1. c # mine[c] /\ c \in DOMAIN pc /\ mine[c] \in DOMAIN pc /\ id \in [Events -> Nat]
        BY <1>0, <2>1 DEF TypeOK
      <4>2. \A t \in DOMAIN pc :
              pc'[t] = IF t = mine[c] THEN "asleep" ELSE IF t = c THEN "return" ELSE pc[t]
        BY <3>1, <4>1
      <4>3. \A e \in Events : e # mine[c] => id'[e] = id[e]
        BY <3>1, <4>1
      <4>4. \A d \in Callers : d = c
        BY <1>0
      <4>5. \A e \in Events : e # c /\ e \in DOMAIN pc
        BY <1>0
      <4> QED
        BY <4>1, <4>2, <4>3, <4>4, <4>5
    <3> QED
      BY <1>1, <2>2, <3>1, <3>2
<1>5. ASSUME NEW c \in Callers, NEW e \in Events, LoadQueue(c, e) PROVE LoneInv'
  <2>1. IsFiniteSet(asked') /\ intime' \subseteq asked'
    BY <1>5, FS_AddElement DEF LoadQueue
  <2>2. ASSUME OneAsked' PROVE asked = {}
    BY <1>0, <1>5, <2>2 DEF LoadQueue
  <2>3. ASSUME asked = {}
        PROVE  /\ queue = <<>> /\ intime = {}
               /\ \A f \in Events : pc[f] \notin {"erase", "shrink"}
    <3>1. DOMAIN queue = {}
      BY <2>3 DEF CancelledInv, OfCancelled, CancelledIds
    <3>2. queue = <<>>
      BY <1>0, <3>1
    <3> QED
      BY <2>3, <3>2 DEF CancelledInv, OnlyCancelledSkipped, CancelledIds
  <2>4. /\ pc' = [pc EXCEPT ![c] = "push"] /\ snap' = [snap EXCEPT ![c] = queue]
        /\ mine' = [mine EXCEPT ![c] = e] /\ asked' = asked \cup {e}
        /\ UNCHANGED <<queue, intime>>
    BY <1>5 DEF LoadQueue
  <2>5. /\ pc'[c] = "push" /\ snap'[c] = queue /\ mine'[c] \in asked'
        /\ \A f \in Events : pc'[f] = pc[f]
    BY <1>0, <2>4 DEF TypeOK
  <2> QED
    BY <1>0, <2>1, <2>2, <2>3, <2>4, <2>5
<1>6. ASSUME NEW c \in Callers, Push(c) PROVE LoneInv'
  <2> DEFINE e == mine[c]
  <2>1. e \in Events /\ returned[e] = id[e]
    BY <1>6, SchedulerAssumption
       DEF Push, NoEvent, TypeOK, CancelledInv, CancelledIds, IdsInv, IdNamesOneEvent
  <2>2. /\ pc[c] = "push" /\ pc' = [pc EXCEPT ![c] = "idle"]
        /\ queue' = Append(snap[c], id[e])
        /\ intime' = IF pc[e] = "asleep" THEN intime \cup {e} ELSE intime
        /\ UNCHANGED <<asked, id, lim, idx>>
    BY <1>6, <2>1 DEF Push
  <2>3. /\ \A d \in Callers : pc'[d] # "push"
        /\ \A f \in Events : pc'[f] = pc[f]
    BY <1>0, <2>2
  <2>4. e \in asked
    <3>1. PICK f \in asked : returned[f] # 0 /\ returned[f] = returned[e]
      BY <1>6 DEF Push, CancelledInv, CancelledIds
    <3>2. id[f] = id[e] /\ id[f] # 0
      BY <1>0, <2>1, <3>1 DEF IdsInv, IdNamesOneEvent
    <3> QED
      BY <1>0, <2>1, <3>1, <3>2 DEF IdsInv, IdNamesOneEvent
  <2>5. IsFiniteSet(asked') /\ intime' \subseteq asked'
    BY <2>2, <2>4
  <2>6. ASSUME OneAsked, NEW f \in intime'
        PROVE  f = e /\ pc[f] = "asleep" /\ queue' = <<id[f]>>
    <3>1. snap[c] = <<>> /\ intime = {}
      BY <2>2, <2>6
    <3>2. f = e /\ pc[e] = "asleep"
      BY <2>2, <3>1
    <3>3. queue' = <<id[e]>>
      <4>1. id[e] \in Nat
        BY <2>1 DEF TypeOK
      <4> QED
        BY <2>2, <3>1, <4>1
    <3> QED
      BY <3>2, <3>3
  <2> QED
    BY <2>2, <2>3, <2>5, <2>6
<1>7. ASSUME NEW e \in Events, Wake(e) PROVE LoneInv'
  <2>1. /\ pc[e] = "asleep" /\ pc' = [pc EXCEPT ![e] = "search"]
        /\ lim' = [lim EXCEPT ![e] = Len(queue)] /\ idx' = [idx EXCEPT ![e] = 1]
        /\ UNCHANGED <<mine, snap, queue, asked, intime, id>>
    BY <1>7 DEF Wake
  <2>2. ASSUME NEW f \in Events
        PROVE  IF f = e THEN pc'[f] = "search" /\ lim'[f] = Len(queue) /\ idx'[f] = 1
                        ELSE pc'[f] = pc[f] /\ lim'[f] = lim[f] /\ idx'[f] = idx[f]
    BY <1>0, <2>1
  <2>3. \A c \in Callers : pc'[c] = pc[c]
    BY <1>0, <2>1
  <2>4. ASSUME OneAsked, NEW f \in intime
        PROVE  /\ pc'[f] \in {"asleep", "search", "erase", "shrink", "skipped"}
               /\ pc'[f] \in {"asleep", "search"} => queue = <<id[f]>>
               /\ pc'[f] = "search" => idx'[f] = 1 /\ lim'[f] = 1
    <3>1. f \in Events
      BY <1>0
    <3>2. CASE f = e
      <4>1. queue = <<id[e]>>
        BY <2>1, <2>4, <3>2
      <4>2. Len(queue) = 1
        BY <4>1
      <4> QED
        BY <2>2, <3>1, <3>2, <4>1, <4>2
    <3>3. CASE f # e
      BY <2>2, <2>4, <3>1, <3>3
    <3> QED
      BY <3>2, <3>3
  <2> QED
    BY <2>1, <2>2, <2>3, <2>4
<1>8. ASSUME NEW e \in Events, Search(e) PROVE LoneInv'
  <2>1. /\ pc[e] = "search" /\ UNCHANGED <<mine, snap, queue, asked, intime, lim, id>>
        /\ \/ /\ idx[e] > lim[e]
              /\ pc' = [pc EXCEPT ![e] = "fired"] /\ idx' = idx
           \/ /\ idx[e] <= lim[e] /\ idx[e] > Len(queue)
              /\ pc' = pc /\ idx' = idx
           \/ /\ idx[e] <= lim[e] /\ idx[e] <= Len(queue) /\ queue[idx[e]] = id[e]
              /\ pc' = [pc EXCEPT ![e] = "erase"] /\ idx' = idx
           \/ /\ idx[e] <= lim[e] /\ idx[e] <= Len(queue) /\ queue[idx[e]] # id[e]
              /\ pc' = pc /\ idx' = [idx EXCEPT ![e] = @ + 1]
    BY <1>8 DEF Search
  <2>2. /\ \A c \in Callers : pc'[c] = pc[c]
        /\ \A f \in Events : f # e => pc'[f] = pc[f] /\ idx'[f] = idx[f]
    BY <1>0, <2>1
  <2>3. idx[e] \in Nat /\ idx[e] # 0
    BY <1>0, <2>1 DEF TypeOK
  <2>4. ASSUME OneAsked, e \in intime
        PROVE  pc'[e] = "erase"
    <3>1. queue = <<id[e]>> /\ idx[e] = 1 /\ lim[e] = 1
      BY <2>1, <2>4
    <3>2. Len(queue) = 1 /\ queue[1] = id[e]
      BY <3>1
    <3> QED
      BY <1>0, <2>1, <3>1, <3>2
  <2>5. ASSUME queue = <<>> PROVE pc'[e] # "erase" /\ pc'[e] # "shrink"
    BY <1>0, <2>1, <2>3, <2>5
  <2>6. ASSUME NEW f \in intime, OneAsked
        PROVE  /\ pc'[f] \in {"asleep", "search", "erase", "shrink", "skipped"}
               /\ pc'[f] \in {"asleep", "search"} => queue = <<id[f]>>
               /\ pc'[f] = "search" => idx'[f] = 1 /\ lim'[f] = 1
    <3>1. CASE f = e
      BY <2>4, <2>6, <3>1
    <3>2. CASE f # e
      <4>1. pc'[f] = pc[f] /\ idx'[f] = idx[f]
        BY <1>0, <2>2, <3>2
      <4> QED
        BY <2>1, <2>6, <4>1
    <3> QED
      BY <3>1, <3>2
  <2>7. ASSUME NEW c \in Callers, pc'[c] = "push", OneAsked
        PROVE  /\ snap'[c] = <<>> /\ queue' = <<>> /\ intime' = {} /\ mine'[c] \in asked'
               /\ \A f \in Events : pc'[f] \notin {"erase", "shrink"}
    BY <2>1, <2>2, <2>5, <2>7
  <2>8. IsFiniteSet(asked') /\ intime' \subseteq asked' /\ (OneAsked' => OneAsked)
    BY <2>1
  <2> QED
    BY <2>1, <2>6, <2>7, <2>8
<1>9. ASSUME NEW e \in Events, LoadForErase(e) PROVE LoneInv'
  <2>1. /\ pc[e] = "erase" /\ pc' = [pc EXCEPT ![e] = "shrink"]
        /\ snap' = [snap EXCEPT ![e] = queue]
        /\ UNCHANGED <<mine, queue, asked, intime, id, lim, idx>>
    BY <1>9 DEF LoadForErase
  <2>2. /\ \A c \in Callers : pc'[c] = pc[c] /\ snap'[c] = snap[c]
        /\ \A f \in Events : pc'[f] = IF f = e THEN "shrink" ELSE pc[f]
    BY <1>0, <2>1
  <2> QED
    BY <1>0, <2>1, <2>2
<1>10. ASSUME NEW e \in Events, Erase(e) PROVE LoneInv'
  <2>1. /\ pc[e] = "shrink" /\ pc' = [pc EXCEPT ![e] = "skipped"]
        /\ UNCHANGED <<mine, asked, intime, id, lim, idx>>
    BY <1>10 DEF Erase
  <2>2. /\ \A c \in Callers : pc'[c] = pc[c]
        /\ \A f \in Events : pc'[f] = IF f = e THEN "skipped" ELSE pc[f]
    BY <1>0, <2>1
  <2>3. e \in asked
    <3>1. PICK f \in asked : returned[f] = id[e] /\ returned[f] # 0
      BY <2>1 DEF CancelledInv, OnlyCancelledSkipped, CancelledIds
    <3>2. id[f] = id[e] /\ f \in Events
      BY <1>0, <3>1 DEF IdsInv, IdNamesOneEvent
    <3>3. pc[f] # "new" /\ pc[e] # "new"
      <4>1. id[f] # 0 /\ pc[e] # "new"
        BY <2>1, <3>1, <3>2
      <4> QED
        BY <3>2, <4>1 DEF IdsInv
    <3> QED
      BY <3>1, <3>2, <3>3 DEF IdsInv, IdNamesOneEvent
  <2>4. ASSUME OneAsked, NEW f \in intime PROVE f = e
    BY <2>3, <2>4
  <2>5. ASSUME OneAsked, NEW c \in Callers, pc[c] = "push" PROVE FALSE
    BY <2>1, <2>5
  <2> QED
    BY <1>0, <2>1, <2>2, <2>4, <2>5
<1>11. ASSUME NEW e \in Events, GoBack(e) PROVE LoneInv'
  BY <1>1, <1>11 DEF GoBack
<1>12. CASE UNCHANGED vars
  BY <1>1, <1>12 DEF vars
<1> QED
  BY <1>2, <1>3, <1>4, <1>5, <1>6, <1>7, <1>8, <1>9, <1>10, <1>11, <1>12
     DEF Next, EventSchedule, EventCancel, EventWrapper, Finished

(* With one caller, and as long as one event at most was cancelled, that   *)
(* event does not run if eventCancel returned while it was asleep: nothing *)
(* takes its id out of the vector or moves it.                             *)
THEOREM OneCallerCancels ==
  ASSUME OneCaller
  PROVE  Spec => []LoneCancelHonoured
<1>1. Init => LoneInv
  BY SchedulerAssumption, FS_EmptySet DEF Init, LoneInv
<1>3. TypeOK => Apart
  BY DEF OneCaller, Apart
<1>2. LoneInv => LoneCancelHonoured
  <2> SUFFICES ASSUME LoneInv, Cardinality(asked) <= 1, NEW e \in intime
               PROVE  pc[e] # "fired"
    BY DEF LoneCancelHonoured, CancelHonoured
  <2>1. OneAsked
    <3>1. CASE asked = {}
      BY <3>1 DEF OneAsked
    <3>2. CASE asked # {}
      <4>1. Cardinality(asked) = 1
        BY <3>2, FS_CardinalityType, FS_EmptySet DEF LoneInv
      <4> QED
        BY <4>1, FS_Singleton DEF OneAsked, LoneInv
    <3> QED
      BY <3>1, <3>2
  <2> QED
    BY <2>1 DEF LoneInv
<1> QED
  BY <1>1, <1>2, <1>3, InitIdsInv, InitCancelledInv, NextIdsInv, NextOwnEvent, NextCancelledInv,
     NextLoneInv, TypeCorrect, PTL DEF Spec
=============================================================================
