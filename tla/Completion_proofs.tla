-------------------------- MODULE Completion_proofs -------------------------
(***************************************************************************)
(* Proofs about Completion, for any applications, messages and threads,    *)
(* any assignment of messages to threads and any clock.                    *)
(***************************************************************************)
EXTENDS Completion, FiniteSetTheorems, TLAPS

Places == {"idle", "store", "check", "print"}

(* A thread has its own message in hand, which is counted with the store.  *)
Hands ==
  /\ pc \in [Threads -> Places]
  /\ hand \in [Threads -> Messages \cup {"none"}]
  /\ counted \subseteq Messages
  /\ \A t \in Threads :
       /\ pc[t] # "idle" => hand[t] \in Messages /\ By[hand[t]] = t
       /\ pc[t] = "store" => hand[t] \notin counted

(* Increments can be lost, so that a counter, and what a thread has loaded *)
(* of it, is never more than what has been counted.                        *)
Counters ==
  /\ count \in [Apps -> Nat]
  /\ reg \in [Threads -> 0 .. TotSend]
  /\ \A a \in Apps : count[a] <= Cardinality(CountedOf(a))
  /\ \A t \in Threads : pc[t] = "store" =>
       reg[t] <= Cardinality(CountedOf(App[hand[t]]))

Alone(a) == \A m, n \in Of(a) : By[m] = By[n]

(* The one thread of an application has loaded what the counter still is.  *)
OnlyItsOwn ==
  \A t \in Threads : pc[t] = "store" /\ Alone(App[hand[t]]) => reg[t] = count[App[hand[t]]]

Clock == end \in Nat /\ torn \subseteq Threads

DoneInv == Hands /\ Counters /\ OnlyItsOwn /\ Clock /\ NeverEarly /\ ExactIfAlone

-----------------------------------------------------------------------------
(***************************************************************************)
(* Counting.                                                               *)
(***************************************************************************)

LEMMA OfFinite ==
  ASSUME NEW a \in Apps
  PROVE  IsFiniteSet(Of(a)) /\ Cardinality(Of(a)) \in Nat /\ Cardinality(Of(a)) <= TotSend
<1>1. IsFiniteSet(Messages) /\ Of(a) \in SUBSET Messages
  BY CompletionAssumption DEF Of
<1>2. IsFiniteSet(Of(a))
  BY <1>1, FS_Subset
<1> QED
  BY <1>2, FS_CardinalityType, NoneTwice

LEMMA CountedFinite ==
  ASSUME NEW a \in Apps
  PROVE  /\ IsFiniteSet(CountedOf(a)) /\ Cardinality(CountedOf(a)) \in Nat
         /\ Cardinality(CountedOf(a)) <= TotSend
         /\ Cardinality(CountedOf(a)) = TotSend => CountedOf(a) = Of(a)
<1>1. IsFiniteSet(Of(a)) /\ Cardinality(Of(a)) \in Nat /\ Cardinality(Of(a)) <= TotSend
  BY OfFinite
<1>2. CountedOf(a) \in SUBSET Of(a)
  BY DEF CountedOf
<1>3. /\ IsFiniteSet(CountedOf(a)) /\ Cardinality(CountedOf(a)) <= Cardinality(Of(a))
      /\ Cardinality(Of(a)) = Cardinality(CountedOf(a)) => Of(a) = CountedOf(a)
  BY <1>1, <1>2, FS_Subset
<1>4. Cardinality(CountedOf(a)) \in Nat
  BY <1>3, FS_CardinalityType
<1> QED
  BY <1>1, <1>3, <1>4, CompletionAssumption

(* A store counts one message, of the thread's application.                *)
LEMMA CountsOne ==
  ASSUME Hands, NEW t \in Threads, pc[t] = "store", counted' = counted \cup {hand[t]},
         NEW a \in Apps
  PROVE  Cardinality(CountedOf(a))' =
           IF a = App[hand[t]] THEN Cardinality(CountedOf(a)) + 1 ELSE Cardinality(CountedOf(a))
<1>1. hand[t] \in Messages /\ hand[t] \notin counted
  BY DEF Hands
<1>2. CASE a = App[hand[t]]
  <2>1. CountedOf(a)' = CountedOf(a) \cup {hand[t]} /\ hand[t] \notin CountedOf(a)
    BY <1>1, <1>2 DEF CountedOf, Of
  <2> QED
    BY <1>2, <2>1, CountedFinite, FS_AddElement
<1>3. CASE a # App[hand[t]]
  <2>1. CountedOf(a)' = CountedOf(a)
    BY <1>1, <1>3 DEF CountedOf, Of
  <2> QED
    BY <1>3, <2>1
<1> QED
  BY <1>2, <1>3

(* A full counter: every message of the application has been counted, and  *)
(* nobody is about to store.                                               *)
LEMMA FullCounter ==
  ASSUME Hands, Counters, NEW a \in Apps, count[a] = TotSend
  PROVE  /\ Of(a) \subseteq counted
         /\ \A t \in Threads : pc[t] = "store" => App[hand[t]] # a
<1>1. Cardinality(CountedOf(a)) = TotSend
  BY CountedFinite, CompletionAssumption DEF Counters
<1>2. CountedOf(a) = Of(a)
  BY <1>1, CountedFinite
<1>3. Of(a) \subseteq counted
  BY <1>2 DEF CountedOf
<1> QED
  BY <1>3 DEF Hands, Of

-----------------------------------------------------------------------------
(***************************************************************************)
(* The invariant.                                                          *)
(***************************************************************************)

LEMMA InitDone == Init => DoneInv
<1> SUFFICES ASSUME Init PROVE DoneInv
  OBVIOUS
<1>1. \A a \in Apps : CountedOf(a) = {} /\ Cardinality(CountedOf(a)) = 0 /\ count[a] = 0
  BY FS_EmptySet DEF Init, CountedOf
<1>2. Hands
  BY DEF Init, Hands, Places
<1>3. Counters
  BY <1>1, CompletionAssumption DEF Init, Counters
<1>4. OnlyItsOwn /\ Clock /\ NeverEarly
  BY CompletionAssumption DEF Init, OnlyItsOwn, Clock, NeverEarly
<1>5. ExactIfAlone
  BY <1>1 DEF ExactIfAlone
<1> QED
  BY <1>2, <1>3, <1>4, <1>5 DEF DoneInv

LEMMA NextHands == DoneInv /\ [Next]_vars => Hands'
<1> SUFFICES ASSUME DoneInv, [Next]_vars PROVE Hands'
  OBVIOUS
<1>a. Hands
  BY DEF DoneInv
<1>1. ASSUME NEW t \in Threads, Load(t) PROVE Hands'
  BY <1>a, <1>1 DEF Load, Goes, Waiting, Hands, Places
<1>2. ASSUME NEW t \in Threads, Store(t) PROVE Hands'
  <2>1. \A u \in Threads \ {t} : pc[u] = "store" => hand[u] # hand[t]
    BY <1>a, <1>2 DEF Store, Goes, Hands
  <2> QED
    BY <1>a, <1>2, <2>1 DEF Store, Goes, Hands, Places
<1>3. ASSUME NEW t \in Threads, NotYet(t) PROVE Hands'
  BY <1>a, <1>3 DEF NotYet, Goes, Hands, Places
<1>4. ASSUME NEW t \in Threads, Stamp(t) PROVE Hands'
  BY <1>a, <1>4 DEF Stamp, Goes, Hands, Places
<1>5. ASSUME NEW t \in Threads, Show(t) PROVE Hands'
  BY <1>a, <1>5 DEF Show, Goes, Hands, Places
<1>6. CASE UNCHANGED vars
  BY <1>a, <1>6 DEF vars, Hands
<1> QED
  BY <1>1, <1>2, <1>3, <1>4, <1>5, <1>6 DEF Next, Delivers, AllDone

(* Only Load and Store touch what is counted with. *)
LEMMA CountersUntouched ==
  ASSUME DoneInv, UNCHANGED <<count, counted, hand, reg>>,
         \A t \in Threads : pc'[t] = "store" => pc[t] = "store"
  PROVE  Counters' /\ OnlyItsOwn' /\ ExactIfAlone'
<1>1. \A a \in Apps : CountedOf(a)' = CountedOf(a)
  BY DEF CountedOf
<1>2. \A t \in Threads : pc[t] = "store" => App[hand[t]] \in Apps
  BY CompletionAssumption DEF DoneInv, Hands
<1> QED
  BY <1>1, <1>2 DEF DoneInv, Counters, OnlyItsOwn, ExactIfAlone, Alone, CountedOf

LEMMA LoadCounts ==
  ASSUME DoneInv, NEW t \in Threads, Load(t)
  PROVE  Counters' /\ OnlyItsOwn' /\ ExactIfAlone'
<1>1. PICK m \in Messages : /\ hand' = [hand EXCEPT ![t] = m]
                            /\ reg' = [reg EXCEPT ![t] = count[App[m]]]
  BY DEF Load
<1>2. App[m] \in Apps
  BY CompletionAssumption
<1>3. count' = count /\ counted' = counted /\ pc' = [pc EXCEPT ![t] = "store"]
  BY DEF Load, Goes
<1>4. \A a \in Apps : CountedOf(a)' = CountedOf(a)
  BY <1>3 DEF CountedOf
<1>5. hand'[t] = m /\ reg'[t] = count[App[m]]
      /\ \A u \in Threads \ {t} : hand'[u] = hand[u] /\ reg'[u] = reg[u] /\ pc'[u] = pc[u]
  BY <1>1, <1>3 DEF DoneInv, Hands, Counters
<1>6. \A u \in Threads : pc[u] = "store" => App[hand[u]] \in Apps
  BY CompletionAssumption DEF DoneInv, Hands
<1>7. count[App[m]] \in 0 .. TotSend /\ count[App[m]] <= Cardinality(CountedOf(App[m]))
  BY <1>2, CountedFinite, CompletionAssumption DEF DoneInv, Counters
<1>8. Counters'
  <2>1. reg' \in [Threads -> 0 .. TotSend]
    BY <1>1, <1>7 DEF DoneInv, Counters
  <2>2. \A u \in Threads : pc'[u] = "store" =>
          reg'[u] <= Cardinality(CountedOf(App[hand'[u]]))
    BY <1>5, <1>7 DEF DoneInv, Counters
  <2>3. \A u \in Threads : (pc[u] = "store" => reg[u] <= Cardinality(CountedOf(App[hand[u]])))'
    BY <1>3, <2>2 DEF CountedOf
  <2> QED
    BY <1>3, <1>4, <2>1, <2>3 DEF DoneInv, Counters
<1>9. OnlyItsOwn'
  BY <1>3, <1>5 DEF DoneInv, OnlyItsOwn, Alone
<1>10. ExactIfAlone'
  BY <1>3, <1>4 DEF DoneInv, ExactIfAlone
<1> QED
  BY <1>8, <1>9, <1>10

LEMMA StoreCounts ==
  ASSUME DoneInv, NEW t \in Threads, Store(t)
  PROVE  Counters' /\ OnlyItsOwn' /\ ExactIfAlone'
<1>1. hand' = hand /\ reg' = reg /\ counted' = counted \cup {hand[t]}
      /\ pc[t] = "store" /\ pc' = [pc EXCEPT ![t] = "check"]
      /\ count' = [count EXCEPT ![App[hand[t]]] = reg[t] + 1]
  BY DEF Store, Goes
<1>2. hand[t] \in Messages /\ App[hand[t]] \in Apps /\ By[hand[t]] = t
  BY <1>1, CompletionAssumption DEF DoneInv, Hands
<1>3. \A a \in Apps : Cardinality(CountedOf(a))' =
        IF a = App[hand[t]] THEN Cardinality(CountedOf(a)) + 1 ELSE Cardinality(CountedOf(a))
  BY <1>1, CountsOne DEF DoneInv
<1>4. \A a \in Apps : Cardinality(CountedOf(a)) \in Nat
  BY CountedFinite
<1>5. reg[t] \in Nat /\ reg[t] <= Cardinality(CountedOf(App[hand[t]]))
  BY <1>1, CompletionAssumption DEF DoneInv, Counters
<1>6. count'[App[hand[t]]] = reg[t] + 1
      /\ \A a \in Apps \ {App[hand[t]]} : count'[a] = count[a]
  BY <1>1, <1>2 DEF DoneInv, Counters
<1>7. \A u \in Threads : pc'[u] = "store" => u # t /\ pc[u] = "store"
  BY <1>1 DEF DoneInv, Hands
<1>8. \A u \in Threads : pc[u] = "store" => /\ hand[u] \in Messages /\ By[hand[u]] = u
                                            /\ App[hand[u]] \in Apps
  BY CompletionAssumption DEF DoneInv, Hands
<1>9. Counters'
  <2>1. count' \in [Apps -> Nat] /\ reg' \in [Threads -> 0 .. TotSend]
    BY <1>1, <1>2, <1>5 DEF DoneInv, Counters
  <2>2. \A a \in Apps : count'[a] <= Cardinality(CountedOf(a))'
    BY <1>3, <1>4, <1>5, <1>6 DEF DoneInv, Counters
  <2>3. ASSUME NEW u \in Threads, pc'[u] = "store"
        PROVE  (reg[u] <= Cardinality(CountedOf(App[hand[u]])))'
    <3>1. pc[u] = "store" /\ App[hand[u]] \in Apps
      BY <1>7, <1>8, <2>3
    <3>2. reg[u] \in Nat /\ reg[u] <= Cardinality(CountedOf(App[hand[u]]))
      BY <3>1, CompletionAssumption DEF DoneInv, Counters
    <3>3. PICK a \in Apps : a = App[hand[u]]
      BY <3>1
    <3>4. reg'[u] <= Cardinality(CountedOf(a))'
      BY <1>1, <1>3, <1>4, <3>2, <3>3
    <3> QED
      BY <1>1, <3>3, <3>4
  <2> QED
    BY <2>1, <2>2, <2>3 DEF Counters
<1>10. OnlyItsOwn'
  <2> SUFFICES ASSUME NEW u \in Threads, pc'[u] = "store", Alone(App[hand[u]])
               PROVE  reg[u] = count'[App[hand[u]]]
    BY <1>1 DEF OnlyItsOwn, Alone
  <2>1. u # t /\ pc[u] = "store" /\ By[hand[u]] = u /\ hand[u] \in Messages
    BY <1>7, <1>8
  <2>2. App[hand[u]] # App[hand[t]]
    BY <1>2, <2>1 DEF Alone, Of
  <2> QED
    BY <1>6, <1>8, <2>1, <2>2 DEF DoneInv, OnlyItsOwn
<1>11. ExactIfAlone'
  <2> SUFFICES ASSUME NEW a \in Apps, Alone(a) PROVE count'[a] = Cardinality(CountedOf(a))'
    BY DEF ExactIfAlone, Alone
  <2>1. count[a] = Cardinality(CountedOf(a))
    BY DEF DoneInv, ExactIfAlone, Alone
  <2>2. CASE a = App[hand[t]]
    <3>1. reg[t] = count[a]
      BY <1>1, <2>2 DEF DoneInv, OnlyItsOwn
    <3> QED
      BY <1>3, <1>6, <2>1, <2>2, <3>1
  <2>3. CASE a # App[hand[t]]
    BY <1>3, <1>6, <2>1, <2>3
  <2> QED
    BY <2>2, <2>3
<1> QED
  BY <1>9, <1>10, <1>11

LEMMA NextCounts == DoneInv /\ [Next]_vars => Counters' /\ OnlyItsOwn' /\ ExactIfAlone'
<1> SUFFICES ASSUME DoneInv, [Next]_vars PROVE Counters' /\ OnlyItsOwn' /\ ExactIfAlone'
  OBVIOUS
<1>1. CASE \E t \in Threads : Load(t)
  BY <1>1, LoadCounts
<1>2. CASE \E t \in Threads : Store(t)
  BY <1>2, StoreCounts
<1>3. ASSUME NEW t \in Threads, NotYet(t) \/ Stamp(t) \/ Show(t)
      PROVE  Counters' /\ OnlyItsOwn' /\ ExactIfAlone'
  <2>1. \A u \in Threads : pc'[u] = "store" => pc[u] = "store"
    BY <1>3 DEF NotYet, Stamp, Show, Goes, DoneInv, Hands
  <2>2. UNCHANGED <<count, counted, hand, reg>>
    BY <1>3 DEF NotYet, Stamp, Show
  <2> QED
    BY <2>1, <2>2, CountersUntouched
<1>4. CASE UNCHANGED vars
  BY <1>4, CountersUntouched DEF vars
<1> QED
  BY <1>1, <1>2, <1>3, <1>4 DEF Next, Delivers, AllDone

LEMMA NextClock == DoneInv /\ [Next]_vars => Clock'
<1> SUFFICES ASSUME DoneInv, [Next]_vars PROVE Clock'
  OBVIOUS
<1>a. Clock
  BY DEF DoneInv
<1>1. ASSUME NEW t \in Threads, Stamp(t) PROVE Clock'
  <2>1. end' \in Nat
    BY <1>a, <1>1, CompletionAssumption DEF Stamp, Clock
  <2>2. torn' \subseteq Threads
    BY <1>a, <1>1 DEF Stamp, Clock
  <2> QED
    BY <2>1, <2>2 DEF Clock
<1>2. CASE UNCHANGED <<end, torn>>
  BY <1>a, <1>2 DEF Clock
<1> QED
  BY <1>1, <1>2 DEF Next, Delivers, Load, Store, NotYet, Show, AllDone, vars

LEMMA NextNeverEarly == DoneInv /\ [Next]_vars => NeverEarly'
<1> SUFFICES ASSUME DoneInv, [Next]_vars PROVE NeverEarly'
  OBVIOUS
<1>a. Hands /\ Counters /\ NeverEarly
  BY DEF DoneInv
<1>b. counted \subseteq Messages /\ counted \subseteq counted' /\ counted' \subseteq Messages
  <2>1. counted' \subseteq Messages
    BY NextHands DEF Hands
  <2> QED
    BY <1>a, <2>1 DEF Hands, Next, Delivers, Load, Store, NotYet, Stamp, Show, AllDone, vars
<1>1. ASSUME NEW t \in Threads, Stamp(t) PROVE NeverEarly'
  <2>1. \A a \in Apps : Of(a) \subseteq counted
    BY <1>a, <1>1, FullCounter DEF Stamp, Complete
  <2>2. \A m \in Messages : m \in counted
    BY <2>1, CompletionAssumption DEF Of
  <2> QED
    BY <1>b, <2>2 DEF NeverEarly
<1>2. ASSUME NEW t \in Threads, Show(t) PROVE NeverEarly'
  BY <1>a, <1>b, <1>2 DEF Show, Goes, NeverEarly
<1>3. ASSUME shown' = shown, \A u \in Threads : pc'[u] = "print" => pc[u] = "print"
      PROVE  NeverEarly'
  BY <1>a, <1>b, <1>3 DEF NeverEarly
<1>4. ASSUME NEW t \in Threads, Load(t) \/ Store(t) \/ NotYet(t) PROVE NeverEarly'
  <2>1. \A u \in Threads : pc'[u] = "print" => pc[u] = "print"
    BY <1>a, <1>4 DEF Load, Store, NotYet, Goes, Hands
  <2> QED
    BY <1>3, <1>4, <2>1 DEF Load, Store, NotYet
<1>5. CASE UNCHANGED vars
  BY <1>3, <1>5 DEF vars
<1> QED
  BY <1>1, <1>2, <1>4, <1>5 DEF Next, Delivers, AllDone

LEMMA DoneAlways == Spec => []DoneInv
<1>1. DoneInv /\ [Next]_vars => DoneInv'
  BY NextHands, NextCounts, NextClock, NextNeverEarly DEF DoneInv
<1> QED
  BY InitDone, <1>1, PTL DEF Spec

-----------------------------------------------------------------------------
(***************************************************************************)
(* The theorems.                                                           *)
(***************************************************************************)

(* No counter passes what its application is to receive.                   *)
THEOREM TypeCorrect == Spec => []TypeOK
<1>1. DoneInv => TypeOK
  <2> SUFFICES ASSUME DoneInv PROVE TypeOK
    OBVIOUS
  <2>1. \A a \in Apps : count[a] \in 0 .. TotSend
    BY CountedFinite, CompletionAssumption DEF DoneInv, Counters
  <2>2. count \in [Apps -> 0 .. TotSend]
    BY <2>1 DEF DoneInv, Counters
  <2> QED
    BY <2>2 DEF DoneInv, Hands, Counters, Clock, TypeOK, Places
<1> QED
  BY <1>1, DoneAlways, PTL

(* Lost increments only ever delay the end: no time is taken before every  *)
(* message has been counted.                                               *)
THEOREM NeverTooEarly == Spec => []NeverEarly
<1>1. DoneInv => NeverEarly
  BY DEF DoneInv
<1> QED
  BY <1>1, DoneAlways, PTL

(* A counter that one thread increments is exact, whatever the others do.  *)
THEOREM AloneIsExact == Spec => []ExactIfAlone
<1>1. DoneInv => ExactIfAlone
  BY DEF DoneInv
<1> QED
  BY <1>1, DoneAlways, PTL

(* A full counter is never set back by a thread that loaded it earlier.    *)
THEOREM FullStays == Spec => FullIsFinal
<1>1. DoneInv /\ [Next]_vars => [\A a \in Apps : count[a] = TotSend => count'[a] = TotSend]_count
  <2> SUFFICES ASSUME DoneInv, [Next]_vars, NEW a \in Apps, count[a] = TotSend
               PROVE  count'[a] = TotSend
    OBVIOUS
  <2>1. ASSUME NEW t \in Threads, Store(t) PROVE count'[a] = TotSend
    <3>1. App[hand[t]] # a
      BY <2>1, FullCounter DEF Store, Goes, DoneInv
    <3> QED
      BY <2>1, <3>1 DEF Store, DoneInv, Counters
  <2>2. CASE count' = count
    BY <2>2
  <2> QED
    BY <2>1, <2>2 DEF Next, Delivers, Load, NotYet, Stamp, Show, AllDone, vars
<1> QED
  BY <1>1, DoneAlways, PTL DEF Spec, FullIsFinal
=============================================================================
