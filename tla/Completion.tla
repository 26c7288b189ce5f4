----------------------------- MODULE Completion -----------------------------
(***************************************************************************)
(* How a host finds out that it has received everything: the deliver       *)
(* functions of the applications, the same in ppm.h and ppp.h.  Each       *)
(* delivery increments its application's counter and, when all counters    *)
(* stand at TOT_SEND, takes the time and prints what has elapsed.          *)
(*                                                                         *)
(* Nothing guards the counters: an increment is a load and a store here.   *)
(* In ppm.h each message has a thread of its own; in ppp.h all messages of *)
(* an application are delivered by one thread.  By says which.             *)
(***************************************************************************)
EXTENDS Integers, FiniteSets

CONSTANTS
  Apps,      \* the applications, each with its counter
  Messages,  \* the messages that arrive
  App,       \* App[m]: the application of message m
  Threads,   \* the threads that deliver
  By,        \* By[m]: the thread that delivers message m
  TotSend,   \* messages each application is to receive (TOT_SEND)
  Second,    \* microseconds in a second
  Start,     \* microseconds on the clock when the host started
  Late       \* bound on the clock

ASSUME CompletionAssumption ==
  /\ IsFiniteSet(Messages) /\ IsFiniteSet(Threads)
  /\ App \in [Messages -> Apps] /\ By \in [Messages -> Threads]
  /\ TotSend \in Nat \ {0}
  /\ Second \in Nat \ {0} /\ Start \in Nat /\ Late \in Nat

Of(a) == {m \in Messages : App[m] = a}

(* No application receives more than it was sent. *)
ASSUME NoneTwice == \A a \in Apps : Cardinality(Of(a)) <= TotSend

VARIABLES
  count,    \* count[a]: FTP_count and its like
  pc,       \* where each thread is
  hand,     \* the message a thread delivers
  reg,      \* the counter as the thread has loaded it
  counted,  \* messages whose increment has been stored
  end,      \* the clock when it was last read
  torn,     \* threads whose use of end, seconds, useconds overlaps another's
  shown     \* what was printed: by whom, when taken, what

vars == <<count, pc, hand, reg, counted, end, torn, shown>>

Init ==
  /\ count = [a \in Apps |-> 0]
  /\ pc = [t \in Threads |-> "idle"]
  /\ hand = [t \in Threads |-> "none"]
  /\ reg = [t \in Threads |-> 0]
  /\ counted = {}
  /\ end = Start
  /\ torn = {}
  /\ shown = {}

-----------------------------------------------------------------------------
Goes(t, from, to) == pc[t] = from /\ pc' = [pc EXCEPT ![t] = to]

(* Mutant of Waiting: a message may be delivered again. *)
WaitingStill(m) == \A t \in Threads : pc[t] = "idle" \/ hand[t] # m

(* A message that no thread has in hand yet. *)
Waiting(m) == m \notin counted /\ \A t \in Threads : pc[t] = "idle" \/ hand[t] # m

(* A message is delivered: the first half of count++. *)
Load(t) ==
  /\ Goes(t, "idle", "store")
  /\ \E m \in Messages :
       /\ By[m] = t /\ Waiting(m)
       /\ hand' = [hand EXCEPT ![t] = m]
       /\ reg' = [reg EXCEPT ![t] = count[App[m]]]
  /\ UNCHANGED <<count, counted, end, torn, shown>>

(* Mutants of Store: the counter is moved by two; nothing is added. *)
StoreTwo(t) ==
  /\ Goes(t, "store", "check")
  /\ count' = [count EXCEPT ![App[hand[t]]] = reg[t] + 2]
  /\ counted' = counted \cup {hand[t]}
  /\ UNCHANGED <<hand, reg, end, torn, shown>>

StoreSame(t) ==
  /\ Goes(t, "store", "check")
  /\ count' = [count EXCEPT ![App[hand[t]]] = reg[t]]
  /\ counted' = counted \cup {hand[t]}
  /\ UNCHANGED <<hand, reg, end, torn, shown>>

(* The second half. *)
Store(t) ==
  /\ Goes(t, "store", "check")
  /\ count' = [count EXCEPT ![App[hand[t]]] = reg[t] + 1]
  /\ counted' = counted \cup {hand[t]}
  /\ UNCHANGED <<hand, reg, end, torn, shown>>

(* Mutants of Complete: one full counter will do; a counter is full when   *)
(* it has passed TOT_SEND.                                                 *)
CompleteAny == \E a \in Apps : count[a] = TotSend

CompleteOver == \A a \in Apps : count[a] > TotSend

(* All four comparisons.  A counter that stands at TOT_SEND stays there    *)
(* (FullIsFinal), so that it does not matter that they are made one after  *)
(* the other.                                                              *)
Complete == \A a \in Apps : count[a] = TotSend

NotYet(t) ==
  /\ ~Complete
  /\ Goes(t, "check", "idle")
  /\ UNCHANGED <<hand, reg, count, counted, end, torn, shown>>

(* gettimeofday(&end), and all that is computed from it up to the print,   *)
(* uses variables all threads share.                                       *)
Stamp(t) ==
  LET others == {u \in Threads : pc[u] = "print"} IN
  /\ Complete
  /\ Goes(t, "check", "print")
  /\ end' \in end .. Late
  /\ torn' = IF others = {} THEN torn \ {t} ELSE torn \cup others \cup {t}
  /\ UNCHANGED <<hand, reg, count, counted, shown>>

(* The seconds and microseconds from one timeval to another. *)
Elapsed(from, to) ==
  LET useconds == (to % Second) - (from % Second)
      seconds == (to \div Second) - (from \div Second)
  IN  IF useconds < 0 THEN <<seconds - 1, Second - useconds>> ELSE <<seconds, useconds>>

(* Of a time that is torn anything may be printed. *)
Show(t) ==
  /\ Goes(t, "print", "idle")
  /\ shown' = shown \cup {[msg |-> hand[t], torn |-> t \in torn, end |-> end,
                           time |-> IF t \in torn THEN <<>> ELSE Elapsed(Start, end)]}
  /\ UNCHANGED <<hand, reg, count, counted, end, torn>>

Delivers(t) == Load(t) \/ Store(t) \/ NotYet(t) \/ Stamp(t) \/ Show(t)

AllDone ==
  /\ \A t \in Threads : pc[t] = "idle"
  /\ counted = Messages
  /\ UNCHANGED vars

Next == (\E t \in Threads : Delivers(t)) \/ AllDone

Spec == Init /\ [][Next]_vars

(* The threads run. *)
FairSpec == Spec /\ \A t \in Threads : WF_vars(Delivers(t))

-----------------------------------------------------------------------------
(***************************************************************************)
(* Properties.                                                             *)
(***************************************************************************)

CountedOf(a) == counted \cap Of(a)

TypeOK ==
  /\ count \in [Apps -> 0 .. TotSend]
  /\ pc \in [Threads -> {"idle", "store", "check", "print"}]
  /\ \A t \in Threads : pc[t] # "idle" => hand[t] \in Messages /\ By[hand[t]] = t
  /\ reg \in [Threads -> 0 .. TotSend]
  /\ counted \subseteq Messages
  /\ end \in Nat
  /\ torn \subseteq Threads

(* However many increments are lost, no time is taken, let alone printed,  *)
(* before the last message of the last application has been counted.       *)
NeverEarly ==
  (shown # {} \/ \E t \in Threads : pc[t] = "print") => counted = Messages

(* An application whose messages are all delivered by one thread, as in    *)
(* ppp.h, loses no increment: only threads that overlap lose them.         *)
ExactIfAlone ==
  \A a \in Apps :
    (\A m, n \in Of(a) : By[m] = By[n]) => count[a] = Cardinality(CountedOf(a))

(* What is printed, if no other thread has disturbed it, is the time that  *)
(* has elapsed.  It is not where a second has to be borrowed: useconds,    *)
(* negative then, is subtracted from the second instead of added to it.    *)
TimeIsRight ==
  \A x \in shown : ~x.torn => x.time[1] * Second + x.time[2] = x.end - Start

(* A counter that is full is right and stays so: no thread is left that    *)
(* could set it back.                                                      *)
FullIsFinal == [][\A a \in Apps : count[a] = TotSend => count'[a] = TotSend]_count

(* Some thread does print the time, unless a counter has stayed too low.   *)
PrintedUnlessLost == <>[](shown # {} \/ \E a \in Apps : count[a] < TotSend)
=============================================================================
