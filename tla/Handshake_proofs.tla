-------------------------- MODULE Handshake_proofs --------------------------
(***************************************************************************)
(* Proofs about Handshake, for any number of datagrams the stacks send.    *)
(***************************************************************************)
EXTENDS Handshake, TLAPS

(* Side s is past this line of its script. *)
Knocked(s) == IF s = "first" THEN step[s] >= 2 ELSE step[s] >= 4

Bound(s) == IF s = "first" THEN step[s] >= 4 ELSE step[s] >= 2

Answered(s) == IF s = "first" THEN step[s] >= 5 ELSE step[s] >= 3

Kinds == {"hello", "reply", "data"}

Datagrams == [to : Sockets, kind : Kinds, num : Nat]

Readings == {"hear", "answer", "deliver"} \X Kinds

Losses == [why : {"lost", "no socket"}, what : Datagrams]

Types ==
  /\ step \in [Sides -> 1 .. 6]
  /\ open \subseteq Sockets
  /\ net \subseteq Datagrams
  /\ inbox \in [Sockets -> Seq(Kinds)]
  /\ sent \in [Sides -> 0 .. Data]
  /\ taken \in [Sides -> Seq(Readings)]
  /\ missed \subseteq Losses

(* How far one side can be before the other.                               *)
Order ==
  /\ Answered("second") => Knocked("first")
  /\ step["first"] >= 3 => Answered("second")
  /\ step["second"] > 4 => step["first"] > 4
  /\ step["first"] > 4 => step["second"] >= 4

(* Which sockets are open by then, and whose stack may run.                *)
Opened ==
  /\ \A s \in Sides : Knocked(s) /\ ~Gone(s) => SendSock(s) \in open
  /\ \A s \in Sides : Bound(s) /\ ~Gone(s) => RecvSock(s) \in open
  /\ \A k \in Sockets : inbox[k] # <<>> => k \in open \/ Gone(k[1])
  /\ \A s \in Sides : sent[s] > 0 => Through(s)

(* A datagram of this kind for socket k has been sent by the other side. *)
Earned(kind, k) ==
  \/ kind = "hello" /\ \E s \in Sides : k = RecvSock(s) /\ Knocked(Other(s))
  \/ kind = "reply" /\ \E s \in Sides : k = SendSock(s) /\ Answered(Other(s))
  \/ kind = "data" /\ \E s \in Sides : k = RecvSock(s) /\ Through(Other(s))

Mail ==
  /\ \A d \in net : Earned(d.kind, d.to)
  /\ \A k \in Sockets : \A i \in DOMAIN inbox[k] : Earned(inbox[k][i], k)

HelloFor(s) == Datagram(RecvSock(s), "hello", 0)

(* A side's one hello is under way, or waits to be read, or is gone. *)
OneHelloFor(s) ==
  /\ Answered(s) => HelloFor(s) \notin net
  /\ \A i \in DOMAIN inbox[RecvSock(s)] : inbox[RecvSock(s)][i] = "hello" =>
       /\ ~Answered(s)
       /\ HelloFor(s) \notin net
       /\ \A j \in DOMAIN inbox[RecvSock(s)] : inbox[RecvSock(s)][j] = "hello" => i = j

OneHello ==
  /\ \A d \in net : d.kind = "hello" => d.num = 0
  /\ \A s \in Sides : OneHelloFor(s)

SetUpInv ==
  /\ Types
  /\ Order
  /\ Opened
  /\ Mail
  /\ OneHello
  /\ NoMixup
  /\ OnlyHelloTooEarly

-----------------------------------------------------------------------------
(***************************************************************************)
(* The scripts, spelled out.                                               *)
(***************************************************************************)

LEMMA OtherSide ==
  /\ Sides = {"first", "second"}
  /\ Other("first") = "second" /\ Other("second") = "first"
<1>1. \A o \in Sides : o # "first" => o = "second"
  BY DEF Sides
<1>2. \A o \in Sides : o # "second" => o = "first"
  BY DEF Sides
<1>3. Other("first") \in Sides /\ Other("first") # "first"
  BY DEF Other, Sides
<1>4. Other("second") \in Sides /\ Other("second") # "second"
  BY DEF Other, Sides
<1> QED
  BY <1>1, <1>2, <1>3, <1>4 DEF Sides

LEMMA ScriptLen == \A s \in Sides : Len(Script[s]) = 4
BY DEF Sides, Script

LEMMA ScriptLines ==
  /\ Script["first"][1] = "knock" /\ Script["first"][2] = "hear"
  /\ Script["first"][3] = "bind" /\ Script["first"][4] = "answer"
  /\ Script["second"][1] = "bind" /\ Script["second"][2] = "answer"
  /\ Script["second"][3] = "knock" /\ Script["second"][4] = "hear"
BY DEF Sides, Script

(* Where a side is when it does something, and that it goes on from there. *)
LEMMA DoesWhere ==
  ASSUME Types, NEW s \in Sides, NEW what, Does(s, what)
  PROVE  /\ step' = [step EXCEPT ![s] = @ + 1]
         /\ what = "knock" => step[s] = IF s = "first" THEN 1 ELSE 3
         /\ what = "hear" => step[s] = IF s = "first" THEN 2 ELSE 4
         /\ what = "bind" => step[s] = IF s = "first" THEN 3 ELSE 1
         /\ what = "answer" => step[s] = IF s = "first" THEN 4 ELSE 2
         /\ step[s] \in 1 .. 4
<1>1. step[s] \in 1 .. 4 /\ Script[s][step[s]] = what
  <2>1. Len(Script[s]) = 4 /\ step[s] \in 1 .. 6
    BY ScriptLen DEF Types
  <2> QED
    BY <2>1 DEF Does
<1>2. step[s] = 1 \/ step[s] = 2 \/ step[s] = 3 \/ step[s] = 4
  BY <1>1
<1>3. s = "first" \/ s = "second"
  BY DEF Sides
<1>4. step' = [step EXCEPT ![s] = @ + 1]
  BY DEF Does
<1> QED
  BY <1>1, <1>2, <1>3, <1>4, ScriptLines

LEMMA StepNames ==
  ASSUME NEW s \in Sides
  PROVE  /\ Through(s) <=> step[s] > 4
         /\ Established(s) <=> step[s] = 5
         /\ Gone(s) <=> step[s] = 6
<1>1. Len(Script[s]) = 4
  BY ScriptLen
<1>2. Len(Script[s]) + 1 = 5 /\ Len(Script[s]) + 2 = 6
  BY <1>1
<1> QED
  BY <1>1, <1>2, Zenon DEF Through, Established, Gone

LEMMA StepNamesNext ==
  ASSUME NEW s \in Sides
  PROVE  /\ Through(s)' <=> step'[s] > 4
         /\ Gone(s)' <=> step'[s] = 6
<1>1. Len(Script[s]) = 4
  BY ScriptLen
<1>2. Len(Script[s]) + 2 = 6
  BY <1>1
<1> QED
  BY <1>1, <1>2, Zenon DEF Through, Gone

-----------------------------------------------------------------------------
(***************************************************************************)
(* Types.                                                                  *)
(***************************************************************************)

LEMMA SocketTypes ==
  \A s \in Sides : SendSock(s) \in Sockets /\ RecvSock(s) \in Sockets /\ Other(s) \in Sides
BY OtherSide DEF Sockets

(* Take reads the first of a socket's datagrams and leaves the others. *)
LEMMA TakeDoes ==
  ASSUME Types, NEW s \in Sides, NEW k \in Sockets, NEW who \in {"hear", "answer", "deliver"},
         Take(s, k, who)
  PROVE  /\ inbox' \in [Sockets -> Seq(Kinds)]
         /\ taken' \in [Sides -> Seq(Readings)]
         /\ inbox[k] # <<>> /\ 1 \in DOMAIN inbox[k]
         /\ \A r \in Sockets \ {k} : inbox'[r] = inbox[r]
         /\ \A i \in DOMAIN inbox'[k] : i + 1 \in DOMAIN inbox[k] /\ inbox'[k][i] = inbox[k][i + 1]
         /\ \A r \in Sides : \A i \in DOMAIN taken'[r] :
              \/ i \in DOMAIN taken[r] /\ taken'[r][i] = taken[r][i]
              \/ r = s /\ taken'[r][i] = <<who, inbox[k][1]>>
<1>1. inbox[k] \in Seq(Kinds) /\ inbox[k] # <<>>
  BY DEF Take, Types
<1>2. Tail(inbox[k]) \in Seq(Kinds) /\ Head(inbox[k]) = inbox[k][1] /\ inbox[k][1] \in Kinds
      /\ 1 \in DOMAIN inbox[k]
      /\ \A i \in DOMAIN Tail(inbox[k]) :
           i + 1 \in DOMAIN inbox[k] /\ Tail(inbox[k])[i] = inbox[k][i + 1]
  BY <1>1
<1>3. inbox' = [inbox EXCEPT ![k] = Tail(@)]
      /\ taken' = [taken EXCEPT ![s] = Append(@, <<who, inbox[k][1]>>)]
  BY <1>2 DEF Take
<1>4. <<who, inbox[k][1]>> \in Readings
  BY <1>2 DEF Readings
<1>5. taken[s] \in Seq(Readings)
  BY DEF Types
<1>6. Append(taken[s], <<who, inbox[k][1]>>) \in Seq(Readings)
      /\ \A i \in DOMAIN Append(taken[s], <<who, inbox[k][1]>>) :
           \/ i \in DOMAIN taken[s] /\ Append(taken[s], <<who, inbox[k][1]>>)[i] = taken[s][i]
           \/ Append(taken[s], <<who, inbox[k][1]>>)[i] = <<who, inbox[k][1]>>
  BY <1>4, <1>5
<1>7. inbox'[k] = Tail(inbox[k]) /\ \A r \in Sockets \ {k} : inbox'[r] = inbox[r]
  BY <1>3 DEF Types
<1>8. taken'[s] = Append(taken[s], <<who, inbox[k][1]>>)
      /\ \A r \in Sides \ {s} : taken'[r] = taken[r]
  BY <1>3 DEF Types
<1>9. inbox' \in [Sockets -> Seq(Kinds)] /\ taken' \in [Sides -> Seq(Readings)]
  BY <1>2, <1>3, <1>6 DEF Types
<1>10. ASSUME NEW r \in Sides, NEW i \in DOMAIN taken'[r]
       PROVE  \/ i \in DOMAIN taken[r] /\ taken'[r][i] = taken[r][i]
              \/ r = s /\ taken'[r][i] = <<who, inbox[k][1]>>
  <2>1. CASE r = s
    BY <1>6, <1>8, <1>10, <2>1
  <2>2. CASE r # s
    BY <1>8, <1>10, <2>2
  <2> QED
    BY <2>1, <2>2
<1>11. \A i \in DOMAIN inbox'[k] :
         i + 1 \in DOMAIN inbox[k] /\ inbox'[k][i] = inbox[k][i + 1]
  BY <1>2, <1>7
<1> QED
  BY <1>1, <1>2, <1>7, <1>9, <1>10, <1>11

LEMMA InitTypes == Init => Types
BY DataAssumption DEF Init, Types, Sockets, Kinds, Readings, Datagrams

LEMMA NextTypes == Types /\ [Next]_vars => Types'
<1> SUFFICES ASSUME Types, [Next]_vars PROVE Types'
  OBVIOUS
<1> USE DataAssumption
<1>a. ASSUME NEW s \in Sides, NEW what, Does(s, what)
      PROVE step' \in [Sides -> 1 .. 6] /\ sent' = sent /\ missed' = missed
  <2>1. step' = [step EXCEPT ![s] = @ + 1] /\ step[s] \in 1 .. 4
    BY <1>a, DoesWhere
  <2> QED
    BY <1>a, <2>1 DEF Types, Does
<1>b. ASSUME NEW s \in Sides, NEW kind \in Kinds, NEW n \in Nat
      PROVE /\ Datagram(RecvSock(s), kind, n) \in Datagrams
            /\ Datagram(SendSock(s), kind, n) \in Datagrams
  BY SocketTypes DEF Datagram, Datagrams
<1>c. "hello" \in Kinds /\ "reply" \in Kinds /\ "data" \in Kinds
  BY DEF Kinds
<1>1. ASSUME NEW s \in Sides, Knock(s) PROVE Types'
  <2>1. step' \in [Sides -> 1 .. 6] /\ sent' = sent /\ missed' = missed
    BY <1>1, <1>a DEF Knock
  <2>2. net' \subseteq Datagrams /\ open' \subseteq Sockets
    BY <1>1, <1>b, <1>c, SocketTypes, OtherSide DEF Knock, Types
  <2> QED
    BY <1>1, <2>1, <2>2 DEF Knock, Types
<1>2. ASSUME NEW s \in Sides, Hear(s) PROVE Types'
  <2>1. step' \in [Sides -> 1 .. 6] /\ sent' = sent /\ missed' = missed
    BY <1>2, <1>a DEF Hear
  <2>2. inbox' \in [Sockets -> Seq(Kinds)] /\ taken' \in [Sides -> Seq(Readings)]
    BY <1>2, TakeDoes, SocketTypes DEF Hear
  <2> QED
    BY <1>2, <2>1, <2>2 DEF Hear, Types
<1>3. ASSUME NEW s \in Sides, Bind(s) PROVE Types'
  <2>1. step' \in [Sides -> 1 .. 6] /\ sent' = sent /\ missed' = missed
    BY <1>3, <1>a DEF Bind
  <2> QED
    BY <1>3, <2>1, SocketTypes DEF Bind, Types
<1>4. ASSUME NEW s \in Sides, Answer(s) PROVE Types'
  <2>1. step' \in [Sides -> 1 .. 6] /\ sent' = sent /\ missed' = missed
    BY <1>4, <1>a DEF Answer
  <2>2. inbox' \in [Sockets -> Seq(Kinds)] /\ taken' \in [Sides -> Seq(Readings)]
    BY <1>4, TakeDoes, SocketTypes DEF Answer
  <2>3. net' \subseteq Datagrams
    BY <1>4, <1>b, <1>c, OtherSide DEF Answer, Types
  <2> QED
    BY <1>4, <2>1, <2>2, <2>3 DEF Answer, Types
<1>5. ASSUME NEW s \in Sides, Send(s) PROVE Types'
  <2>1. sent[s] \in Nat /\ sent[s] < Data /\ sent' = [sent EXCEPT ![s] = @ + 1]
    BY <1>5 DEF Send, Types
  <2>2. sent' \in [Sides -> 0 .. Data]
    BY <2>1 DEF Types
  <2>3. Other(s) \in Sides /\ sent[s] + 1 \in Nat
    BY <2>1, OtherSide
  <2>4. net' \subseteq Datagrams
    BY <1>5, <1>b, <1>c, <2>3 DEF Send, Types
  <2> QED
    BY <1>5, <2>2, <2>4 DEF Send, Types
<1>6. ASSUME NEW s \in Sides, Deliver(s) PROVE Types'
  <2>1. inbox' \in [Sockets -> Seq(Kinds)] /\ taken' \in [Sides -> Seq(Readings)]
    BY <1>6, TakeDoes, SocketTypes DEF Deliver
  <2> QED
    BY <1>6, <2>1 DEF Deliver, Types
<1>7. ASSUME NEW s \in Sides, Leave(s) PROVE Types'
  <2>1. step[s] = 5
    BY <1>7, StepNames DEF Leave
  <2>2. step' \in [Sides -> 1 .. 6]
    BY <1>7, <2>1 DEF Leave, Types
  <2> QED
    BY <1>7, <2>2 DEF Leave, Types
<1>8. ASSUME NEW d \in net, Arrive(d) PROVE Types'
  <2>1. d.to \in Sockets /\ d.kind \in Kinds /\ d \in Datagrams
    BY DEF Types, Datagrams
  <2>2. inbox' \in [Sockets -> Seq(Kinds)]
    <3>1. inbox[d.to] \in Seq(Kinds)
      BY <2>1 DEF Types
    <3>2. Append(inbox[d.to], d.kind) \in Seq(Kinds)
      BY <2>1, <3>1
    <3> QED
      BY <1>8, <2>1, <3>2 DEF Arrive, Types
  <2>3. missed' \subseteq Losses
    <3>1. [why |-> "no socket", what |-> d] \in Losses
      BY <2>1 DEF Losses
    <3> QED
      BY <1>8, <3>1 DEF Arrive, Types
  <2> QED
    BY <1>8, <2>2, <2>3 DEF Arrive, Types
<1>9. ASSUME NEW d \in net, Lose(d) PROVE Types'
  <2>1. d \in Datagrams
    BY DEF Types
  <2>2. [why |-> "lost", what |-> d] \in Losses
    BY <2>1 DEF Losses
  <2> QED
    BY <1>9, <2>2 DEF Lose, Types
<1>10. CASE UNCHANGED vars
  BY <1>10 DEF vars, Types
<1> QED
  BY <1>1, <1>2, <1>3, <1>4, <1>5, <1>6, <1>7, <1>8, <1>9, <1>10 DEF Next, Acts

-----------------------------------------------------------------------------
(***************************************************************************)
(* The order in which the two sides get through.                           *)
(***************************************************************************)

(* A side that reads an answer, or a hello, knows how far the other is.    *)
LEMMA HearsReply ==
  ASSUME SetUpInv, NEW s \in Sides, Hear(s)
  PROVE  inbox[SendSock(s)][1] = "reply" /\ Answered(Other(s))
<1>1. 1 \in DOMAIN inbox[SendSock(s)]
  BY TakeDoes, SocketTypes DEF Hear, SetUpInv
<1>2. Earned(inbox[SendSock(s)][1], SendSock(s))
  BY <1>1, SocketTypes DEF SetUpInv, Mail
<1>3. \A r \in Sides : SendSock(s) # RecvSock(r) /\ (SendSock(s) = SendSock(r) => r = s)
  BY DEF SendSock, RecvSock
<1> QED
  BY <1>2, <1>3 DEF Earned

LEMMA AnswersHello ==
  ASSUME SetUpInv, NEW s \in Sides, Answer(s)
  PROVE  inbox[RecvSock(s)][1] = "hello" /\ Knocked(Other(s))
<1>1. 1 \in DOMAIN inbox[RecvSock(s)]
  BY TakeDoes, SocketTypes DEF Answer, SetUpInv
<1>2. Earned(inbox[RecvSock(s)][1], RecvSock(s))
  BY <1>1, SocketTypes DEF SetUpInv, Mail
<1>3. \A r \in Sides : RecvSock(s) # SendSock(r) /\ (RecvSock(s) = RecvSock(r) => r = s)
  BY DEF SendSock, RecvSock
<1>4. \/ inbox[RecvSock(s)][1] = "hello" /\ Knocked(Other(s))
      \/ Through(Other(s))
  BY <1>2, <1>3 DEF Earned
<1>5. step[s] = IF s = "first" THEN 4 ELSE 2
  BY DoesWhere DEF Answer, SetUpInv
<1>6. ~Through(Other(s))
  <2>1. \A r \in Sides : step[r] \in 1 .. 6
    BY DEF SetUpInv, Types
  <2>2. ~(step[Other(s)] > 4)
    BY <1>5, <2>1, OtherSide DEF SetUpInv, Order
  <2> QED
    BY <2>2, StepNames, OtherSide
<1> QED
  BY <1>4, <1>6

(* How a step of the script moves a side on. *)
LEMMA DoesMoves ==
  ASSUME Types, NEW s \in Sides, NEW what, Does(s, what)
  PROVE  /\ step'[s] = step[s] + 1
         /\ \A r \in Sides \ {s} : step'[r] = step[r]
         /\ sent' = sent /\ missed' = missed
BY DoesWhere DEF Does, Types

LEMMA NextOrder == SetUpInv /\ [Next]_vars => Order'
<1> SUFFICES ASSUME SetUpInv, [Next]_vars PROVE Order'
  OBVIOUS
<1>a. Order /\ Types /\ Sides = {"first", "second"}
  BY DEF SetUpInv, Sides
<1>b. step["first"] \in 1 .. 6 /\ step["second"] \in 1 .. 6
  BY <1>a DEF Types
<1>1. ASSUME NEW s \in Sides, Knock(s) PROVE Order'
  <2>1. step[s] = IF s = "first" THEN 1 ELSE 3
    BY <1>1, <1>a, DoesWhere DEF Knock
  <2>2. step'[s] = step[s] + 1 /\ \A r \in Sides \ {s} : step'[r] = step[r]
    BY <1>1, <1>a, DoesMoves DEF Knock
  <2> QED
    BY <1>a, <1>b, <2>1, <2>2 DEF Order, Answered, Knocked
<1>2. ASSUME NEW s \in Sides, Hear(s) PROVE Order'
  <2>1. step[s] = IF s = "first" THEN 2 ELSE 4
    BY <1>2, <1>a, DoesWhere DEF Hear
  <2>2. step'[s] = step[s] + 1 /\ \A r \in Sides \ {s} : step'[r] = step[r]
    BY <1>2, <1>a, DoesMoves DEF Hear
  <2>3. Answered(Other(s))
    BY <1>2, HearsReply
  <2> QED
    BY <1>a, <1>b, <2>1, <2>2, <2>3, OtherSide DEF Order, Answered, Knocked
<1>3. ASSUME NEW s \in Sides, Bind(s) PROVE Order'
  <2>1. step[s] = IF s = "first" THEN 3 ELSE 1
    BY <1>3, <1>a, DoesWhere DEF Bind
  <2>2. step'[s] = step[s] + 1 /\ \A r \in Sides \ {s} : step'[r] = step[r]
    BY <1>3, <1>a, DoesMoves DEF Bind
  <2> QED
    BY <1>a, <1>b, <2>1, <2>2 DEF Order, Answered, Knocked
<1>4. ASSUME NEW s \in Sides, Answer(s) PROVE Order'
  <2>1. step[s] = IF s = "first" THEN 4 ELSE 2
    BY <1>4, <1>a, DoesWhere DEF Answer
  <2>2. step'[s] = step[s] + 1 /\ \A r \in Sides \ {s} : step'[r] = step[r]
    BY <1>4, <1>a, DoesMoves DEF Answer
  <2>3. Knocked(Other(s))
    BY <1>4, AnswersHello
  <2> QED
    BY <1>a, <1>b, <2>1, <2>2, <2>3, OtherSide DEF Order, Answered, Knocked
<1>5. ASSUME NEW s \in Sides, Leave(s) PROVE Order'
  <2>1. step[s] = 5
    BY <1>5, StepNames DEF Leave
  <2>2. step'[s] = step[s] + 1 /\ \A r \in Sides \ {s} : step'[r] = step[r]
    BY <1>5, <1>a DEF Leave, Types
  <2> QED
    BY <1>a, <1>b, <2>1, <2>2 DEF Order, Answered, Knocked
<1>6. ASSUME step' = step PROVE Order'
  BY <1>a, <1>6 DEF Order, Answered, Knocked
<1> QED
  BY <1>1, <1>2, <1>3, <1>4, <1>5, <1>6 DEF Next, Acts, Send, Deliver, Arrive, Lose, vars

(* No side goes back, so that what is true of how far it is stays true. *)
LEMMA Onward ==
  ASSUME Types, [Next]_vars
  PROVE  /\ \A s \in Sides : step[s] \in Nat /\ step'[s] \in Nat /\ step'[s] >= step[s]
         /\ \A s \in Sides : Knocked(s) => Knocked(s)'
         /\ \A s \in Sides : Answered(s) => Answered(s)'
         /\ \A s \in Sides : Through(s) => Through(s)'
         /\ \A s \in Sides : Gone(s) => Gone(s)'
         /\ \A kind, k : Earned(kind, k) => Earned(kind, k)'
<1>1. \A s \in Sides : step[s] \in 1 .. 6 /\ step'[s] \in 1 .. 6
  BY NextTypes DEF Types
<1>2. \A s \in Sides : step'[s] >= step[s]
  <2>1. ASSUME NEW s \in Sides, NEW what, Does(s, what)
        PROVE \A r \in Sides : step'[r] >= step[r]
    BY <1>1, <2>1, DoesMoves
  <2>2. ASSUME NEW s \in Sides, Leave(s) PROVE \A r \in Sides : step'[r] >= step[r]
    <3>1. step'[s] = step[s] + 1 /\ \A r \in Sides \ {s} : step'[r] = step[r]
      BY <2>2 DEF Leave, Types
    <3> QED
      BY <1>1, <3>1
  <2>3. ASSUME step' = step PROVE \A r \in Sides : step'[r] >= step[r]
    BY <1>1, <2>3
  <2> QED
    BY <2>1, <2>2, <2>3
       DEF Next, Acts, Knock, Hear, Bind, Answer, Send, Deliver, Arrive, Lose, vars
<1>3. ASSUME NEW s \in Sides
      PROVE /\ Knocked(s) => Knocked(s)'
            /\ Answered(s) => Answered(s)'
            /\ Through(s) => Through(s)'
            /\ Gone(s) => Gone(s)'
  BY <1>1, <1>2, StepNames, StepNamesNext DEF Knocked, Answered
<1>4. \A kind, k : Earned(kind, k) => Earned(kind, k)'
  BY <1>3, OtherSide DEF Earned, RecvSock, SendSock
<1> QED
  BY <1>1, <1>2, <1>3, <1>4

LEMMA NextOpened == SetUpInv /\ [Next]_vars => Opened'
<1> SUFFICES ASSUME SetUpInv, [Next]_vars PROVE Opened'
  OBVIOUS
<1>a. Opened /\ Types
  BY DEF SetUpInv
<1>b. /\ \A s \in Sides : Through(s) => Through(s)'
      /\ \A s \in Sides : Gone(s) => Gone(s)'
      /\ \A k \in Sockets : Gone(k[1]) => Gone(k[1])'
  <2>1. \A k \in Sockets : k[1] \in Sides
    BY DEF Sockets, SendSock, RecvSock
  <2> QED
    BY <1>a, <2>1, Onward
<1>c. \A s, r \in Sides : /\ SendSock(s) # RecvSock(r)
                          /\ SendSock(s) = SendSock(r) => s = r
                          /\ RecvSock(s) = RecvSock(r) => s = r
                          /\ SendSock(s)[1] = s /\ RecvSock(s)[1] = s
  BY DEF SendSock, RecvSock
<1>d. \A s \in Sides : step[s] \in 1 .. 6
  BY <1>a DEF Types
<1>1. ASSUME NEW s \in Sides, Knock(s) PROVE Opened'
  <2>1. step[s] = IF s = "first" THEN 1 ELSE 3
    BY <1>1, <1>a, DoesWhere DEF Knock
  <2>2. step'[s] = step[s] + 1 /\ \A r \in Sides \ {s} : step'[r] = step[r]
    BY <1>1, <1>a, DoesMoves DEF Knock
  <2>3. Bound(s)' => Bound(s)
    BY <2>1, <2>2 DEF Bound
  <2>4. ~Gone(s)
    BY <2>1, StepNames
  <2>5. \A r \in Sides \ {s} : /\ Knocked(r)' = Knocked(r) /\ Bound(r)' = Bound(r)
                               /\ Gone(r)' <=> Gone(r)
    BY <2>2, StepNames, StepNamesNext DEF Knocked, Bound
  <2>6. open' = open \cup {SendSock(s)} /\ inbox' = inbox /\ sent' = sent
    BY <1>1 DEF Knock, Does
  <2> QED
    BY <1>a, <1>b, <2>3, <2>4, <2>5, <2>6 DEF Opened, SendSock
<1>2. ASSUME NEW s \in Sides, Hear(s) PROVE Opened'
  <2>1. step[s] = IF s = "first" THEN 2 ELSE 4
    BY <1>2, <1>a, DoesWhere DEF Hear
  <2>2. step'[s] = step[s] + 1 /\ \A r \in Sides \ {s} : step'[r] = step[r]
    BY <1>2, <1>a, DoesMoves DEF Hear
  <2>3. ~Gone(s) /\ (Knocked(s)' => Knocked(s)) /\ (Bound(s)' => Bound(s))
    BY <2>1, <2>2, StepNames DEF Knocked, Bound
  <2>4. \A r \in Sides \ {s} : /\ Knocked(r)' = Knocked(r) /\ Bound(r)' = Bound(r)
                               /\ Gone(r)' <=> Gone(r)
    BY <2>2, StepNames, StepNamesNext DEF Knocked, Bound
  <2>5. open' = open /\ sent' = sent
    BY <1>2 DEF Hear, Does
  <2>6. \A k \in Sockets : inbox'[k] # <<>> => inbox[k] # <<>>
    BY <1>2, <1>a, TakeDoes, SocketTypes DEF Hear
  <2> QED
    BY <1>a, <1>b, <2>3, <2>4, <2>5, <2>6 DEF Opened
<1>3. ASSUME NEW s \in Sides, Bind(s) PROVE Opened'
  <2>1. step[s] = IF s = "first" THEN 3 ELSE 1
    BY <1>3, <1>a, DoesWhere DEF Bind
  <2>2. step'[s] = step[s] + 1 /\ \A r \in Sides \ {s} : step'[r] = step[r]
    BY <1>3, <1>a, DoesMoves DEF Bind
  <2>3. ~Gone(s) /\ (Knocked(s)' => Knocked(s))
    BY <2>1, <2>2, StepNames DEF Knocked
  <2>4. \A r \in Sides \ {s} : /\ Knocked(r)' = Knocked(r) /\ Bound(r)' = Bound(r)
                               /\ Gone(r)' <=> Gone(r)
    BY <2>2, StepNames, StepNamesNext DEF Knocked, Bound
  <2>5. open' = open \cup {RecvSock(s)} /\ inbox' = inbox /\ sent' = sent
    BY <1>3 DEF Bind, Does
  <2> QED
    BY <1>a, <1>b, <2>3, <2>4, <2>5 DEF Opened, RecvSock
<1>4. ASSUME NEW s \in Sides, Answer(s) PROVE Opened'
  <2>1. step[s] = IF s = "first" THEN 4 ELSE 2
    BY <1>4, <1>a, DoesWhere DEF Answer
  <2>2. step'[s] = step[s] + 1 /\ \A r \in Sides \ {s} : step'[r] = step[r]
    BY <1>4, <1>a, DoesMoves DEF Answer
  <2>3. ~Gone(s) /\ (Knocked(s)' => Knocked(s)) /\ (Bound(s)' => Bound(s))
    BY <2>1, <2>2, StepNames DEF Knocked, Bound
  <2>4. \A r \in Sides \ {s} : /\ Knocked(r)' = Knocked(r) /\ Bound(r)' = Bound(r)
                               /\ Gone(r)' <=> Gone(r)
    BY <2>2, StepNames, StepNamesNext DEF Knocked, Bound
  <2>5. open' = open /\ sent' = sent
    BY <1>4 DEF Answer, Does
  <2>6. \A k \in Sockets : inbox'[k] # <<>> => inbox[k] # <<>>
    BY <1>4, <1>a, TakeDoes, SocketTypes DEF Answer
  <2> QED
    BY <1>a, <1>b, <2>3, <2>4, <2>5, <2>6 DEF Opened
<1>5. ASSUME NEW s \in Sides, Leave(s) PROVE Opened'
  <2>1. step[s] = 5
    BY <1>5, StepNames DEF Leave
  <2>2. step'[s] = step[s] + 1 /\ \A r \in Sides \ {s} : step'[r] = step[r]
    BY <1>5, <1>a DEF Leave, Types
  <2>3. Gone(s)'
    BY <2>1, <2>2, StepNamesNext
  <2>4. \A r \in Sides \ {s} : /\ Knocked(r)' = Knocked(r) /\ Bound(r)' = Bound(r)
                               /\ Gone(r)' <=> Gone(r)
    BY <2>2, StepNames, StepNamesNext DEF Knocked, Bound
  <2>5. open' = open \ {SendSock(s), RecvSock(s)} /\ inbox' = inbox /\ sent' = sent
    BY <1>5 DEF Leave
  <2>6. \A k \in Sockets : inbox'[k] # <<>> => k \in open' \/ Gone(k[1])'
    BY <1>a, <1>b, <1>c, <2>3, <2>5 DEF Opened
  <2> QED
    BY <1>a, <1>b, <1>c, <2>3, <2>4, <2>5, <2>6 DEF Opened
<1>6. ASSUME step' = step, open' = open, sent' = sent,
             \A k \in Sockets : inbox'[k] # <<>> => inbox[k] # <<>> \/ k \in open
      PROVE Opened'
  <2>1. \A r \in Sides : /\ Knocked(r)' = Knocked(r) /\ Bound(r)' = Bound(r)
                         /\ Gone(r)' <=> Gone(r)
    BY <1>6, StepNames, StepNamesNext DEF Knocked, Bound
  <2> QED
    BY <1>a, <1>b, <1>6, <2>1 DEF Opened
<1>7. ASSUME NEW s \in Sides, Send(s) PROVE Opened'
  <2>1. Through(s)
    BY <1>7, StepNames DEF Send
  <2>2. \A r \in Sides : sent'[r] > 0 => sent[r] > 0 \/ r = s
    BY <1>7, <1>a DEF Send, Types
  <2>3. step' = step /\ open' = open /\ inbox' = inbox
    BY <1>7 DEF Send
  <2>4. \A r \in Sides : /\ Knocked(r)' = Knocked(r) /\ Bound(r)' = Bound(r)
                         /\ Gone(r)' <=> Gone(r)
    BY <2>3, StepNames, StepNamesNext DEF Knocked, Bound
  <2> QED
    BY <1>a, <1>b, <2>1, <2>2, <2>3, <2>4 DEF Opened
<1>8. ASSUME NEW s \in Sides, Deliver(s) PROVE Opened'
  <2>1. \A k \in Sockets : inbox'[k] # <<>> => inbox[k] # <<>>
    BY <1>8, <1>a, TakeDoes, SocketTypes DEF Deliver
  <2> QED
    BY <1>6, <1>8, <2>1 DEF Deliver
<1>9. ASSUME NEW d \in net, Arrive(d) PROVE Opened'
  <2>1. \A k \in Sockets : inbox'[k] # <<>> => inbox[k] # <<>> \/ k \in open
    BY <1>9, <1>a DEF Arrive, Types
  <2> QED
    BY <1>6, <1>9, <2>1 DEF Arrive
<1>10. ASSUME NEW d \in net, Lose(d) PROVE Opened'
  BY <1>6, <1>10 DEF Lose
<1>11. CASE UNCHANGED vars
  BY <1>6, <1>11 DEF vars
<1> QED
  BY <1>1, <1>2, <1>3, <1>4, <1>5, <1>7, <1>8, <1>9, <1>10, <1>11 DEF Next, Acts

-----------------------------------------------------------------------------
(***************************************************************************)
(* Datagrams.                                                              *)
(***************************************************************************)

(* A step adds at most one datagram to the network. *)
LEMMA NetMoves ==
  ASSUME [Next]_vars, NEW d \in net'
  PROVE  \/ d \in net
         \/ \E s \in Sides : Knock(s) /\ d = HelloFor(Other(s))
         \/ \E s \in Sides : Answer(s) /\ d = Datagram(SendSock(Other(s)), "reply", 0)
         \/ \E s \in Sides : Send(s) /\ d = Datagram(RecvSock(Other(s)), "data", sent[s] + 1)
<1>1. CASE \E s \in Sides : Knock(s) \/ Answer(s) \/ Send(s)
  BY <1>1 DEF Knock, Answer, Send, HelloFor
<1>2. CASE net' \subseteq net
  BY <1>2
<1> QED
  BY <1>1, <1>2 DEF Next, Acts, Hear, Bind, Deliver, Leave, Arrive, Lose, vars

(* A socket loses its first datagram to a reader, or is given one more.    *)
LEMMA InboxMoves ==
  ASSUME Types, [Next]_vars, NEW k \in Sockets
  PROVE  \/ inbox'[k] = inbox[k]
         \/ inbox[k] # <<>> /\ inbox'[k] = Tail(inbox[k])
         \/ \E d \in net : Arrive(d) /\ k = d.to /\ inbox'[k] = Append(inbox[k], d.kind)
<1>1. ASSUME NEW s \in Sides, NEW r \in Sockets, NEW who, Take(s, r, who)
      PROVE  inbox'[k] = inbox[k] \/ (inbox[k] # <<>> /\ inbox'[k] = Tail(inbox[k]))
  BY <1>1 DEF Take, Types
<1>2. ASSUME NEW d \in net, Arrive(d)
      PROVE  inbox'[k] = inbox[k] \/ (k = d.to /\ inbox'[k] = Append(inbox[k], d.kind))
  BY <1>2 DEF Arrive, Types
<1>3. CASE \E s \in Sides : Hear(s) \/ Answer(s) \/ Deliver(s)
  BY <1>1, <1>3, SocketTypes DEF Hear, Answer, Deliver
<1>4. CASE \E d \in net : Arrive(d)
  BY <1>2, <1>4
<1>5. CASE inbox' = inbox
  BY <1>5
<1> QED
  BY <1>3, <1>4, <1>5 DEF Next, Acts, Knock, Bind, Send, Leave, Lose, vars

(* What a socket holds after a step it held before, or it has arrived.     *)
LEMMA InboxPlaces ==
  ASSUME Types, [Next]_vars, NEW k \in Sockets, NEW i \in DOMAIN inbox'[k]
  PROVE  \/ \E j \in DOMAIN inbox[k] : inbox'[k][i] = inbox[k][j]
         \/ \E d \in net : Arrive(d) /\ k = d.to /\ inbox'[k][i] = d.kind
<1>1. inbox[k] \in Seq(Kinds) /\ \A d \in net : d.kind \in Kinds
  BY DEF Types, Datagrams
<1>2. CASE inbox'[k] = inbox[k]
  BY <1>2
<1>3. CASE inbox[k] # <<>> /\ inbox'[k] = Tail(inbox[k])
  <2>1. i + 1 \in DOMAIN inbox[k] /\ Tail(inbox[k])[i] = inbox[k][i + 1]
    BY <1>1, <1>3
  <2> QED
    BY <1>3, <2>1
<1>4. ASSUME NEW d \in net, Arrive(d), k = d.to, inbox'[k] = Append(inbox[k], d.kind)
      PROVE  \/ \E j \in DOMAIN inbox[k] : inbox'[k][i] = inbox[k][j]
             \/ \E e \in net : Arrive(e) /\ k = e.to /\ inbox'[k][i] = e.kind
  <2>1. \/ i \in DOMAIN inbox[k] /\ Append(inbox[k], d.kind)[i] = inbox[k][i]
        \/ Append(inbox[k], d.kind)[i] = d.kind
    BY <1>1, <1>4
  <2> QED
    BY <1>4, <2>1
<1> QED
  BY InboxMoves, <1>2, <1>3, <1>4

LEMMA NextMail == SetUpInv /\ [Next]_vars => Mail'
<1> SUFFICES ASSUME SetUpInv, [Next]_vars PROVE Mail'
  OBVIOUS
<1>a. Types /\ Mail
  BY DEF SetUpInv
<1>b. \A kind, k : Earned(kind, k) => Earned(kind, k)'
  BY <1>a, Onward
<1>c. \A s \in Sides : Other(s) \in Sides /\ Other(Other(s)) = s
  BY OtherSide
<1>1. ASSUME NEW s \in Sides, Knock(s)
      PROVE  Earned("hello", RecvSock(Other(s)))'
  <2>1. step[s] = (IF s = "first" THEN 1 ELSE 3) /\ step'[s] = step[s] + 1
    BY <1>1, <1>a, DoesWhere, DoesMoves DEF Knock
  <2>2. Knocked(s)'
    BY <2>1 DEF Knocked
  <2> QED
    BY <1>c, <2>2 DEF Earned
<1>2. ASSUME NEW s \in Sides, Answer(s)
      PROVE  Earned("reply", SendSock(Other(s)))'
  <2>1. step[s] = (IF s = "first" THEN 4 ELSE 2) /\ step'[s] = step[s] + 1
    BY <1>2, <1>a, DoesWhere, DoesMoves DEF Answer
  <2>2. Answered(s)'
    BY <2>1 DEF Answered
  <2> QED
    BY <1>c, <2>2 DEF Earned
<1>3. ASSUME NEW s \in Sides, Send(s)
      PROVE  Earned("data", RecvSock(Other(s)))'
  <2>1. step[s] = 5 /\ step' = step
    BY <1>3, StepNames DEF Send
  <2>2. Through(s)'
    BY <2>1, StepNamesNext
  <2> QED
    BY <1>c, <2>2 DEF Earned
<1>4. \A d \in net' : Earned(d.kind, d.to)'
  <2> SUFFICES ASSUME NEW d \in net' PROVE Earned(d.kind, d.to)'
    OBVIOUS
  <2>1. CASE d \in net
    BY <1>a, <1>b, <2>1 DEF Mail
  <2>2. ASSUME NEW s \in Sides, Knock(s), d = HelloFor(Other(s)) PROVE Earned(d.kind, d.to)'
    <3>1. d.kind = "hello" /\ d.to = RecvSock(Other(s))
      BY <2>2 DEF HelloFor, Datagram
    <3> QED
      BY <1>1, <2>2, <3>1
  <2>3. ASSUME NEW s \in Sides, Answer(s), d = Datagram(SendSock(Other(s)), "reply", 0)
        PROVE Earned(d.kind, d.to)'
    <3>1. d.kind = "reply" /\ d.to = SendSock(Other(s))
      BY <2>3 DEF Datagram
    <3> QED
      BY <1>2, <2>3, <3>1
  <2>4. ASSUME NEW s \in Sides, Send(s), d = Datagram(RecvSock(Other(s)), "data", sent[s] + 1)
        PROVE Earned(d.kind, d.to)'
    <3>1. d.kind = "data" /\ d.to = RecvSock(Other(s))
      BY <2>4 DEF Datagram
    <3> QED
      BY <1>3, <2>4, <3>1
  <2> QED
    BY NetMoves, <2>1, <2>2, <2>3, <2>4
<1>5. ASSUME NEW k \in Sockets, NEW i \in DOMAIN inbox'[k] PROVE Earned(inbox[k][i], k)'
  <2>1. PICK kind : kind = inbox'[k][i]
    OBVIOUS
  <2>2. Earned(kind, k)
    BY <1>a, <2>1, InboxPlaces DEF Mail
  <2>3. Earned(kind, k)'
    BY <1>b, <2>2
  <2> QED
    BY <2>1, <2>3 DEF Earned, Knocked, Answered, Through
<1> QED
  BY <1>4, <1>5 DEF Mail

(* No hello is under way, or waits, for side s. *)
NoHello(s) ==
  /\ HelloFor(s) \notin net
  /\ \A i \in DOMAIN inbox[RecvSock(s)] : inbox[RecvSock(s)][i] # "hello"

(* Before the other side has sent its hello there is none. *)
LEMMA NoHelloYet ==
  ASSUME SetUpInv, NEW s \in Sides, ~Knocked(Other(s))
  PROVE  NoHello(s)
<1>1. ~Earned("hello", RecvSock(s))
  BY DEF Earned, RecvSock, SendSock
<1>2. HelloFor(s) \notin net
  BY <1>1 DEF SetUpInv, Mail, HelloFor, Datagram
<1>3. \A i \in DOMAIN inbox[RecvSock(s)] : inbox[RecvSock(s)][i] # "hello"
  BY <1>1, SocketTypes DEF SetUpInv, Mail
<1> QED
  BY <1>2, <1>3 DEF NoHello

(* Nor is there one any more when the side has read it. *)
LEMMA NoHelloLeft ==
  ASSUME SetUpInv, NEW s \in Sides, Answered(s)
  PROVE  NoHello(s)
BY DEF SetUpInv, OneHello, OneHelloFor, NoHello

LEMMA NextOneHello == SetUpInv /\ [Next]_vars => OneHello'
<1> SUFFICES ASSUME SetUpInv, [Next]_vars PROVE OneHello'
  OBVIOUS
<1>a. Types /\ OneHello /\ Order /\ \A s \in Sides : step[s] \in 1 .. 6
  BY DEF SetUpInv, Types
<1>b. \A s \in Sides : RecvSock(s) \in Sockets /\ inbox[RecvSock(s)] \in Seq(Kinds)
  BY <1>a, SocketTypes DEF Types
<1>c. \A s, r \in Sides : HelloFor(s) = HelloFor(r) => s = r
  BY DEF HelloFor, Datagram, RecvSock
<1>d. \A s \in Sides : HelloFor(s).num = 0 /\ HelloFor(s).kind = "hello"
  BY DEF HelloFor, Datagram
<1>e. \A k, n : /\ Datagram(k, "reply", n).kind = "reply"
                /\ Datagram(k, "data", n).kind = "data"
  BY DEF Datagram
<1>f. ASSUME NEW s \in Sides, NEW d \in net, d.to = RecvSock(s), d.kind = "hello"
      PROVE  d = HelloFor(s)
  BY <1>a, <1>f DEF Types, OneHello, Datagrams, HelloFor, Datagram
<1>1. \A d \in net' : d.kind = "hello" => d.num = 0
  BY <1>a, <1>d, <1>e, OtherSide, NetMoves DEF OneHello
<1>2. ASSUME NEW s \in Sides PROVE OneHelloFor(s)'
  <2>1. CASE Knock(Other(s))
    <3>1. step[Other(s)] = (IF Other(s) = "first" THEN 1 ELSE 3)
          /\ step'[s] = step[s]
      BY <1>a, <2>1, DoesWhere, DoesMoves, OtherSide DEF Knock
    <3>2. ~Knocked(Other(s)) /\ ~Answered(s)'
      BY <1>a, <3>1, OtherSide DEF Knocked, Answered, Order
    <3>3. NoHello(s) /\ inbox' = inbox
      BY <2>1, <3>2, NoHelloYet DEF Knock
    <3> QED
      BY <3>2, <3>3 DEF OneHelloFor, NoHello
  <2>2. CASE Answer(s)
    <3>1. inbox[RecvSock(s)] # <<>> /\ inbox'[RecvSock(s)] = Tail(inbox[RecvSock(s)])
      BY <1>a, <1>b, <2>2 DEF Answer, Take, Types
    <3>2. inbox[RecvSock(s)][1] = "hello" /\ 1 \in DOMAIN inbox[RecvSock(s)]
      BY <1>b, <2>2, <3>1, AnswersHello
    <3>3. /\ HelloFor(s) \notin net
          /\ \A j \in DOMAIN inbox[RecvSock(s)] : inbox[RecvSock(s)][j] = "hello" => 1 = j
      BY <1>a, <3>2 DEF OneHello, OneHelloFor
    <3>4. HelloFor(s) \notin net'
      BY <1>d, <1>e, <2>2, <3>3 DEF Answer
    <3>5. \A i \in DOMAIN Tail(inbox[RecvSock(s)]) : Tail(inbox[RecvSock(s)])[i] # "hello"
      BY <1>b, <3>1, <3>3
    <3> QED
      BY <3>1, <3>4, <3>5 DEF OneHelloFor, HelloFor, Datagram, RecvSock
  <2>3. CASE ~Knock(Other(s)) /\ ~Answer(s)
    <3>1. HelloFor(s) \in net' => HelloFor(s) \in net
      <4>1. \A r \in Sides : Knock(r) => HelloFor(s) # HelloFor(Other(r))
        BY <1>c, <2>3, OtherSide
      <4> QED
        BY <1>d, <1>e, <4>1, NetMoves
    <3>2. Answered(s)' => Answered(s)
      <4>1. ASSUME NEW what, Does(s, what), what # "answer" PROVE Answered(s)' => Answered(s)
        <5>1. step'[s] = step[s] + 1 /\ step[s] # (IF s = "first" THEN 4 ELSE 2)
          <6>1. step[s] \in 1 .. 4 /\ Script[s][step[s]] = what
            BY <1>a, <4>1, DoesWhere DEF Does
          <6>2. s = "first" \/ s = "second"
            BY OtherSide
          <6> QED
            BY <1>a, <4>1, <6>1, <6>2, ScriptLines, DoesMoves
        <5> QED
          BY <1>a, <5>1 DEF Answered
      <4>2. CASE Leave(s)
        <5>1. step[s] = 5
          BY <4>2, StepNames DEF Leave
        <5> QED
          BY <5>1, OtherSide DEF Answered
      <4>3. CASE step'[s] = step[s]
        BY <4>3 DEF Answered
      <4>4. ASSUME NEW r \in Sides \ {s}, NEW what, Does(r, what) PROVE step'[s] = step[s]
        BY <1>a, <4>4, DoesMoves
      <4>5. ASSUME NEW r \in Sides \ {s}, Leave(r) PROVE step'[s] = step[s]
        BY <1>a, <4>5 DEF Leave, Types
      <4>6. CASE \E r \in Sides : Knock(r) \/ Hear(r) \/ Bind(r)
        BY <4>1, <4>3, <4>4, <4>6 DEF Knock, Hear, Bind
      <4>7. CASE \E r \in Sides : Answer(r)
        BY <2>3, <4>3, <4>4, <4>7 DEF Answer
      <4>8. CASE \E r \in Sides : Leave(r)
        BY <4>2, <4>3, <4>5, <4>8
      <4>9. CASE step' = step
        BY <4>3, <4>9
      <4> QED
        BY <4>6, <4>7, <4>8, <4>9 DEF Next, Acts, Send, Deliver, Arrive, Lose, vars
    <3>3. CASE NoHello(s)
      <4>1. \A i \in DOMAIN inbox'[RecvSock(s)] : inbox'[RecvSock(s)][i] # "hello"
        BY <1>a, <1>b, <1>f, <3>3, InboxPlaces DEF NoHello
      <4> QED
        BY <3>1, <3>3, <4>1 DEF OneHelloFor, NoHello, HelloFor, Datagram, RecvSock
    <3>4. CASE HelloFor(s) \in net
      <4>1. ~Answered(s)' /\ \A i \in DOMAIN inbox[RecvSock(s)] : inbox[RecvSock(s)][i] # "hello"
        BY <1>a, <3>2, <3>4 DEF OneHello, OneHelloFor
      <4>2. CASE Arrive(HelloFor(s))
        <5>1. HelloFor(s) \notin net'
          BY <4>2 DEF Arrive
        <5>2. \/ inbox'[RecvSock(s)] = inbox[RecvSock(s)]
              \/ inbox'[RecvSock(s)] = Append(inbox[RecvSock(s)], "hello")
          <6>1. HelloFor(s).to = RecvSock(s)
            BY DEF HelloFor, Datagram
          <6> QED
            BY <1>a, <1>b, <1>d, <4>2, <6>1 DEF Arrive, Types
        <5>3. \A i, j \in DOMAIN inbox'[RecvSock(s)] :
                inbox'[RecvSock(s)][i] = "hello" /\ inbox'[RecvSock(s)][j] = "hello" => i = j
          <6> DEFINE old == inbox[RecvSock(s)]
                     new == inbox'[RecvSock(s)]
          <6>1. old \in Seq(Kinds) /\ \A i \in DOMAIN old : old[i] # "hello"
            BY <1>b, <4>1
          <6>2. new = old \/ new = Append(old, "hello")
            BY <5>2
          <6> HIDE DEF old, new
          <6>3. CASE new = old
            BY <6>1, <6>3 DEF old, new
          <6>4. CASE new = Append(old, "hello")
            <7>1. \A i \in DOMAIN new : new[i] = "hello" => i = Len(old) + 1
              BY <6>1, <6>4
            <7> QED
              BY <7>1 DEF new
          <6> QED
            BY <6>2, <6>3, <6>4
        <5> QED
          BY <4>1, <5>1, <5>3 DEF OneHelloFor, HelloFor, Datagram, RecvSock
      <4>3. CASE ~Arrive(HelloFor(s))
        <5>1. \A i \in DOMAIN inbox'[RecvSock(s)] : inbox'[RecvSock(s)][i] # "hello"
          BY <1>a, <1>b, <1>f, <4>1, <4>3, InboxPlaces
        <5> QED
          BY <4>1, <5>1 DEF OneHelloFor, RecvSock
      <4> QED
        BY <4>2, <4>3
    <3>5. ASSUME NEW i \in DOMAIN inbox[RecvSock(s)], inbox[RecvSock(s)][i] = "hello"
          PROVE  OneHelloFor(s)'
      <4>1. /\ ~Answered(s)' /\ HelloFor(s) \notin net /\ HelloFor(s) \notin net'
            /\ \A j \in DOMAIN inbox[RecvSock(s)] : inbox[RecvSock(s)][j] = "hello" => i = j
        BY <1>a, <3>1, <3>2, <3>5 DEF OneHello, OneHelloFor
      <4>2. \A m, n \in DOMAIN inbox'[RecvSock(s)] :
              inbox'[RecvSock(s)][m] = "hello" /\ inbox'[RecvSock(s)][n] = "hello" => m = n
        <5>1. CASE inbox'[RecvSock(s)] = inbox[RecvSock(s)]
          BY <4>1, <5>1
        <5>2. CASE inbox[RecvSock(s)] # <<>> /\ inbox'[RecvSock(s)] = Tail(inbox[RecvSock(s)])
          <6>1. \A n \in DOMAIN Tail(inbox[RecvSock(s)]) :
                  /\ n \in Nat /\ n + 1 \in DOMAIN inbox[RecvSock(s)]
                  /\ Tail(inbox[RecvSock(s)])[n] = inbox[RecvSock(s)][n + 1]
            BY <1>b, <5>2
          <6>2. \A m, n \in Nat : m + 1 = n + 1 => m = n
            OBVIOUS
          <6> QED
            BY <4>1, <5>2, <6>1, <6>2
        <5>3. ASSUME NEW d \in net, RecvSock(s) = d.to,
                     inbox'[RecvSock(s)] = Append(inbox[RecvSock(s)], d.kind)
              PROVE  \A m, n \in DOMAIN inbox'[RecvSock(s)] :
                       inbox'[RecvSock(s)][m] = "hello" /\ inbox'[RecvSock(s)][n] = "hello" => m = n
          <6>1. d.kind # "hello" /\ d.kind \in Kinds
            BY <1>a, <1>f, <4>1, <5>3 DEF Types, Datagrams
          <6>2. \A n \in DOMAIN Append(inbox[RecvSock(s)], d.kind) :
                  \/ n \in DOMAIN inbox[RecvSock(s)]
                     /\ Append(inbox[RecvSock(s)], d.kind)[n] = inbox[RecvSock(s)][n]
                  \/ Append(inbox[RecvSock(s)], d.kind)[n] = d.kind
            BY <1>b, <6>1
          <6> QED
            BY <4>1, <5>3, <6>1, <6>2
        <5> QED
          BY <1>a, <1>b, <5>1, <5>2, <5>3, InboxMoves
      <4> QED
        BY <4>1, <4>2 DEF OneHelloFor, HelloFor, Datagram, RecvSock
    <3> QED
      BY <3>3, <3>4, <3>5 DEF NoHello
  <2> QED
    BY <2>1, <2>2, <2>3
<1> QED
  BY <1>1, <1>2 DEF OneHello

(* Nobody reads what is not for him.                                       *)
LEMMA NextNoMixup == SetUpInv /\ [Next]_vars => NoMixup'
<1> SUFFICES ASSUME SetUpInv, [Next]_vars PROVE NoMixup'
  OBVIOUS
<1>a. Types /\ Mail /\ NoMixup
  BY DEF SetUpInv
<1> DEFINE Proper == {<<"hear", "reply">>, <<"answer", "hello">>, <<"deliver", "data">>}
<1>1. ASSUME NEW s \in Sides, NEW k \in Sockets, NEW who \in {"hear", "answer", "deliver"},
             Take(s, k, who), <<who, inbox[k][1]>> \in Proper
      PROVE  NoMixup'
  <2> SUFFICES ASSUME NEW r \in Sides, NEW i \in DOMAIN taken'[r] PROVE taken'[r][i] \in Proper
    BY Zenon DEF NoMixup
  <2>1. \/ i \in DOMAIN taken[r] /\ taken'[r][i] = taken[r][i]
        \/ taken'[r][i] = <<who, inbox[k][1]>>
    BY <1>a, <1>1, TakeDoes
  <2>2. \A n \in DOMAIN taken[r] : taken[r][n] \in Proper
    BY <1>a, Zenon DEF NoMixup
  <2> HIDE DEF Proper
  <2> QED
    BY <1>1, <2>1, <2>2
<1>2. ASSUME NEW s \in Sides, Hear(s) PROVE NoMixup'
  <2>1. <<"hear", inbox[SendSock(s)][1]>> \in Proper
    BY <1>2, HearsReply
  <2> QED
    BY <1>1, <1>2, <2>1, SocketTypes DEF Hear
<1>3. ASSUME NEW s \in Sides, Answer(s) PROVE NoMixup'
  <2>1. <<"answer", inbox[RecvSock(s)][1]>> \in Proper
    BY <1>3, AnswersHello
  <2> QED
    BY <1>1, <1>3, <2>1, SocketTypes DEF Answer
<1>4. ASSUME NEW s \in Sides, Deliver(s) PROVE NoMixup'
  <2>1. step[s] = 5
    BY <1>4, StepNames DEF Deliver
  <2>2. Answered(s)
    BY <2>1, OtherSide DEF Answered
  <2>3. 1 \in DOMAIN inbox[RecvSock(s)]
    BY <1>a, <1>4, TakeDoes, SocketTypes DEF Deliver
  <2>4. Earned(inbox[RecvSock(s)][1], RecvSock(s)) /\ inbox[RecvSock(s)][1] # "hello"
    BY <1>a, <2>2, <2>3, NoHelloLeft, SocketTypes DEF Mail, NoHello
  <2>5. inbox[RecvSock(s)][1] = "data"
    BY <2>4 DEF Earned, RecvSock, SendSock
  <2> QED
    BY <1>1, <1>4, <2>5, SocketTypes DEF Deliver
<1>5. CASE taken' = taken
  BY <1>a, <1>5 DEF NoMixup
<1> QED
  BY <1>2, <1>3, <1>4, <1>5 DEF Next, Acts, Knock, Bind, Send, Leave, Arrive, Lose, vars

(* A reply or a message finds its socket open, as long as its program is   *)
(* there: the other side sends it only after the socket was opened.        *)
LEMMA NextTooEarly == SetUpInv /\ [Next]_vars => OnlyHelloTooEarly'
<1> SUFFICES ASSUME SetUpInv, [Next]_vars PROVE OnlyHelloTooEarly'
  OBVIOUS
<1>a. Types /\ Mail /\ Order /\ Opened /\ OnlyHelloTooEarly
  BY DEF SetUpInv
<1>b. \A s \in Sides : step[s] \in 1 .. 6
  BY <1>a DEF Types
<1>c. \A s \in Sides : Gone(s) => Gone(s)'
  BY <1>a, Onward
<1>d. \A x \in missed : x.what.to[1] \in Sides
  <2>1. \A k \in Sockets : k[1] \in Sides
    BY DEF Sockets, SendSock, RecvSock
  <2>2. \A x \in missed : x.what.to \in Sockets
    BY <1>a DEF Types, Losses, Datagrams
  <2> QED
    BY <2>1, <2>2
<1>e. ASSUME NEW x \in missed, x.why = "no socket"
      PROVE  x.what.kind = "hello" \/ Gone(x.what.to[1])'
  BY <1>a, <1>c, <1>d, <1>e DEF OnlyHelloTooEarly
<1>1. ASSUME NEW d \in net, d.to \notin open, d.kind # "hello"
      PROVE  d.to[1] \in Sides /\ Gone(d.to[1])
  <2>1. Earned(d.kind, d.to)
    BY <1>a DEF Mail
  <2>2. ASSUME NEW s \in Sides, d.to = SendSock(s), Answered(Other(s)) PROVE Gone(s)
    <3>1. Knocked(s)
      BY <1>b, <1>a, <2>2, OtherSide DEF Order, Answered, Knocked
    <3> QED
      BY <1>1, <1>a, <2>2, <3>1 DEF Opened
  <2>3. ASSUME NEW s \in Sides, d.to = RecvSock(s), Through(Other(s)) PROVE Gone(s)
    <3>1. step[Other(s)] > 4
      BY <2>3, StepNames, OtherSide
    <3>2. Bound(s)
      BY <1>b, <1>a, <3>1, OtherSide DEF Order, Bound
    <3> QED
      BY <1>1, <1>a, <2>3, <3>2 DEF Opened
  <2>4. \A s \in Sides : SendSock(s)[1] = s /\ RecvSock(s)[1] = s
    BY DEF SendSock, RecvSock
  <2> QED
    BY <1>1, <2>1, <2>2, <2>3, <2>4 DEF Earned
<1>2. ASSUME NEW d \in net, NEW why, why = "no socket" => d.kind = "hello" \/ Gone(d.to[1])',
             missed' = missed \cup {[why |-> why, what |-> d]}
      PROVE  OnlyHelloTooEarly'
  <2> SUFFICES ASSUME NEW x \in missed', x.why = "no socket"
               PROVE  x.what.kind = "hello" \/ Gone(x.what.to[1])'
    BY DEF OnlyHelloTooEarly
  <2>1. CASE x \in missed
    BY <1>e, <2>1
  <2>2. CASE x = [why |-> why, what |-> d]
    BY <1>2, <2>2
  <2> QED
    BY <1>2, <2>1, <2>2
<1>3. ASSUME NEW d \in net, Arrive(d) PROVE OnlyHelloTooEarly'
  <2>1. CASE missed' = missed
    BY <1>e, <2>1 DEF OnlyHelloTooEarly
  <2>2. CASE d.to \notin open /\ missed' = missed \cup {[why |-> "no socket", what |-> d]}
    <3>1. d.kind = "hello" \/ Gone(d.to[1])'
      BY <1>1, <1>c, <2>2
    <3> QED
      BY <1>2, <2>2, <3>1
  <2> QED
    BY <1>3, <2>1, <2>2 DEF Arrive
<1>4. ASSUME NEW d \in net, Lose(d) PROVE OnlyHelloTooEarly'
  BY <1>2, <1>4 DEF Lose
<1>5. CASE missed' = missed
  BY <1>e, <1>5 DEF OnlyHelloTooEarly
<1> QED
  BY <1>3, <1>4, <1>5
     DEF Next, Acts, Knock, Hear, Bind, Answer, Does, Send, Deliver, Leave, vars

-----------------------------------------------------------------------------
(***************************************************************************)
(* The theorems.                                                           *)
(***************************************************************************)

LEMMA InitSetUp == Init => SetUpInv
<1> SUFFICES ASSUME Init PROVE SetUpInv
  OBVIOUS
<1>1. Types
  BY InitTypes
<1>2. step["first"] = 1 /\ step["second"] = 1 /\ \A s \in Sides : step[s] = 1 /\ sent[s] = 0
  BY OtherSide DEF Init
<1>3. \A k \in Sockets : inbox[k] = <<>>
  BY DEF Init
<1>4. Order
  BY <1>2 DEF Order, Answered, Knocked
<1>5. Opened
  BY <1>2, <1>3 DEF Opened, Knocked, Bound
<1>6. Mail /\ OneHello /\ NoMixup /\ OnlyHelloTooEarly
  BY <1>3, SocketTypes DEF Init, Mail, OneHello, OneHelloFor, NoMixup, OnlyHelloTooEarly
<1> QED
  BY <1>1, <1>4, <1>5, <1>6 DEF SetUpInv

LEMMA NextSetUp == SetUpInv /\ [Next]_vars => SetUpInv'
<1> SUFFICES ASSUME SetUpInv, [Next]_vars PROVE SetUpInv'
  OBVIOUS
<1>1. Types'
  BY NextTypes DEF SetUpInv
<1> QED
  BY <1>1, NextOrder, NextOpened, NextMail, NextOneHello, NextNoMixup, NextTooEarly DEF SetUpInv

LEMMA SetUpAlways == Spec => []SetUpInv
BY InitSetUp, NextSetUp, PTL DEF Spec

LEMMA SetUpImpliesTypeOK == SetUpInv => TypeOK
<1> SUFFICES ASSUME SetUpInv PROVE TypeOK
  OBVIOUS
<1>1. Types /\ Opened
  BY DEF SetUpInv
<1>2. \A s \in Sides : step[s] \in 1 .. 6
  BY <1>1 DEF Types
<1>3. ASSUME NEW s \in Sides PROVE step[s] \in 1 .. Len(Script[s]) + 2
  <2>1. Len(Script[s]) = 4
    BY ScriptLen
  <2>2. Len(Script[s]) + 2 = 6
    BY <2>1
  <2> QED
    BY <1>2, <2>2, Zenon
<1>4. \A s \in Sides : sent[s] > 0 => step[s] > Len(Script[s])
  BY <1>1 DEF Opened, Through
<1>5. \A d \in net : d.to \in Sockets /\ d.kind \in {"hello", "reply", "data"}
  BY <1>1 DEF Types, Datagrams, Kinds
<1> QED
  BY <1>1, <1>3, <1>4, <1>5 DEF TypeOK, Types, Opened

(* No socket receives before it is open, and no stack runs before its side *)
(* is through with the set-up.                                             *)
THEOREM TypeCorrect == Spec => []TypeOK
BY SetUpAlways, SetUpImpliesTypeOK, PTL

(* The first side is through before the second, and not before the second  *)
(* has only its answer to read, however datagrams are lost or delayed.     *)
THEOREM SidesInOrder == Spec => []InOrderUp
<1>1. SetUpInv => InOrderUp
  <2>1. /\ Through("first") <=> step["first"] > 4
        /\ Through("second") <=> step["second"] > 4
    BY StepNames DEF Sides
  <2>2. Len(Script["second"]) = 4
    BY ScriptLen DEF Sides
  <2>3. Order => InOrderUp
    BY <2>1, <2>2, Zenon DEF Order, InOrderUp
  <2> QED
    BY <2>3 DEF SetUpInv
<1> QED
  BY <1>1, SetUpAlways, PTL

(* Set-up and stacks share sockets and never read each other's datagrams.  *)
THEOREM NothingMixedUp == Spec => []NoMixup
<1>1. SetUpInv => NoMixup
  BY DEF SetUpInv
<1> QED
  BY <1>1, SetUpAlways, PTL

(* Nothing but a hello meets a socket that is not open yet.                *)
THEOREM RestIsInTime == Spec => []OnlyHelloTooEarly
<1>1. SetUpInv => OnlyHelloTooEarly
  BY DEF SetUpInv
<1> QED
  BY <1>1, SetUpAlways, PTL
=============================================================================
