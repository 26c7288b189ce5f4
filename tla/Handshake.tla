----------------------------- MODULE Handshake ------------------------------
(***************************************************************************)
(* How the two programs find each other: the constructor of application.h. *)
(* Each side opens a socket to send with and one to receive on; each sends *)
(* one hello and answers one, in an order of its own.  Then each starts    *)
(* its stack, and two seconds after its poll threads the program ends.     *)
(*                                                                         *)
(* Nothing is sent twice and no wait has a timeout.  Datagrams may be lost *)
(* or overtake each other; one that meets no socket is gone.  Whether the  *)
(* sleep(1) of the second side is long enough is left open here, as is     *)
(* which side is started first and whether two seconds are enough.         *)
(***************************************************************************)
EXTENDS Naturals, Sequences

CONSTANT Data  \* datagrams each stack sends, and those eth_deliver waits for

ASSUME DataAssumption == Data \in Nat

VARIABLES
  step,    \* step[s]: where side s is in its script
  open,    \* the sockets there are
  net,     \* datagrams under way
  inbox,   \* inbox[k]: what socket k has received and nobody has read
  sent,    \* sent[s]: datagrams the stack of s has sent
  taken,   \* taken[s]: who read what at side s, in order
  missed   \* datagrams that were lost, or met no socket

vars == <<step, open, net, inbox, sent, taken, missed>>

Sides == {"first", "second"}

Other(s) == CHOOSE o \in Sides : o # s

SendSock(s) == <<s, "send">>

RecvSock(s) == <<s, "recv">>

Sockets == {SendSock(s) : s \in Sides} \cup {RecvSock(s) : s \in Sides}

(* Mutants of Script: the second side does not wait for its answer; the    *)
(* first does not answer; both wait to be called.                          *)
ScriptNoHear ==
  [first  |-> <<"knock", "hear", "bind", "answer">>,
   second |-> <<"bind", "answer", "knock">>]

ScriptNoAnswer ==
  [first  |-> <<"knock", "hear", "bind">>,
   second |-> <<"bind", "answer", "knock", "hear">>]

ScriptBothWait ==
  [first  |-> <<"bind", "answer", "knock", "hear">>,
   second |-> <<"bind", "answer", "knock", "hear">>]

(* What the constructor does on either side.                               *)
Script ==
  [first  |-> <<"knock", "hear", "bind", "answer">>,
   second |-> <<"bind", "answer", "knock", "hear">>]

Established(s) == step[s] = Len(Script[s]) + 1

Gone(s) == step[s] = Len(Script[s]) + 2

Init ==
  /\ step = [s \in Sides |-> 1]
  /\ open = {}
  /\ net = {}
  /\ inbox = [k \in Sockets |-> <<>>]
  /\ sent = [s \in Sides |-> 0]
  /\ taken = [s \in Sides |-> <<>>]
  /\ missed = {}

-----------------------------------------------------------------------------
(***************************************************************************)
(* Sides.                                                                  *)
(***************************************************************************)

Datagram(k, what, n) == [to |-> k, kind |-> what, num |-> n]

(* The next line of the script of s. *)
Does(s, what) ==
  /\ step[s] <= Len(Script[s]) /\ Script[s][step[s]] = what
  /\ step' = [step EXCEPT ![s] = @ + 1]
  /\ UNCHANGED <<sent, missed>>

(* recvfrom waits for a datagram, and takes whichever is first. *)
Take(s, k, who) ==
  /\ inbox[k] # <<>>
  /\ inbox' = [inbox EXCEPT ![k] = Tail(@)]
  /\ taken' = [taken EXCEPT ![s] = Append(@, <<who, Head(inbox[k])>>)]

(* The hello.  sendto gives the sending socket its port. *)
Knock(s) ==
  /\ Does(s, "knock")
  /\ open' = open \cup {SendSock(s)}
  /\ net' = net \cup {Datagram(RecvSock(Other(s)), "hello", 0)}
  /\ UNCHANGED <<inbox, taken>>

Hear(s) ==
  /\ Does(s, "hear")
  /\ Take(s, SendSock(s), "hear")
  /\ UNCHANGED <<open, net>>

Bind(s) ==
  /\ Does(s, "bind")
  /\ open' = open \cup {RecvSock(s)}
  /\ UNCHANGED <<net, inbox, taken>>

(* The answer goes to the socket the hello came from. *)
Answer(s) ==
  /\ Does(s, "answer")
  /\ Take(s, RecvSock(s), "answer")
  /\ net' = net \cup {Datagram(SendSock(Other(s)), "reply", 0)}
  /\ UNCHANGED open

(* Mutant of Send: the stack starts with the program. *)
SendAtOnce(s) ==
  /\ ~Gone(s) /\ sent[s] < Data
  /\ sent' = [sent EXCEPT ![s] = @ + 1]
  /\ net' = net \cup {Datagram(RecvSock(Other(s)), "data", sent[s] + 1)}
  /\ UNCHANGED <<step, open, inbox, taken, missed>>

(* The stack sends, and eth_deliver receives as much as it was told to. *)
Send(s) ==
  /\ Established(s) /\ sent[s] < Data
  /\ sent' = [sent EXCEPT ![s] = @ + 1]
  /\ net' = net \cup {Datagram(RecvSock(Other(s)), "data", sent[s] + 1)}
  /\ UNCHANGED <<step, open, inbox, taken, missed>>

Got(s) == Len(SelectSeq(taken[s], LAMBDA x : x[1] = "deliver"))

(* Mutant of Deliver: the loop ends one datagram early. *)
DeliverOneLess(s) ==
  /\ Established(s) /\ Got(s) < Data - 1
  /\ Take(s, RecvSock(s), "deliver")
  /\ UNCHANGED <<step, open, net, sent, missed>>

Deliver(s) ==
  /\ Established(s) /\ Got(s) < Data
  /\ Take(s, RecvSock(s), "deliver")
  /\ UNCHANGED <<step, open, net, sent, missed>>

(* The program ends, whatever its threads are doing. *)
Leave(s) ==
  /\ Established(s)
  /\ step' = [step EXCEPT ![s] = @ + 1]
  /\ open' = open \ {SendSock(s), RecvSock(s)}
  /\ UNCHANGED <<net, inbox, sent, taken, missed>>

Acts(s) ==
  Knock(s) \/ Hear(s) \/ Bind(s) \/ Answer(s) \/ Send(s) \/ Deliver(s)

-----------------------------------------------------------------------------
(***************************************************************************)
(* The network.                                                            *)
(***************************************************************************)

Arrive(d) ==
  /\ d \in net
  /\ net' = net \ {d}
  /\ \/ /\ d.to \in open
        /\ inbox' = [inbox EXCEPT ![d.to] = Append(@, d.kind)]
        /\ UNCHANGED missed
     \/ /\ d.to \notin open
        /\ missed' = missed \cup {[why |-> "no socket", what |-> d]}
        /\ UNCHANGED inbox
  /\ UNCHANGED <<step, open, sent, taken>>

Lose(d) ==
  /\ d \in net
  /\ net' = net \ {d}
  /\ missed' = missed \cup {[why |-> "lost", what |-> d]}
  /\ UNCHANGED <<step, open, inbox, sent, taken>>

-----------------------------------------------------------------------------
Next ==
  \/ \E s \in Sides : Acts(s) \/ Leave(s)
  \/ \E d \in net : Arrive(d) \/ Lose(d)

Spec == Init /\ [][Next]_vars

(* Programs run until they wait; a datagram arrives or is lost some day.   *)
(* When a program ends, and that it does, is left open.                    *)
FairSpec ==
  /\ Spec
  /\ \A s \in Sides : WF_vars(Acts(s))
  /\ WF_vars(\E d \in net : Arrive(d) \/ Lose(d))

-----------------------------------------------------------------------------
(***************************************************************************)
(* Properties.                                                             *)
(***************************************************************************)

(* Each variable has its type: no socket receives before it is open, and   *)
(* no stack runs before its side is through the set-up.                    *)
TypeOK ==
  /\ \A s \in Sides : step[s] \in 1 .. Len(Script[s]) + 2
  /\ open \subseteq Sockets
  /\ \A d \in net : d.to \in Sockets /\ d.kind \in {"hello", "reply", "data"}
  /\ \A k \in Sockets : inbox[k] # <<>> => k \in open \/ Gone(k[1])
  /\ sent \in [Sides -> 0 .. Data]
  /\ \A s \in Sides : sent[s] > 0 => step[s] > Len(Script[s])

(* Side s is through with the set-up. *)
Through(s) == step[s] > Len(Script[s])

(* The second side says "established" only when the first is, too, and the *)
(* first only when the second has nothing left to do but hear so.  (The    *)
(* first is alone there for good if its answer is lost.)                   *)
InOrderUp ==
  /\ Through("second") => Through("first")
  /\ Through("first") => step["second"] >= Len(Script["second"])

(* The same sockets serve the set-up and then the stacks, and nothing in a *)
(* datagram tells which it is for: still the set-up never reads data as an *)
(* answer, and eth_deliver never counts a hello as a message.              *)
NoMixup ==
  \A s \in Sides : \A i \in DOMAIN taken[s] :
    taken[s][i] \in {<<"hear", "reply">>, <<"answer", "hello">>, <<"deliver", "data">>}

(* Only a hello may come too early for the other's socket.  Answers and    *)
(* messages find theirs, unless the program has ended.                     *)
OnlyHelloTooEarly ==
  \A x \in missed :
    x.why = "no socket" => x.what.kind = "hello" \/ Gone(x.what.to[1])

(* Both sides get through, in whichever order they run, unless a hello or  *)
(* an answer is lost or comes too early: then they wait forever.           *)
BothThrough ==
  <>((\A s \in Sides : Through(s)) \/ \E x \in missed : x.what.kind # "data")

(* The end of the program cuts something off. *)
LeftEarly(s) == Gone(s) /\ (Got(s) < Data \/ sent[s] < Data)

(* Every message arrives, unless a datagram was lost on the way or two     *)
(* seconds were too short for one of the sides.                            *)
AllReceived ==
  <>((\A s \in Sides : Got(s) = Data) \/ missed # {} \/ \E s \in Sides : LeftEarly(s))
=============================================================================
