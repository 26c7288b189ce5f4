------------------------- MODULE ProcessPerMessage --------------------------
(***************************************************************************)
(* One host of the process-per-message stack of ppm.h and its callers, the *)
(* poll threads of application.h.  Every message is a job of the host's    *)
(* one ThreadPool: on the way down a chain of send functions that ends in  *)
(* sendto, on the way up a chain of deliver functions.  Up to six threads  *)
(* call that pool: the one in the constructor, the four poll threads, and  *)
(* eth_deliver, which is itself a job of it.                               *)
(*                                                                         *)
(* The other host runs either stack; its datagrams may be late, overtake   *)
(* each other or be lost.  Between two calls of the pool the functions     *)
(* share nothing (sendsem brackets one sendto), so each is one step.       *)
(***************************************************************************)
EXTENDS ProtocolGraph, FiniteSets

CONSTANTS
  Apps,         \* the applications that send on this host
  PeerApps,     \* those that send on the other
  TotSend,      \* messages each of them sends (TOT_SEND)
  ThreadCount,  \* poolsize
  NoThreadFor   \* applications for whose messages pthread_create may fail

ASSUME HostAssumption ==
  /\ Apps \subseteq AllApps /\ PeerApps \subseteq AllApps
  /\ TotSend \in Nat
  /\ ThreadCount \in Nat \ {0}
  /\ NoThreadFor \subseteq AllApps

VARIABLES
  status_flags, pool, pc, at, job, fate, slave, home, target,  \* see ThreadPool
  lost,         \* datagrams of the other host that never arrive
  held,         \* held[x]: the Message made of datagram x, which its job holds
  inbox         \* what deliver functions were left with, and where they ended

poolvars == <<status_flags, pool, pc, at, job, fate, slave, home, target>>

mail == <<held, inbox>>

vars == <<poolvars, lost, mail>>

-----------------------------------------------------------------------------
(***************************************************************************)
(* The jobs and those who dispatch them.                                   *)
(***************************************************************************)

ToSend == Apps \X (1 .. TotSend)

ToReceive == PeerApps \X (1 .. TotSend)

Eth == <<"eth_deliver">>

Down(a, n) == <<"send", a, n>>

Up(a, n) == <<"ip_deliver", a, n>>

NoJob == <<>>

Jobs == {Eth} \cup {Down(x[1], x[2]) : x \in ToSend} \cup {Up(x[1], x[2]) : x \in ToReceive}

Dispatchers == {"main", "eth_deliver"} \cup Apps

(* Without the thread of eth_deliver there is no host.                     *)
MayFail == {j \in Jobs \ {Eth} : j[2] \in NoThreadFor}

Pool == INSTANCE ThreadPool WITH WorkerMayFail <- MayFail, SlaveMayFail <- {}

-----------------------------------------------------------------------------
(***************************************************************************)
(* What the functions make of a message.                                   *)
(***************************************************************************)

(* The protocols a deliver function knows to call. *)
Above == [IP |-> {"TCP", "UDP"}, TCP |-> {"FTP", "TELNET"}, UDP |-> {"RDP", "DNS"}]

(* p's deliver strips its header and calls the deliver that header names.  *)
Climb(x) ==
  LET hlp == FirstHdr(x.msg).hlp
      msg == StripHdr(x.msg, StrippedLen[x.at])
  IN  IF x.at \in DOMAIN Above
      THEN [at |-> IF hlp \in Above[x.at] THEN hlp ELSE "nobody", msg |-> msg]
      ELSE [at |-> x.at, msg |-> msg]

(* ip_deliver, which calls tcp_deliver or udp_deliver, which calls the     *)
(* application's deliver.                                                  *)
Delivery(msg) ==
  LET ip == Climb([at |-> "IP", msg |-> msg])
      tra == IF ip.at = "nobody" THEN ip ELSE Climb(ip)
  IN  IF tra.at = "nobody" THEN tra ELSE Climb(tra)

-----------------------------------------------------------------------------
Init ==
  /\ Pool!Init
  /\ lost = {}
  /\ held = [x \in {} |-> x]
  /\ inbox = {}

(* The constructor has eth_deliver dispatched before anything is sent. *)
Construct == Pool!Offer("main", Eth) /\ UNCHANGED <<lost, mail>>

(* A poll thread calls send with its next message once its last call has   *)
(* returned.                                                               *)
Poll(a) ==
  /\ fate[Eth] # "new" /\ pc["main"] = "idle"
  /\ \E n \in 1 .. TotSend :
       /\ \A k \in 1 .. n - 1 : fate[Down(a, k)] # "new"
       /\ Pool!Offer(a, Down(a, n))
  /\ UNCHANGED <<lost, mail>>

Received == DOMAIN held

Tot == Cardinality(ToReceive)

(* The Message that eth_deliver makes of a datagram, its header stripped. *)
Payload(x) == StripHdr(Datagram(x[1], x[2]), StrippedLen["ETH"])

(* Mutant of Buffer: one buffer, allocated before the loop. *)
BufferShared(x) == [y \in Received \cup {x} |-> Payload(x)]

(* Each datagram is received into a buffer allocated for it, to which its  *)
(* Message points.                                                         *)
Buffer(x) == [y \in Received \cup {x} |-> IF y = x THEN Payload(x) ELSE held[y]]

(* recvfrom in the loop of eth_deliver; tot is what the other host sends.  *)
Receive ==
  /\ fate[Eth] = "running"
  /\ Cardinality(Received) < Tot
  /\ \E x \in ToReceive \ lost :
       /\ Pool!Offer("eth_deliver", Up(x[1], x[2]))
       /\ held' = Buffer(x)
  /\ UNCHANGED <<lost, inbox>>

Lose ==
  /\ \E x \in ToReceive \ (lost \cup Received) : lost' = lost \cup {x}
  /\ UNCHANGED <<poolvars, mail>>

(* Mutant of EthReturns: the loop goes on until it has received more. *)
EthReturnsLate ==
  /\ pc["eth_deliver"] = "idle"
  /\ Cardinality(Received) > Tot
  /\ Pool!Exit(Eth)
  /\ UNCHANGED <<lost, mail>>

(* The loop ends. *)
EthReturns ==
  /\ pc["eth_deliver"] = "idle"
  /\ Cardinality(Received) = Tot
  /\ Pool!Exit(Eth)
  /\ UNCHANGED <<lost, mail>>

(* A message's thread returns: it has called sendto ... *)
Sent(x) == Pool!Exit(Down(x[1], x[2])) /\ UNCHANGED <<lost, mail>>

(* ... or the deliver functions, from ip_deliver up. *)
Delivered(x) ==
  /\ Pool!Exit(Up(x[1], x[2]))
  /\ inbox' = inbox \cup {Delivery(held[x])}
  /\ UNCHANGED <<lost, held>>

Calls(d) == (Pool!ThreadAvail(d) \/ Pool!DispatchThread(d)) /\ UNCHANGED <<lost, mail>>

Reaps(j) == Pool!Slave(j) /\ UNCHANGED <<lost, mail>>

Settled(j) ==
  \/ fate[j] \in {"refused", "dropped", "failed", "exited"} /\ slave[j] \in {"none", "done"}
  \/ j = Eth /\ lost # {} /\ lost \cup Received = ToReceive
  \/ \E x \in lost : j = Up(x[1], x[2])

(* All is sent, and all that was not lost is delivered.                    *)
Finished ==
  /\ \A d \in Dispatchers : pc[d] = "idle"
  /\ \A j \in Jobs : Settled(j)
  /\ UNCHANGED vars

Next ==
  \/ Construct
  \/ \E a \in Apps : Poll(a)
  \/ Receive \/ Lose \/ EthReturns
  \/ \E d \in Dispatchers : Calls(d)
  \/ \E x \in ToSend : Sent(x)
  \/ \E x \in ToReceive : Delivered(x)
  \/ \E j \in Jobs : Reaps(j)
  \/ Finished

Spec == Init /\ [][Next]_vars

(* Threads run, poll threads go on to their next message, and a datagram   *)
(* arrives or is lost.                                                     *)
FairSpec ==
  /\ Spec
  /\ WF_vars(Construct) /\ WF_vars(Receive) /\ WF_vars(EthReturns)
  /\ \A a \in Apps : WF_vars(Poll(a))
  /\ \A d \in Dispatchers : WF_vars(Calls(d))
  /\ \A x \in ToSend : WF_vars(Sent(x))
  /\ \A x \in ToReceive : WF_vars(Delivered(x))
  /\ \A j \in Jobs : WF_vars(Reaps(j))

-----------------------------------------------------------------------------
(***************************************************************************)
(* Properties.                                                             *)
(***************************************************************************)

(* However its callers race for slots, the one that eth_deliver runs in is *)
(* never given to a message: it can go on to receive, and the slave that   *)
(* waits for its end waits for that.                                       *)
EthKeepsSlot ==
  fate[Eth] = "running" =>
    /\ ~status_flags[home[Eth]]
    /\ pool[home[Eth]] = Eth
    /\ \A j \in Jobs \ {Eth} : home[j] # home[Eth]

(* Neither direction loses a message to the pool before as many functions  *)
(* were started as the pool has threads, eth_deliver among them: with up   *)
(* to poolsize - 1 messages, everything sent or received goes through.     *)
LossNeedsLoad == Pool!LossNeedsLoad

(* A busy slot has somebody who will free it, though callers share slots   *)
(* and the slave of a message that got no thread joins whatever handle it  *)
(* finds, that of the slot's next message included.                        *)
BusySlotIsOwned == Pool!BusySlotIsOwned

(* However arrivals and deliver threads overlap, the applications have     *)
(* been given exactly the messages whose threads have returned, each by    *)
(* the application it is for and with every header stripped: what one      *)
(* thread still holds, no later arrival overwrites.                        *)
Returned == {x \in ToReceive : fate[Up(x[1], x[2])] = "exited"}

OwnMail == inbox = {[at |-> x[1], msg |-> Fresh(x[1], x[2])] : x \in Returned}

(* In the end every slot is free again, whatever slots were shared on the  *)
(* way, but for that of eth_deliver if a datagram was lost: it counts what *)
(* it receives, and waits for the rest forever.                            *)
PoolEmpties ==
  <>[](\A i \in Pool!Slots : status_flags[i] <=> ~(lost # {} /\ i = home[Eth]))
=============================================================================
