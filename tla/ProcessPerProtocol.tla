------------------------- MODULE ProcessPerProtocol -------------------------
(***************************************************************************)
(* The process-per-protocol stack of ppp.h and its callers, the poll       *)
(* threads of application.h: one thread per protocol and direction, pipes  *)
(* that carry Message pointers, a semaphore per pipe that writer and       *)
(* reader both hold around write() and read().                             *)
(*                                                                         *)
(* One host sends, the other delivers.  A reader selects first and is the  *)
(* only one, so its sem_wait; read; sem_post is one step.  A writer may    *)
(* block in write() on a full pipe, with the semaphore held.               *)
(***************************************************************************)
EXTENDS ProtocolGraph, FiniteSets

CONSTANTS
  Apps,      \* the applications that send
  TotSend,   \* TotSend[a]: messages application a sends (TOT_SEND, for each)
  PipeCap,   \* message pointers a pipe holds
  SockCap    \* datagrams the receiving socket holds

ASSUME StackAssumption ==
  /\ Apps \subseteq AllApps
  /\ TotSend \in [Apps -> Nat]
  /\ PipeCap \in Nat \ {0} /\ SockCap \in Nat \ {0}

VARIABLES
  queue,      \* queue[p]: what is in pipe p, or in the socket
  holder,     \* holder[p]: the writer that holds the semaphore of pipe p
  pc,         \* where each thread is in its loop
  src,        \* the pipe a thread found readable
  hand,       \* the message a thread is about to write
  dst,        \* the pipe it will write it to
  sent,       \* sent[a]: messages application a has created
  payload,    \* payload[a]: number in the buffer all messages of a point to
  delivered,  \* delivered[a]: what application a was given
  lost        \* datagrams that found the socket full

vars == <<queue, holder, pc, src, hand, dst, sent, payload, delivered, lost>>

-----------------------------------------------------------------------------
(***************************************************************************)
(* Pipes and threads.                                                      *)
(***************************************************************************)

(* The pipes a send thread selects on, in the order it tests them. *)
SendIn ==
  [FTP |-> <<"ftp">>, TELNET |-> <<"telnet">>, RDP |-> <<"rdp">>, DNS |-> <<"dns">>,
   TCP |-> <<"tcp", "tcp2">>, UDP |-> <<"udp", "udp2">>, IP |-> <<"ip", "ip2">>,
   ETH |-> <<"eth">>]

SendOut ==
  [FTP |-> "tcp", TELNET |-> "tcp2", RDP |-> "udp", DNS |-> "udp2",
   TCP |-> "ip", UDP |-> "ip2", IP |-> "eth", ETH |-> "socket"]

(* Mutant of HlpOf: tcp_send confuses its two pipes. *)
HlpOfSwapped ==
  [ftp |-> "FTP", telnet |-> "TELNET", rdp |-> "RDP", dns |-> "DNS",
   tcp |-> "TELNET", tcp2 |-> "FTP", udp |-> "RDP", udp2 |-> "DNS",
   ip |-> "TCP", ip2 |-> "UDP", eth |-> "IP"]

(* The hlp a send thread writes in its header, by the pipe it read from.   *)
HlpOf ==
  [ftp |-> "FTP", telnet |-> "TELNET", rdp |-> "RDP", dns |-> "DNS",
   tcp |-> "FTP", tcp2 |-> "TELNET", udp |-> "RDP", udp2 |-> "DNS",
   ip |-> "TCP", ip2 |-> "UDP", eth |-> "IP"]

DeliverIn ==
  [ETH |-> "socket", IP |-> "eth_up", TCP |-> "ip_up", UDP |-> "ip2_up",
   FTP |-> "tcp_up", TELNET |-> "tcp2_up", RDP |-> "udp_up", DNS |-> "udp2_up"]

(* Mutant of DeliverOut: tcp_deliver does not know TELNET. *)
DeliverOutNoTelnet ==
  [IP  |-> [TCP |-> "ip_up", UDP |-> "ip2_up"],
   TCP |-> [FTP |-> "tcp_up"],
   UDP |-> [RDP |-> "udp_up", DNS |-> "udp2_up"]]

(* Where a deliver thread passes a message on to, by its hlp: a message    *)
(* with another hlp goes nowhere.  eth_deliver does not look at the hlp.   *)
DeliverOut ==
  [IP  |-> [TCP |-> "ip_up", UDP |-> "ip2_up"],
   TCP |-> [FTP |-> "tcp_up", TELNET |-> "tcp2_up"],
   UDP |-> [RDP |-> "udp_up", DNS |-> "udp2_up"]]

Pipes == DOMAIN HlpOf \cup {DeliverIn[p] : p \in Protocols \ {"ETH"}}

Poll(a) == <<"poll", a>>
Send(p) == <<"send", p>>
Deliver(p) == <<"deliver", p>>

Threads == {Poll(a) : a \in Apps} \cup {Send(p) : p \in Protocols}
             \cup {Deliver(p) : p \in Protocols}

Inputs(t) ==
  CASE t[1] = "poll" -> <<>>
    [] t[1] = "send" -> SendIn[t[2]]
    [] t[1] = "deliver" -> <<DeliverIn[t[2]]>>

NoMsg == Fresh("none", 0)

Nobody == <<>>

Init ==
  /\ queue = [p \in Pipes \cup {"socket"} |-> <<>>]
  /\ holder = [p \in Pipes |-> Nobody]
  /\ pc = [t \in Threads |-> "select"]
  /\ src = [t \in Threads |-> "none"]
  /\ hand = [t \in Threads |-> NoMsg]
  /\ dst = [t \in Threads |-> "none"]
  /\ sent = [a \in Apps |-> 0]
  /\ payload = [a \in Apps |-> 0]
  /\ delivered = [a \in AllApps |-> <<>>]
  /\ lost = {}

-----------------------------------------------------------------------------
(***************************************************************************)
(* Steps of the threads.                                                   *)
(***************************************************************************)

(* The thread has read m (made from what it read) and will write it to p.  *)
Carry(t, m, p) ==
  /\ hand' = [hand EXCEPT ![t] = m]
  /\ dst' = [dst EXCEPT ![t] = p]
  /\ src' = [src EXCEPT ![t] = "none"]
  /\ pc' = [pc EXCEPT ![t] = "lock"]

(* The thread goes back to the head of its loop. *)
Loop(t) ==
  /\ hand' = [hand EXCEPT ![t] = NoMsg]
  /\ dst' = [dst EXCEPT ![t] = "none"]
  /\ src' = [src EXCEPT ![t] = "none"]
  /\ pc' = [pc EXCEPT ![t] = "select"]

(* A poll thread fills its one buffer and points the next message at it.   *)
Create(a) ==
  LET n == sent[a] + 1 IN
  /\ pc[Poll(a)] = "select"
  /\ n <= TotSend[a]
  /\ sent' = [sent EXCEPT ![a] = n]
  /\ payload' = [payload EXCEPT ![a] = n]
  /\ Carry(Poll(a), Fresh(a, n), SendIn[a][1])
  /\ UNCHANGED <<queue, holder, delivered, lost>>

(* Mutant of Select: reads the first pipe without looking which is ready.  *)
SelectAny(t) ==
  /\ pc[t] = "select"
  /\ \E i \in DOMAIN Inputs(t) : queue[Inputs(t)[i]] # <<>>
  /\ src' = [src EXCEPT ![t] = Inputs(t)[1]]
  /\ pc' = [pc EXCEPT ![t] = "read"]
  /\ UNCHANGED <<queue, holder, hand, dst, sent, payload, delivered, lost>>

(* select(), or the wait in recvfrom(): the first readable input. *)
Select(t) ==
  /\ pc[t] = "select"
  /\ \E i \in DOMAIN Inputs(t) :
       /\ queue[Inputs(t)[i]] # <<>>
       /\ \A j \in 1 .. i - 1 : queue[Inputs(t)[j]] = <<>>
       /\ src' = [src EXCEPT ![t] = Inputs(t)[i]]
  /\ pc' = [pc EXCEPT ![t] = "read"]
  /\ UNCHANGED <<queue, holder, hand, dst, sent, payload, delivered, lost>>

(* No writer holds the semaphore of p; the socket has none. *)
Free(p) == p # "socket" => holder[p] = Nobody

Read(t) ==
  /\ pc[t] = "read"
  /\ Free(src[t])
  /\ queue[src[t]] # <<>>
  /\ queue' = [queue EXCEPT ![src[t]] = Tail(@)]
  /\ UNCHANGED <<holder, sent, payload, lost>>

ReadDown(p) ==
  LET t == Send(p)
      m == Head(queue[src[t]])
  IN  /\ Read(t)
      /\ Carry(t, AddHdr(m, p, HlpOf[src[t]]), SendOut[p])
      /\ UNCHANGED delivered

ReadUp(p) ==
  LET t == Deliver(p)
      m == Head(queue[src[t]])
      s == StripHdr(m, StrippedLen[p])
      hlp == FirstHdr(m).hlp
  IN  /\ Read(t)
      /\ \/ /\ p \in AllApps
            /\ delivered' = [delivered EXCEPT ![p] = Append(@, s)]
            /\ Loop(t)
         \/ /\ p = "ETH"
            /\ Carry(t, s, "eth_up")
            /\ UNCHANGED delivered
         \/ /\ p \in DOMAIN DeliverOut
            /\ IF hlp \in DOMAIN DeliverOut[p] THEN Carry(t, s, DeliverOut[p][hlp]) ELSE Loop(t)
            /\ UNCHANGED delivered

(* sem_wait of the pipe that will be written. *)
Lock(t) ==
  /\ pc[t] = "lock"
  /\ dst[t] # "socket"
  /\ holder[dst[t]] = Nobody
  /\ holder' = [holder EXCEPT ![dst[t]] = t]
  /\ pc' = [pc EXCEPT ![t] = "write"]
  /\ UNCHANGED <<queue, src, hand, dst, sent, payload, delivered, lost>>

(* Mutants of Write: no sem_post; the pointer is written twice. *)
WriteKeepsLock(t) ==
  /\ pc[t] = "write"
  /\ Len(queue[dst[t]]) < PipeCap
  /\ queue' = [queue EXCEPT ![dst[t]] = Append(@, hand[t])]
  /\ Loop(t)
  /\ UNCHANGED <<holder, sent, payload, delivered, lost>>

WriteTwice(t) ==
  /\ pc[t] = "write"
  /\ Len(queue[dst[t]]) < PipeCap
  /\ queue' = [queue EXCEPT ![dst[t]] = @ \o <<hand[t], hand[t]>>]
  /\ holder' = [holder EXCEPT ![dst[t]] = Nobody]
  /\ Loop(t)
  /\ UNCHANGED <<sent, payload, delivered, lost>>

(* write(), which waits while the pipe is full, and sem_post. *)
Write(t) ==
  /\ pc[t] = "write"
  /\ Len(queue[dst[t]]) < PipeCap
  /\ queue' = [queue EXCEPT ![dst[t]] = Append(@, hand[t])]
  /\ holder' = [holder EXCEPT ![dst[t]] = Nobody]
  /\ Loop(t)
  /\ UNCHANGED <<sent, payload, delivered, lost>>

(* Mutant of SendTo: the datagram is sent again and again. *)
SendToAgain ==
  LET t == Send("ETH")
      m == [hand[t] EXCEPT !.seen = payload[hand[t].app]]
  IN  /\ pc[t] = "lock"
      /\ Len(queue["socket"]) < SockCap
      /\ queue' = [queue EXCEPT !["socket"] = Append(@, m)]
      /\ UNCHANGED <<holder, pc, src, hand, dst, sent, payload, delivered, lost>>

(* msgFlat copies what the payload pointer shows now; sendto never waits   *)
(* for the receiver, and a datagram that finds its socket full is dropped. *)
SendTo ==
  LET t == Send("ETH")
      m == [hand[t] EXCEPT !.seen = payload[hand[t].app]]
  IN  /\ pc[t] = "lock"
      /\ \/ /\ Len(queue["socket"]) < SockCap
            /\ queue' = [queue EXCEPT !["socket"] = Append(@, m)]
            /\ UNCHANGED lost
         \/ /\ Len(queue["socket"]) >= SockCap
            /\ lost' = lost \cup {<<m.app, m.num>>}
            /\ UNCHANGED queue
      /\ Loop(t)
      /\ UNCHANGED <<holder, sent, payload, delivered>>

(* Every message has been created and has left the stack. *)
Drained ==
  /\ \A a \in Apps : sent[a] = TotSend[a]
  /\ \A p \in DOMAIN queue : queue[p] = <<>>
  /\ \A t \in Threads : pc[t] = "select"
  /\ UNCHANGED vars

Next ==
  \/ \E a \in Apps : Create(a)
  \/ \E t \in Threads : Select(t) \/ Lock(t) \/ Write(t)
  \/ \E p \in Protocols : ReadDown(p) \/ ReadUp(p)
  \/ SendTo
  \/ Drained

Spec == Init /\ [][Next]_vars

(* While some thread can go on, one does: no more is needed, as each step  *)
(* takes a message further.  (The two seconds the programs wait for their  *)
(* threads before they exit are not modelled.)                             *)
FairSpec == Spec /\ WF_vars(Next)

-----------------------------------------------------------------------------
(***************************************************************************)
(* Properties.                                                             *)
(***************************************************************************)

(* Each variable has its type: a thread that is to read knows from where,  *)
(* one that is to write knows what and where, and a semaphore is held by   *)
(* the thread that is writing to its pipe.                                 *)
TypeOK ==
  /\ DOMAIN queue = Pipes \cup {"socket"}
  /\ \A p \in Pipes : Len(queue[p]) <= PipeCap
  /\ Len(queue["socket"]) <= SockCap
  /\ pc \in [Threads -> {"select", "read", "lock", "write"}]
  /\ \A t \in Threads : pc[t] = "read" <=> src[t] \in ToSet(Inputs(t))
  /\ \A t \in Threads : pc[t] \in {"lock", "write"} <=> hand[t] # NoMsg /\ dst[t] \in DOMAIN queue
  /\ \A p \in Pipes : holder[p] # Nobody => pc[holder[p]] = "write" /\ dst[holder[p]] = p
  /\ \A t \in Threads : pc[t] = "write" => holder[dst[t]] = t
  /\ sent \in [Apps -> Nat] /\ \A a \in Apps : sent[a] <= TotSend[a]
  /\ payload = sent

(* What a select found readable is still there when its thread gets the    *)
(* semaphore: no read() ever waits with the semaphore held.                *)
SelectStaysTrue == \A t \in Threads : pc[t] = "read" => queue[src[t]] # <<>>

(* What an application is given was sent by its peer, and every header on  *)
(* it has been stripped: the routes and lengths of both directions agree.  *)
OwnMail ==
  \A a \in AllApps : \A i \in DOMAIN delivered[a] :
    delivered[a][i].app = a /\ delivered[a][i].hdrs = <<>>

(* What the process-per-protocol stack puts on the wire is what the other  *)
(* stack would, so that a host of either kind can deliver it: see          *)
(* ProcessPerMessage.                                                      *)
SameWire ==
  \A i \in DOMAIN queue["socket"] :
    LET m == queue["socket"][i] IN m = [Datagram(m.app, m.num) EXCEPT !.seen = m.seen]

(* An application is given its messages in the order they were created and *)
(* none of them twice, though all share threads and pipes on the way and   *)
(* some may be lost at a full socket.                                      *)
InOrder ==
  \A a \in AllApps : \A i, j \in DOMAIN delivered[a] :
    i < j => delivered[a][i].num < delivered[a][j].num

(* Where message n of application a is. *)
Places(a, n) ==
  LET IsIt(m) == m.app = a /\ m.num = n
  IN  (UNION {{<<"queue", p, i>> : i \in {i \in DOMAIN queue[p] : IsIt(queue[p][i])}} : p \in DOMAIN queue})
        \cup {<<"hand", t>> : t \in {t \in Threads : IsIt(hand[t])}}
        \cup {<<"delivered", i>> : i \in {i \in DOMAIN delivered[a] : IsIt(delivered[a][i])}}
        \cup (IF <<a, n>> \in lost THEN {<<"lost">>} ELSE {})

(* Every message that was created is in one place: a pipe, a thread, the   *)
(* socket, its receiver, or lost at a full socket.                         *)
EachMessageOnce ==
  \A a \in Apps : \A n \in 1 .. sent[a] : Cardinality(Places(a, n)) = 1

(* A writer that finds its pipe full. *)
Stuck(t) == pc[t] = "write" /\ Len(queue[dst[t]]) >= PipeCap

(* With room in each pipe for all messages there are, no write() waits.    *)
NobodyStuck == \A t \in Threads : ~Stuck(t)

(* Every message is created in time and arrives at its application, unless *)
(* it was lost at a full socket: nothing else ends its way.                *)
AllDelivered ==
  <>(\A a \in Apps : \A n \in 1 .. TotSend[a] :
       <<a, n>> \in lost \/ \E i \in DOMAIN delivered[a] : delivered[a][i].num = n)

(* The message an application is given carries what was put into it. *)
PayloadIntact ==
  \A a \in AllApps : \A i \in DOMAIN delivered[a] : delivered[a][i].seen = delivered[a][i].num
=============================================================================
