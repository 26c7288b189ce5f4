---------------------- MODULE ProcessPerProtocol_proofs ----------------------
(***************************************************************************)
(* Proofs about ProcessPerProtocol, for any applications, any number of    *)
(* messages and any capacity of the pipes and the socket.                  *)
(*                                                                         *)
(* Each message goes down and up one chain of pipes.  Its place in the     *)
(* chain is its spot, and everything said of order, loss and duplication   *)
(* is said of the set of an application's spots.                           *)
(***************************************************************************)
EXTENDS ProcessPerProtocol, FiniteSetTheorems, SequenceTheorems, TLAPS

Lines == Pipes \cup {"socket"}

(* How far down the chain a pipe is. *)
Rank ==
  [ftp |-> 1, telnet |-> 1, rdp |-> 1, dns |-> 1,
   tcp |-> 2, tcp2 |-> 2, udp |-> 2, udp2 |-> 2, ip |-> 3, ip2 |-> 3, eth |-> 4,
   socket |-> 5, eth_up |-> 6, ip_up |-> 7, ip2_up |-> 7,
   tcp_up |-> 8, tcp2_up |-> 8, udp_up |-> 8, udp2_up |-> 8]

(* Whose messages a pipe carries. *)
Users ==
  [ftp |-> {"FTP"}, telnet |-> {"TELNET"}, rdp |-> {"RDP"}, dns |-> {"DNS"},
   tcp |-> {"FTP"}, tcp2 |-> {"TELNET"}, udp |-> {"RDP"}, udp2 |-> {"DNS"},
   ip |-> {"FTP", "TELNET"}, ip2 |-> {"RDP", "DNS"}, eth |-> AllApps,
   socket |-> AllApps, eth_up |-> AllApps,
   ip_up |-> {"FTP", "TELNET"}, ip2_up |-> {"RDP", "DNS"},
   tcp_up |-> {"FTP"}, tcp2_up |-> {"TELNET"}, udp_up |-> {"RDP"}, udp2_up |-> {"DNS"}]

(* The one thread that writes a pipe, and the one that reads it. *)
Writer ==
  [ftp |-> Poll("FTP"), telnet |-> Poll("TELNET"), rdp |-> Poll("RDP"), dns |-> Poll("DNS"),
   tcp |-> Send("FTP"), tcp2 |-> Send("TELNET"), udp |-> Send("RDP"), udp2 |-> Send("DNS"),
   ip |-> Send("TCP"), ip2 |-> Send("UDP"), eth |-> Send("IP"), socket |-> Send("ETH"),
   eth_up |-> Deliver("ETH"), ip_up |-> Deliver("IP"), ip2_up |-> Deliver("IP"),
   tcp_up |-> Deliver("TCP"), tcp2_up |-> Deliver("TCP"),
   udp_up |-> Deliver("UDP"), udp2_up |-> Deliver("UDP")]

Reader ==
  [ftp |-> Send("FTP"), telnet |-> Send("TELNET"), rdp |-> Send("RDP"), dns |-> Send("DNS"),
   tcp |-> Send("TCP"), tcp2 |-> Send("TCP"), udp |-> Send("UDP"), udp2 |-> Send("UDP"),
   ip |-> Send("IP"), ip2 |-> Send("IP"), eth |-> Send("ETH"), socket |-> Deliver("ETH"),
   eth_up |-> Deliver("IP"), ip_up |-> Deliver("TCP"), ip2_up |-> Deliver("UDP"),
   tcp_up |-> Deliver("FTP"), tcp2_up |-> Deliver("TELNET"),
   udp_up |-> Deliver("RDP"), udp2_up |-> Deliver("DNS")]

(* The headers on a message of a below its application, its transport and *)
(* so on, and the headers it has in the pipes of a rank.                  *)
Hdrs1(a) == <<[of |-> a, hlp |-> a]>> \o <<>>
Hdrs2(a) == <<[of |-> Transport[a], hlp |-> a]>> \o Hdrs1(a)
Hdrs3(a) == <<[of |-> "IP", hlp |-> Transport[a]]>> \o Hdrs2(a)
Hdrs4(a) == <<[of |-> "ETH", hlp |-> "IP"]>> \o Hdrs3(a)

HdrsAt(r, a) ==
  CASE r \in {1, 9} -> <<>>
    [] r \in {2, 8} -> Hdrs1(a)
    [] r \in {3, 7} -> Hdrs2(a)
    [] r \in {4, 6} -> Hdrs3(a)
    [] r = 5 -> Hdrs4(a)

Headers == [of : Protocols, hlp : Protocols]

Messages == [app : Apps, num : Nat, hdrs : Seq(Headers), seen : Nat]

(***************************************************************************)
(* The inductive invariant.                                                *)
(***************************************************************************)

Shape ==
  /\ queue \in [Lines -> Seq(Messages)]
  /\ holder \in [Pipes -> Threads \cup {Nobody}]
  /\ pc \in [Threads -> {"select", "read", "lock", "write"}]
  /\ src \in [Threads -> Lines \cup {"none"}]
  /\ hand \in [Threads -> Messages \cup {NoMsg}]
  /\ dst \in [Threads -> Lines \cup {"none"}]
  /\ sent \in [Apps -> Nat] /\ \A a \in Apps : sent[a] <= TotSend[a]
  /\ payload = sent
  /\ delivered \in [AllApps -> Seq(Messages)]
  /\ lost \subseteq Apps \X Nat

Capacity ==
  /\ \A p \in Pipes : Len(queue[p]) <= PipeCap
  /\ Len(queue["socket"]) <= SockCap

(* What a thread has read from and holds goes with where it is in its loop. *)
Reads(t) ==
  IF pc[t] = "read" THEN src[t] \in Lines /\ Reader[src[t]] = t /\ queue[src[t]] # <<>>
                    ELSE src[t] = "none"

Holds(t) ==
  IF pc[t] \in {"lock", "write"} THEN hand[t] \in Messages /\ dst[t] \in Lines /\ Writer[dst[t]] = t
                                 ELSE hand[t] = NoMsg /\ dst[t] = "none"

Loops == \A t \in Threads : Reads(t) /\ Holds(t)

Locks ==
  /\ \A t \in Threads : pc[t] = "write" => dst[t] \in Pipes /\ holder[dst[t]] = t
  /\ \A p \in Pipes : holder[p] # Nobody => pc[holder[p]] = "write" /\ dst[holder[p]] = p

(* The message is of a user of the rank's pipes, with that rank's headers. *)
Fits(m, users, r) ==
  /\ m.app \in users
  /\ m.num \in 1 .. sent[m.app]
  /\ m.hdrs = HdrsAt(r, m.app)

Routed ==
  /\ \A p \in Lines : \A i \in DOMAIN queue[p] : Fits(queue[p][i], Users[p], Rank[p])
  /\ \A t \in Threads : hand[t] # NoMsg => Fits(hand[t], Users[dst[t]], Rank[dst[t]])
  /\ \A a \in AllApps : \A i \in DOMAIN delivered[a] : Fits(delivered[a][i], {a}, 9)

(* Where the messages of a are: in a pipe, in the hands of the thread that *)
(* will write it to a pipe, or delivered.                                  *)
QueueSpots(a, q) ==
  UNION {{[num |-> q[p][i].num, rank |-> 2 * Rank[p], place |-> i] :
             i \in {i \in DOMAIN q[p] : q[p][i].app = a}} : p \in Lines}

HandSpots(a, h, d) ==
  {[num |-> h[t].num, rank |-> 2 * Rank[d[t]] - 1, place |-> 1] :
      t \in {t \in Threads : h[t].app = a}}

AppSpots(s) == {[num |-> s[i].num, rank |-> 17, place |-> i] : i \in DOMAIN s}

Spots(a) == QueueSpots(a, queue) \cup HandSpots(a, hand, dst) \cup AppSpots(delivered[a])

(* What is further on is older. *)
Ordered(S) ==
  \A x, y \in S :
    x.rank > y.rank \/ (x.rank = y.rank /\ x.place < y.place) => x.num < y.num

InLine == \A a \in Apps : Ordered(Spots(a))

Somewhere(a, n) == \E x \in Spots(a) : x.num = n

Kept ==
  /\ \A a \in Apps : \A n \in Nat : <<a, n>> \in lost => n \in 1 .. sent[a]
  /\ \A a \in Apps : \A n \in 1 .. sent[a] : <<a, n>> \in lost <=> ~Somewhere(a, n)

StackInv ==
  /\ Shape
  /\ Capacity
  /\ Loops
  /\ Locks
  /\ Routed
  /\ InLine
  /\ Kept

-----------------------------------------------------------------------------
(***************************************************************************)
(* The routes, spelled out.                                                *)
(***************************************************************************)

LEMMA LineNames ==
  /\ Pipes = {"ftp", "telnet", "rdp", "dns", "tcp", "tcp2", "udp", "udp2", "ip", "ip2",
              "eth", "eth_up", "ip_up", "ip2_up", "tcp_up", "tcp2_up", "udp_up", "udp2_up"}
  /\ Lines = Pipes \cup {"socket"}
  /\ "socket" \notin Pipes /\ "none" \notin Lines
<1>1. DOMAIN HlpOf = {"ftp", "telnet", "rdp", "dns", "tcp", "tcp2", "udp", "udp2",
                      "ip", "ip2", "eth"}
  BY DEF HlpOf
<1>2. {DeliverIn[p] : p \in Protocols \ {"ETH"}} =
        {"eth_up", "ip_up", "ip2_up", "tcp_up", "tcp2_up", "udp_up", "udp2_up"}
  BY DEF DeliverIn, Protocols, AllApps
<1>3. Pipes = {"ftp", "telnet", "rdp", "dns", "tcp", "tcp2", "udp", "udp2", "ip", "ip2",
              "eth", "eth_up", "ip_up", "ip2_up", "tcp_up", "tcp2_up", "udp_up", "udp2_up"}
  BY <1>1, <1>2, Zenon DEF Pipes
<1> QED
  BY <1>3 DEF Lines

LEMMA RankAndUsers ==
  ASSUME NEW p \in Lines
  PROVE  Rank[p] \in 1 .. 8 /\ Users[p] \subseteq AllApps
BY LineNames DEF Rank, Users, AllApps

(* An application uses one pipe of each rank. *)
LEMMA OneLine ==
  ASSUME NEW p \in Lines, NEW q \in Lines, Rank[p] = Rank[q],
         NEW a \in Users[p], a \in Users[q]
  PROVE  p = q
<1>1. Rank[p] = 1 => p \in {"ftp", "telnet", "rdp", "dns"}
  BY LineNames DEF Rank
<1>2. Rank[p] = 2 => p \in {"tcp", "tcp2", "udp", "udp2"}
  BY LineNames DEF Rank
<1> QED
  BY LineNames DEF Rank, Users, AllApps

LEMMA OnlyEthWritesSocket ==
  /\ Writer["socket"] = Send("ETH")
  /\ \A p \in Lines : Writer[p] = Send("ETH") => p = "socket"
BY LineNames DEF Writer, Send, Poll, Deliver

(* The pipes a thread selects on are those that it alone reads. *)
LEMMA InputsAreRead ==
  ASSUME NEW t \in Threads, NEW p
  PROVE  p \in ToSet(Inputs(t)) <=> p \in Lines /\ Reader[p] = t
<1>1. CASE \E a \in Apps : t = Poll(a)
  BY <1>1, LineNames DEF Inputs, ToSet, Poll, Reader, Send, Deliver
<1>2. ASSUME NEW q \in Protocols, t = Send(q)
      PROVE  p \in ToSet(Inputs(t)) <=> p \in Lines /\ Reader[p] = t
  <2>1. Inputs(t) = SendIn[q]
    BY <1>2 DEF Inputs, Send
  <2>2. ToSet(SendIn[q]) =
          CASE q = "FTP" -> {"ftp"} [] q = "TELNET" -> {"telnet"} [] q = "RDP" -> {"rdp"}
            [] q = "DNS" -> {"dns"} [] q = "TCP" -> {"tcp", "tcp2"}
            [] q = "UDP" -> {"udp", "udp2"} [] q = "IP" -> {"ip", "ip2"} [] q = "ETH" -> {"eth"}
    BY DEF SendIn, ToSet, Protocols, AllApps
  <2> QED
    BY <1>2, <2>1, <2>2, LineNames DEF Reader, Send, Deliver, Protocols, AllApps
<1>3. ASSUME NEW q \in Protocols, t = Deliver(q)
      PROVE  p \in ToSet(Inputs(t)) <=> p \in Lines /\ Reader[p] = t
  <2>1. Inputs(t) = <<DeliverIn[q]>>
    BY <1>3 DEF Inputs, Deliver
  <2>2. ToSet(Inputs(t)) = {DeliverIn[q]}
    BY <2>1 DEF ToSet
  <2>3. p = DeliverIn[q] => p \in Lines /\ Reader[p] = t
    BY <1>3, LineNames DEF Reader, Deliver, DeliverIn, Protocols, AllApps
  <2>4. p \in Lines /\ Reader[p] = t => p = DeliverIn[q]
    BY <1>3, LineNames DEF Reader, Send, Deliver, DeliverIn, Protocols, AllApps
  <2> QED
    BY <2>2, <2>3, <2>4
<1> QED
  BY <1>1, <1>2, <1>3 DEF Threads

LEMMA HeadersFit ==
  ASSUME NEW a \in AllApps
  PROVE  /\ Hdrs1(a) \in Seq(Headers) /\ Hdrs2(a) \in Seq(Headers)
         /\ Hdrs3(a) \in Seq(Headers) /\ Hdrs4(a) \in Seq(Headers)
         /\ \A r \in 1 .. 9 : HdrsAt(r, a) \in Seq(Headers)
         /\ Transport[a] \in {"TCP", "UDP"}
<1>1. Transport[a] \in {"TCP", "UDP"}
  BY DEF Transport, AllApps
<1>2. /\ [of |-> a, hlp |-> a] \in Headers
      /\ [of |-> Transport[a], hlp |-> a] \in Headers
      /\ [of |-> "IP", hlp |-> Transport[a]] \in Headers
      /\ [of |-> "ETH", hlp |-> "IP"] \in Headers
  BY <1>1 DEF Headers, Protocols
<1>3. Hdrs1(a) \in Seq(Headers)
  BY <1>2 DEF Hdrs1
<1>4. Hdrs2(a) \in Seq(Headers)
  BY <1>2, <1>3 DEF Hdrs2
<1>5. Hdrs3(a) \in Seq(Headers)
  BY <1>2, <1>4 DEF Hdrs3
<1>6. Hdrs4(a) \in Seq(Headers)
  BY <1>2, <1>5 DEF Hdrs4
<1>7. ASSUME NEW r \in 1 .. 9
      PROVE  HdrsAt(r, a) \in Seq(Headers)
  <2>1. r \in {1, 2, 3, 4, 5, 6, 7, 8, 9}
    BY <1>7
  <2> QED
    BY <2>1, <1>3, <1>4, <1>5, <1>6 DEF HdrsAt
<1> QED
  BY <1>1, <1>3, <1>4, <1>5, <1>6, <1>7

LEMMA HdrsOf ==
  ASSUME NEW a
  PROVE  /\ HdrsAt(1, a) = <<>> /\ HdrsAt(2, a) = Hdrs1(a) /\ HdrsAt(3, a) = Hdrs2(a)
         /\ HdrsAt(4, a) = Hdrs3(a) /\ HdrsAt(5, a) = Hdrs4(a) /\ HdrsAt(6, a) = Hdrs3(a)
         /\ HdrsAt(7, a) = Hdrs2(a) /\ HdrsAt(8, a) = Hdrs1(a) /\ HdrsAt(9, a) = <<>>
BY DEF HdrsAt

(* The headers of one rank and of the next. *)
LEMMA HdrsChain ==
  ASSUME NEW a
  PROVE  /\ HdrsAt(2, a) = <<[of |-> a, hlp |-> a]>> \o HdrsAt(1, a)
         /\ HdrsAt(3, a) = <<[of |-> Transport[a], hlp |-> a]>> \o HdrsAt(2, a)
         /\ HdrsAt(4, a) = <<[of |-> "IP", hlp |-> Transport[a]]>> \o HdrsAt(3, a)
         /\ HdrsAt(5, a) = <<[of |-> "ETH", hlp |-> "IP"]>> \o HdrsAt(4, a)
         /\ HdrsAt(5, a) = <<[of |-> "ETH", hlp |-> "IP"]>> \o HdrsAt(6, a)
         /\ HdrsAt(6, a) = <<[of |-> "IP", hlp |-> Transport[a]]>> \o HdrsAt(7, a)
         /\ HdrsAt(7, a) = <<[of |-> Transport[a], hlp |-> a]>> \o HdrsAt(8, a)
         /\ HdrsAt(8, a) = <<[of |-> a, hlp |-> a]>> \o HdrsAt(9, a)
BY HdrsOf, Zenon DEF Hdrs1, Hdrs2, Hdrs3, Hdrs4

(* On the way down: a send thread writes to the next pipe of the chain,    *)
(* with the header that belongs there.                                     *)
LEMMA DownRoute ==
  ASSUME NEW p \in Protocols, NEW s \in Lines, Reader[s] = Send(p), NEW a \in Users[s]
  PROVE  /\ SendOut[p] \in Lines /\ Writer[SendOut[p]] = Send(p)
         /\ Rank[SendOut[p]] = Rank[s] + 1 /\ Rank[s] \in 1 .. 4
         /\ a \in Users[SendOut[p]]
         /\ HlpOf[s] \in Protocols
         /\ <<[of |-> p, hlp |-> HlpOf[s]]>> \o HdrsAt(Rank[s], a) = HdrsAt(Rank[s] + 1, a)
<1>1. /\ p = "FTP" => s = "ftp"
      /\ p = "TELNET" => s = "telnet"
      /\ p = "RDP" => s = "rdp"
      /\ p = "DNS" => s = "dns"
      /\ p = "TCP" => s \in {"tcp", "tcp2"}
      /\ p = "UDP" => s \in {"udp", "udp2"}
      /\ p = "IP" => s \in {"ip", "ip2"}
      /\ p = "ETH" => s = "eth"
  BY LineNames, SMTT(30) DEF Reader, Send, Deliver
<1>2. \/ p \in AllApps /\ Rank[s] = 1 /\ a = p /\ HlpOf[s] = a
      \/ p \in {"TCP", "UDP"} /\ Rank[s] = 2 /\ p = Transport[a] /\ HlpOf[s] = a
      \/ p = "IP" /\ Rank[s] = 3 /\ HlpOf[s] = Transport[a]
      \/ p = "ETH" /\ Rank[s] = 4 /\ HlpOf[s] = "IP"
  BY <1>1, SMTT(30) DEF Protocols, AllApps, Users, Rank, HlpOf, Transport
<1>3. /\ SendOut[p] \in Lines
      /\ Writer[SendOut[p]] = Send(p)
      /\ Rank[SendOut[p]] = Rank[s] + 1
      /\ a \in Users[SendOut[p]]
  BY <1>1, LineNames, SMTT(30) DEF SendOut, Protocols, AllApps, Writer, Rank, Users
<1>4. a \in AllApps /\ Transport[a] \in Protocols
  BY RankAndUsers, HeadersFit DEF Protocols
<1>5. Rank[s] \in 1 .. 4 /\ HlpOf[s] \in Protocols
  BY <1>2, <1>4 DEF Protocols
<1>6. CASE Rank[s] = 1
  <2>1. Rank[s] + 1 = 2 /\ p = a /\ HlpOf[s] = a
    BY <1>2, <1>6
  <2> QED
    BY <2>1, <1>3, <1>5, <1>6, HdrsChain, Zenon
<1>7. CASE Rank[s] = 2
  <2>1. Rank[s] + 1 = 3 /\ p = Transport[a] /\ HlpOf[s] = a
    BY <1>2, <1>7
  <2> QED
    BY <2>1, <1>3, <1>5, <1>7, HdrsChain, Zenon
<1>8. CASE Rank[s] = 3
  <2>1. Rank[s] + 1 = 4 /\ p = "IP" /\ HlpOf[s] = Transport[a]
    BY <1>2, <1>8
  <2> QED
    BY <2>1, <1>3, <1>5, <1>8, HdrsChain, Zenon
<1>9. CASE Rank[s] = 4
  <2>1. Rank[s] + 1 = 5 /\ p = "ETH" /\ HlpOf[s] = "IP"
    BY <1>2, <1>9
  <2>2. HdrsAt(4, a) = HdrsAt(6, a)
    BY HdrsOf
  <2> QED
    BY <2>1, <2>2, <1>3, <1>5, <1>9, HdrsChain, Zenon
<1> QED
  BY <1>2, <1>6, <1>7, <1>8, <1>9

(* On the way up: the first header, h, is the peer's, as long as the       *)
(* deliver thread takes it to be, and names the next pipe of the chain.    *)
Peer(h, p, s, a) ==
  /\ HdrsAt(Rank[s], a) = <<h>> \o HdrsAt(Rank[s] + 1, a)
  /\ AddedLen[h.of] = StrippedLen[p]
  /\ Rank[s] \in 5 .. 8
  /\ p \in AllApps <=> Rank[s] = 8
  /\ p \in AllApps => a = p
  /\ p = "ETH" => /\ "eth_up" \in Lines /\ Writer["eth_up"] = Deliver(p)
                  /\ Rank["eth_up"] = Rank[s] + 1 /\ a \in Users["eth_up"]
  /\ p \in DOMAIN DeliverOut =>
       /\ h.hlp \in DOMAIN DeliverOut[p]
       /\ DeliverOut[p][h.hlp] \in Lines
       /\ Writer[DeliverOut[p][h.hlp]] = Deliver(p)
       /\ Rank[DeliverOut[p][h.hlp]] = Rank[s] + 1
       /\ a \in Users[DeliverOut[p][h.hlp]]

LEMMA UpRoute ==
  ASSUME NEW p \in Protocols, NEW s \in Lines, Reader[s] = Deliver(p), NEW a \in Users[s]
  PROVE  \E h \in Headers : Peer(h, p, s, a)
<1>1. /\ p = "FTP" => s = "tcp_up"
      /\ p = "TELNET" => s = "tcp2_up"
      /\ p = "RDP" => s = "udp_up"
      /\ p = "DNS" => s = "udp2_up"
      /\ p = "TCP" => s = "ip_up"
      /\ p = "UDP" => s = "ip2_up"
      /\ p = "IP" => s = "eth_up"
      /\ p = "ETH" => s = "socket"
  BY LineNames, SMTT(30) DEF Reader, Send, Deliver
<1>2. a \in AllApps /\ DOMAIN DeliverOut = {"IP", "TCP", "UDP"}
  BY RankAndUsers DEF DeliverOut
<1>3. CASE p \in AllApps
  <2> DEFINE h == [of |-> a, hlp |-> a]
  <2>1. a = p /\ Rank[s] = 8
    BY <1>1, <1>3 DEF AllApps, Users, Rank
  <2>2. h \in Headers /\ h.of = a
    BY <1>2 DEF Headers, Protocols
  <2>7. Rank[s] + 1 = 9 /\ Rank[s] \in 5 .. 8 /\ (Rank[s] = 8 <=> TRUE)
    BY <2>1
  <2>3. HdrsAt(Rank[s], a) = <<h>> \o HdrsAt(Rank[s] + 1, a)
    BY <2>7, <2>1, HdrsChain, Zenon
  <2>4. AddedLen[a] = StrippedLen[a]
    BY <1>2 DEF AllApps, AddedLen, StrippedLen
  <2>5. p \notin {"IP", "TCP", "UDP", "ETH"}
    BY <1>3 DEF AllApps
  <2> HIDE DEF h
  <2> QED
    BY <1>2, <1>3, <2>7, <2>1, <2>2, <2>3, <2>4, <2>5, Zenon DEF Peer
<1>4. CASE p \in {"TCP", "UDP"}
  <2> DEFINE h == [of |-> p, hlp |-> a]
  <2>1. p = Transport[a] /\ Rank[s] = 7
    BY <1>1, <1>4 DEF Transport, Users, Rank
  <2>2. h \in Headers
    BY <1>2 DEF Headers, Protocols
  <2>7. Rank[s] + 1 = 8 /\ Rank[s] \in 5 .. 8 /\ (Rank[s] = 8 <=> FALSE)
    BY <2>1
  <2>3. HdrsAt(Rank[s], a) = <<h>> \o HdrsAt(Rank[s] + 1, a)
    BY <2>7, <2>1, HdrsChain, Zenon
  <2>4. AddedLen[p] = StrippedLen[p]
    BY <1>4 DEF AddedLen, StrippedLen
  <2>5. /\ a \in DOMAIN DeliverOut[p]
        /\ DeliverOut[p][a] \in Lines
        /\ Writer[DeliverOut[p][a]] = Deliver(p)
        /\ Rank[DeliverOut[p][a]] = 8
        /\ a \in Users[DeliverOut[p][a]]
    BY <1>1, <1>4, LineNames, SMTT(30) DEF DeliverOut, Users, Writer, Rank, Deliver
  <2>6. p \notin AllApps /\ p # "ETH" /\ h.of = p /\ h.hlp = a
    BY <1>4 DEF AllApps
  <2> HIDE DEF h
  <2> QED
    BY <2>7, <2>1, <2>2, <2>3, <2>4, <2>5, <2>6, Zenon DEF Peer
<1>5. CASE p = "IP"
  <2> DEFINE h == [of |-> "IP", hlp |-> Transport[a]]
  <2>1. Rank[s] = 6 /\ Transport[a] \in {"TCP", "UDP"}
    BY <1>1, <1>2, <1>5, HeadersFit DEF Rank
  <2>2. h \in Headers
    BY <2>1 DEF Headers, Protocols
  <2>7. Rank[s] + 1 = 7 /\ Rank[s] \in 5 .. 8 /\ (Rank[s] = 8 <=> FALSE)
    BY <2>1
  <2>3. HdrsAt(Rank[s], a) = <<h>> \o HdrsAt(Rank[s] + 1, a)
    BY <2>7, <2>1, HdrsChain, Zenon
  <2>4. AddedLen[p] = StrippedLen[p]
    BY <1>5 DEF AddedLen, StrippedLen
  <2>5. /\ Transport[a] \in DOMAIN DeliverOut[p]
        /\ DeliverOut[p][Transport[a]] \in Lines
        /\ Writer[DeliverOut[p][Transport[a]]] = Deliver(p)
        /\ Rank[DeliverOut[p][Transport[a]]] = 7
        /\ a \in Users[DeliverOut[p][Transport[a]]]
    BY <1>2, <1>5, LineNames, SMTT(30) DEF Transport, AllApps, DeliverOut, Users, Writer, Rank, Deliver
  <2>6. p \notin AllApps /\ p # "ETH" /\ h.of = p /\ h.hlp = Transport[a]
    BY <1>5 DEF AllApps
  <2> HIDE DEF h
  <2> QED
    BY <2>7, <2>1, <2>2, <2>3, <2>4, <2>5, <2>6, Zenon DEF Peer
<1>6. CASE p = "ETH"
  <2> DEFINE h == [of |-> "ETH", hlp |-> "IP"]
  <2>1. Rank[s] = 5
    BY <1>1, <1>6 DEF Rank
  <2>2. h \in Headers
    BY DEF Headers, Protocols
  <2>7. Rank[s] + 1 = 6 /\ Rank[s] \in 5 .. 8 /\ (Rank[s] = 8 <=> FALSE)
    BY <2>1
  <2>3. HdrsAt(Rank[s], a) = <<h>> \o HdrsAt(Rank[s] + 1, a)
    BY <2>7, <2>1, HdrsChain, Zenon
  <2>4. AddedLen[p] = StrippedLen[p] /\ h.of = p
    BY <1>6 DEF AddedLen, StrippedLen
  <2>5. "eth_up" \in Lines /\ Writer["eth_up"] = Deliver(p) /\ Rank["eth_up"] = 6
          /\ a \in Users["eth_up"]
    BY <1>2, <1>6, LineNames DEF Users, Writer, Rank
  <2>6. p \notin AllApps /\ p \notin DOMAIN DeliverOut
    BY <1>2, <1>6 DEF AllApps
  <2> HIDE DEF h
  <2> QED
    BY <2>7, <2>1, <2>2, <2>3, <2>4, <2>5, <2>6, Zenon DEF Peer
<1> QED
  BY <1>3, <1>4, <1>5, <1>6 DEF Protocols

-----------------------------------------------------------------------------
(***************************************************************************)
(* Headers, sequences and orders.                                          *)
(***************************************************************************)

LEMMA AddsHeader ==
  ASSUME NEW m \in Messages, NEW p \in Protocols, NEW hlp \in Protocols
  PROVE  LET x == AddHdr(m, p, hlp)
         IN  /\ x \in Messages
             /\ x.app = m.app /\ x.num = m.num
             /\ x.hdrs = <<[of |-> p, hlp |-> hlp]>> \o m.hdrs
<1> DEFINE h == <<[of |-> p, hlp |-> hlp]>> \o m.hdrs
<1>1. m.hdrs \in Seq(Headers) /\ [of |-> p, hlp |-> hlp] \in Headers
  BY DEF Messages, Headers
<1>2. h \in Seq(Headers)
  BY <1>1
<1> HIDE DEF h
<1>3. [m EXCEPT !.hdrs = h] \in Messages
  BY <1>2 DEF Messages
<1>4. /\ [m EXCEPT !.hdrs = h].app = m.app
      /\ [m EXCEPT !.hdrs = h].num = m.num
      /\ [m EXCEPT !.hdrs = h].hdrs = h
  BY DEF Messages
<1> USE DEF h
<1> QED
  BY <1>3, <1>4 DEF AddHdr

LEMMA StripsHeader ==
  ASSUME NEW m \in Messages, NEW h \in Headers, NEW s \in Seq(Headers),
         m.hdrs = <<h>> \o s, NEW n, AddedLen[h.of] = n
  PROVE  LET x == StripHdr(m, n)
         IN  /\ x \in Messages
             /\ x.app = m.app /\ x.num = m.num
             /\ x.hdrs = s
             /\ FirstHdr(m).hlp = h.hlp
<1>1. m.hdrs # <<>> /\ Head(m.hdrs) = h /\ Tail(m.hdrs) = s
  <2>1. <<h>> \o s # <<>> /\ Head(<<h>> \o s) = h
    OBVIOUS
  <2>2. Tail(<<h>> \o s) = s
    <3>1. Len(Tail(<<h>> \o s)) = Len(s) /\ Tail(<<h>> \o s) \in Seq(Headers)
      OBVIOUS
    <3>2. \A i \in 1 .. Len(s) : Tail(<<h>> \o s)[i] = s[i]
      OBVIOUS
    <3> QED
      BY <3>1, <3>2, SeqEqual
  <2> QED
    BY <2>1, <2>2, Zenon
<1>2. StripHdr(m, n) = [m EXCEPT !.hdrs = s]
  BY <1>1 DEF StripHdr
<1>3. FirstHdr(m).hlp = h.hlp
  BY <1>1 DEF FirstHdr
<1>4. /\ [m EXCEPT !.hdrs = s] \in Messages
      /\ [m EXCEPT !.hdrs = s].app = m.app
      /\ [m EXCEPT !.hdrs = s].num = m.num
      /\ [m EXCEPT !.hdrs = s].hdrs = s
  BY DEF Messages
<1> QED
  BY <1>2, <1>3, <1>4

LEMMA HeadAndTail ==
  ASSUME NEW S, NEW s \in Seq(S), s # <<>>
  PROVE  /\ Head(s) = s[1] /\ Head(s) \in S /\ 1 \in DOMAIN s
         /\ Tail(s) \in Seq(S) /\ Len(Tail(s)) = Len(s) - 1 /\ Len(s) \in Nat
         /\ DOMAIN Tail(s) = 1 .. Len(s) - 1
         /\ \A i \in DOMAIN Tail(s) : i + 1 \in DOMAIN s /\ Tail(s)[i] = s[i + 1]
OBVIOUS

LEMMA AtTheEnd ==
  ASSUME NEW S, NEW s \in Seq(S), NEW x \in S
  PROVE  /\ Append(s, x) \in Seq(S)
         /\ Len(Append(s, x)) = Len(s) + 1 /\ Len(s) \in Nat
         /\ DOMAIN Append(s, x) = 1 .. Len(s) + 1 /\ DOMAIN s = 1 .. Len(s)
         /\ \A i \in DOMAIN s : i \in DOMAIN Append(s, x) /\ Append(s, x)[i] = s[i]
         /\ Append(s, x)[Len(s) + 1] = x
OBVIOUS

Spot == [num : Nat, rank : Nat, place : Nat]

(* What a step does to the spots: the first of one rank goes to the end of *)
(* the next rank, the others of its rank move up, the rest stay.           *)
Moved(S, T, r, k) ==
  \A x \in T :
    \/ x \in S /\ x.rank # r
    \/ /\ x.rank = r /\ x.place \in Nat \ {0}
       /\ \E y \in S : y.num = x.num /\ y.rank = r /\ y.place = x.place + 1
    \/ /\ x.rank = r + 1 /\ x.place = k
       /\ \E y \in S : y.num = x.num /\ y.rank = r /\ y.place = 1

LEMMA MoveKeepsOrder ==
  ASSUME NEW S, NEW T, S \subseteq Spot, NEW r \in Nat, NEW k \in Nat,
         Ordered(S), Moved(S, T, r, k),
         \A y \in S : y.rank = r + 1 => y.place <= k
  PROVE  Ordered(T)
<1> DEFINE Ahead(x, y) == x.rank > y.rank \/ (x.rank = y.rank /\ x.place < y.place)
<1>1. SUFFICES ASSUME NEW x \in T, NEW y \in T, Ahead(x, y)
               PROVE  x.num < y.num
  BY DEF Ordered
<1>2. \A u, v \in S : Ahead(u, v) => u.num < v.num
  BY DEF Ordered
<1>3. /\ x.num \in Nat /\ x.rank \in Nat /\ x.place \in Nat
      /\ y.num \in Nat /\ y.rank \in Nat /\ y.place \in Nat
  <2>1. \A z \in T : z.num \in Nat /\ z.rank \in Nat /\ z.place \in Nat
    BY DEF Moved, Spot
  <2> QED
    BY <2>1
<1>4. CASE x \in S /\ x.rank # r
  <2>1. CASE y \in S /\ y.rank # r
    BY <1>1, <1>2, <1>4, <2>1
  <2>2. CASE \E v \in S : v.num = y.num /\ v.rank = r /\ y.rank = r
    <3>1. PICK v \in S : v.num = y.num /\ v.rank = r /\ y.rank = r
      BY <2>2
    <3>2. Ahead(x, v)
      BY <1>1, <1>3, <1>4, <3>1 DEF Spot
    <3> QED
      BY <1>2, <1>4, <3>1, <3>2
  <2>3. CASE y.rank = r + 1 /\ y.place = k /\ \E v \in S : v.num = y.num /\ v.rank = r
    <3>1. PICK v \in S : v.num = y.num /\ v.rank = r
      BY <2>3
    <3>2. Ahead(x, v)
      BY <1>1, <1>3, <1>4, <2>3, <3>1 DEF Spot
    <3> QED
      BY <1>2, <1>4, <3>1, <3>2
  <2> QED
    BY <2>1, <2>2, <2>3 DEF Moved
<1>5. CASE x.rank = r /\ x.place \in Nat \ {0}
             /\ \E u \in S : u.num = x.num /\ u.rank = r /\ u.place = x.place + 1
  <2>1. PICK u \in S : u.num = x.num /\ u.rank = r /\ u.place = x.place + 1
    BY <1>5
  <2>2. CASE y \in S /\ y.rank # r
    <3>1. Ahead(u, y)
      BY <1>1, <1>3, <1>5, <2>1, <2>2 DEF Spot
    <3> QED
      BY <1>2, <2>1, <2>2, <3>1
  <2>3. CASE y.rank = r /\ \E v \in S : v.num = y.num /\ v.rank = r /\ v.place = y.place + 1
    <3>1. PICK v \in S : v.num = y.num /\ v.rank = r /\ v.place = y.place + 1
      BY <2>3
    <3>2. Ahead(u, v)
      BY <1>1, <1>3, <1>5, <2>1, <2>3, <3>1 DEF Spot
    <3> QED
      BY <1>2, <2>1, <3>1, <3>2
  <2>4. CASE y.rank = r + 1
    BY <1>1, <1>3, <1>5, <2>4 DEF Spot
  <2> QED
    BY <2>2, <2>3, <2>4 DEF Moved
<1>6. CASE x.rank = r + 1 /\ x.place = k
             /\ \E u \in S : u.num = x.num /\ u.rank = r /\ u.place = 1
  <2>1. PICK u \in S : u.num = x.num /\ u.rank = r /\ u.place = 1
    BY <1>6
  <2>2. CASE y \in S /\ y.rank # r
    <3>1. Ahead(u, y)
      BY <1>1, <1>3, <1>6, <2>1, <2>2 DEF Spot
    <3> QED
      BY <1>2, <2>1, <2>2, <3>1
  <2>3. CASE y.rank = r /\ y.place \in Nat \ {0}
               /\ \E v \in S : v.num = y.num /\ v.rank = r /\ v.place = y.place + 1
    <3>1. PICK v \in S : v.num = y.num /\ v.rank = r /\ v.place = y.place + 1
      BY <2>3
    <3>2. Ahead(u, v)
      BY <1>3, <2>1, <2>3, <3>1 DEF Spot
    <3> QED
      BY <1>2, <2>1, <3>1, <3>2
  <2>4. CASE y.rank = r + 1 /\ y.place = k
    BY <1>1, <1>3, <1>6, <2>4 DEF Spot
  <2> QED
    BY <2>2, <2>3, <2>4 DEF Moved
<1> QED
  BY <1>4, <1>5, <1>6 DEF Moved

LEMMA MoveKeepsNums ==
  ASSUME NEW S, NEW T, NEW r, NEW k, Moved(S, T, r, k), NEW x \in T
  PROVE  \E y \in S : y.num = x.num
BY DEF Moved

LEMMA FewerKeepOrder ==
  ASSUME NEW S, NEW T, T \subseteq S, Ordered(S)
  PROVE  Ordered(T)
BY DEF Ordered

(* A message that has just been created is behind all others. *)
LEMMA NewKeepsOrder ==
  ASSUME NEW S, NEW T, S \subseteq Spot, NEW n \in Nat,
         Ordered(S), T \subseteq S \cup {[num |-> n, rank |-> 1, place |-> 1]},
         \A y \in S : y.num < n /\ y.rank >= 1 /\ (y.rank = 1 => y.place = 1)
  PROVE  Ordered(T)
<1>1. SUFFICES ASSUME NEW x \in T, NEW y \in T,
                      x.rank > y.rank \/ (x.rank = y.rank /\ x.place < y.place)
               PROVE  x.num < y.num
  BY DEF Ordered
<1>2. CASE x \in S /\ y \in S
  BY <1>1, <1>2 DEF Ordered
<1>3. CASE x \in S /\ y \notin S
  BY <1>3
<1>4. CASE x \notin S /\ y \in S
  <2>1. x.rank = 1 /\ x.place = 1
    BY <1>4
  <2>2. y.rank \in Nat /\ y.place \in Nat /\ y.rank >= 1 /\ (y.rank = 1 => y.place = 1)
    BY <1>4 DEF Spot
  <2> QED
    BY <1>1, <2>1, <2>2
<1>5. CASE x \notin S /\ y \notin S
  BY <1>1, <1>5
<1> QED
  BY <1>2, <1>3, <1>4, <1>5

(* Spots of the same message are the same. *)
LEMMA OneSpot ==
  ASSUME NEW S, S \subseteq Spot, Ordered(S), NEW x \in S, NEW y \in S, x.num = y.num
  PROVE  x = y
<1>1. x.num \in Nat /\ x.rank \in Nat /\ y.rank \in Nat /\ x.place \in Nat /\ y.place \in Nat
  BY DEF Spot
<1>2. ~(x.num < y.num) /\ ~(y.num < x.num)
  BY <1>1
<1>3. x.rank = y.rank /\ x.place = y.place
  BY <1>1, <1>2 DEF Ordered
<1> QED
  BY <1>3 DEF Spot

-----------------------------------------------------------------------------
(***************************************************************************)
(* Spots of a state.                                                       *)
(***************************************************************************)

LEMMA QueueSpot ==
  ASSUME NEW a, NEW q, NEW x
  PROVE  x \in QueueSpots(a, q) <=>
           \E p \in Lines : \E i \in DOMAIN q[p] :
             /\ q[p][i].app = a
             /\ x = [num |-> q[p][i].num, rank |-> 2 * Rank[p], place |-> i]
<1> DEFINE Of(p) == {[num |-> q[p][i].num, rank |-> 2 * Rank[p], place |-> i] :
                       i \in {i \in DOMAIN q[p] : q[p][i].app = a}}
<1>1. \A p : x \in Of(p) <=>
        \E i \in DOMAIN q[p] :
          q[p][i].app = a /\ x = [num |-> q[p][i].num, rank |-> 2 * Rank[p], place |-> i]
  BY Zenon
<1>2. QueueSpots(a, q) = UNION {Of(p) : p \in Lines}
  BY Zenon DEF QueueSpots
<1> HIDE DEF Of
<1>3. x \in QueueSpots(a, q) <=> \E p \in Lines : x \in Of(p)
  BY <1>2, Zenon
<1> QED
  BY <1>1, <1>3, Zenon

LEMMA HandSpot ==
  ASSUME NEW a, NEW h, NEW d, NEW x
  PROVE  x \in HandSpots(a, h, d) <=>
           \E t \in Threads :
             h[t].app = a /\ x = [num |-> h[t].num, rank |-> 2 * Rank[d[t]] - 1, place |-> 1]
BY Zenon DEF HandSpots

LEMMA AppSpot ==
  ASSUME NEW s, NEW x
  PROVE  x \in AppSpots(s) <=>
           \E i \in DOMAIN s : x = [num |-> s[i].num, rank |-> 17, place |-> i]
BY Zenon DEF AppSpots

LEMMA NoMsgHasNoApp == NoMsg.app \notin Apps /\ NoMsg \notin Messages
BY StackAssumption DEF NoMsg, Fresh, Messages, AllApps

(* Who holds a message knows where to write it. *)
LEMMA HandHasDst ==
  ASSUME Loops, NEW t \in Threads, hand[t].app \in Apps
  PROVE  /\ hand[t] \in Messages /\ dst[t] \in Lines /\ Writer[dst[t]] = t
         /\ pc[t] \in {"lock", "write"}
BY NoMsgHasNoApp DEF Loops, Holds

LEMMA QueueRanks ==
  ASSUME Shape, NEW a \in Apps, NEW x \in QueueSpots(a, queue)
  PROVE  /\ x \in Spot /\ x.place >= 1
         /\ \E r \in 1 .. 8 : x.rank = 2 * r
<1>0. PICK p \in Lines : \E i \in DOMAIN queue[p] :
        x = [num |-> queue[p][i].num, rank |-> 2 * Rank[p], place |-> i]
  BY QueueSpot
<1>1. PICK i \in DOMAIN queue[p] :
        x = [num |-> queue[p][i].num, rank |-> 2 * Rank[p], place |-> i]
  BY <1>0
<1>2. Rank[p] \in 1 .. 8
  BY RankAndUsers
<1>3. queue[p] \in Seq(Messages)
  BY DEF Shape
<1>4. queue[p][i] \in Messages /\ i \in 1 .. Len(queue[p])
  BY <1>3
<1>5. queue[p][i].num \in Nat /\ i \in Nat /\ i >= 1
  BY <1>4 DEF Messages
<1>6. 2 * Rank[p] \in Nat
  BY <1>2
<1> QED
  BY <1>1, <1>2, <1>5, <1>6 DEF Spot

LEMMA HandRanks ==
  ASSUME Shape, Loops, NEW a \in Apps, NEW x \in HandSpots(a, hand, dst)
  PROVE  /\ x \in Spot /\ x.place = 1
         /\ \E r \in 1 .. 8 : x.rank = 2 * r - 1
<1>1. PICK t \in Threads :
        hand[t].app = a /\ x = [num |-> hand[t].num, rank |-> 2 * Rank[dst[t]] - 1, place |-> 1]
  BY HandSpot
<1>2. hand[t] \in Messages /\ dst[t] \in Lines
  BY <1>1, HandHasDst
<1>3. Rank[dst[t]] \in 1 .. 8
  BY <1>2, RankAndUsers
<1>4. hand[t].num \in Nat
  BY <1>2 DEF Messages
<1>5. 2 * Rank[dst[t]] - 1 \in Nat
  BY <1>3
<1> QED
  BY <1>1, <1>3, <1>4, <1>5 DEF Spot

LEMMA AppRanks ==
  ASSUME Shape, NEW a \in Apps, NEW x \in AppSpots(delivered[a])
  PROVE  /\ x \in Spot /\ x.rank = 17
         /\ x.place \in 1 .. Len(delivered[a]) /\ Len(delivered[a]) \in Nat
<1>1. PICK i \in DOMAIN delivered[a] : x = [num |-> delivered[a][i].num, rank |-> 17, place |-> i]
  BY AppSpot
<1>2. delivered[a] \in Seq(Messages)
  BY StackAssumption DEF Shape
<1>3. delivered[a][i] \in Messages /\ i \in 1 .. Len(delivered[a]) /\ Len(delivered[a]) \in Nat
  BY <1>2
<1>4. delivered[a][i].num \in Nat /\ i \in Nat
  BY <1>3 DEF Messages
<1> QED
  BY <1>1, <1>3, <1>4 DEF Spot

LEMMA SpotRanks ==
  ASSUME Shape, Loops, NEW a \in Apps
  PROVE  /\ Spots(a) \subseteq Spot
         /\ \A x \in Spots(a) : x.rank >= 1 /\ (x.rank = 1 => x.place = 1)
<1>1. SUFFICES ASSUME NEW x \in Spots(a)
               PROVE  x \in Spot /\ x.rank >= 1 /\ (x.rank = 1 => x.place = 1)
  OBVIOUS
<1>2. CASE x \in QueueSpots(a, queue)
  BY <1>2, QueueRanks
<1>3. CASE x \in HandSpots(a, hand, dst)
  BY <1>3, HandRanks
<1>4. CASE x \in AppSpots(delivered[a])
  BY <1>4, AppRanks
<1> QED
  BY <1>2, <1>3, <1>4 DEF Spots

(* All messages anywhere have been created. *)
LEMMA SpotNums ==
  ASSUME Shape, Loops, Routed, NEW a \in Apps, NEW x \in Spots(a)
  PROVE  x.num \in 1 .. sent[a]
<1>1. CASE x \in QueueSpots(a, queue)
  <2>0. PICK p \in Lines : \E i \in DOMAIN queue[p] :
          queue[p][i].app = a /\ x = [num |-> queue[p][i].num, rank |-> 2 * Rank[p], place |-> i]
    BY <1>1, QueueSpot
  <2>1. PICK i \in DOMAIN queue[p] :
          queue[p][i].app = a /\ x = [num |-> queue[p][i].num, rank |-> 2 * Rank[p], place |-> i]
    BY <2>0
  <2> QED
    BY <2>1 DEF Routed, Fits
<1>2. CASE x \in HandSpots(a, hand, dst)
  <2>1. PICK t \in Threads :
          hand[t].app = a /\ x = [num |-> hand[t].num, rank |-> 2 * Rank[dst[t]] - 1, place |-> 1]
    BY <1>2, HandSpot
  <2>2. hand[t] # NoMsg
    BY <2>1, NoMsgHasNoApp
  <2> QED
    BY <2>1, <2>2 DEF Routed, Fits
<1>3. CASE x \in AppSpots(delivered[a])
  <2>1. PICK i \in DOMAIN delivered[a] :
          x = [num |-> delivered[a][i].num, rank |-> 17, place |-> i]
    BY <1>3, AppSpot
  <2>2. delivered[a][i].app \in {a} /\ delivered[a][i].num \in 1 .. sent[delivered[a][i].app]
    BY StackAssumption DEF Routed, Fits
  <2> QED
    BY <2>1, <2>2
<1> QED
  BY <1>1, <1>2, <1>3 DEF Spots

-----------------------------------------------------------------------------
(***************************************************************************)
(* The kinds of step.                                                      *)
(***************************************************************************)

(* Thread t has read the first message of s and will write it, as x, to d. *)
Took(t, s, x, d) ==
  /\ t \in Threads /\ pc[t] = "read" /\ src[t] = s
  /\ s \in Lines /\ Reader[s] = t /\ queue[s] # <<>>
  /\ d \in Lines /\ Writer[d] = t /\ Rank[d] = Rank[s] + 1
  /\ x \in Messages
  /\ x.app = Head(queue[s]).app /\ x.num = Head(queue[s]).num
  /\ x.app \in Users[d] /\ x.hdrs = HdrsAt(Rank[d], x.app)
  /\ queue' = [queue EXCEPT ![s] = Tail(@)]
  /\ Carry(t, x, d)
  /\ UNCHANGED <<holder, sent, payload, delivered, lost>>

(* Thread t has given the first message of s, as x, to application p. *)
Gave(t, s, x, p) ==
  /\ t \in Threads /\ pc[t] = "read" /\ src[t] = s
  /\ s \in Lines /\ Reader[s] = t /\ queue[s] # <<>> /\ Rank[s] = 8
  /\ p \in AllApps
  /\ x \in Messages
  /\ x.app = Head(queue[s]).app /\ x.num = Head(queue[s]).num
  /\ x.app = p /\ x.hdrs = <<>>
  /\ queue' = [queue EXCEPT ![s] = Tail(@)]
  /\ delivered' = [delivered EXCEPT ![p] = Append(@, x)]
  /\ Loop(t)
  /\ UNCHANGED <<holder, sent, payload, lost>>

(* Thread t has put what it had, as x, at the end of d. *)
Placed(t, x, d) ==
  /\ t \in Threads /\ d \in Lines /\ dst[t] = d
  /\ hand[t] \in Messages
  /\ x \in Messages /\ x.app = hand[t].app /\ x.num = hand[t].num /\ x.hdrs = hand[t].hdrs
  /\ queue' = [queue EXCEPT ![d] = Append(@, x)]
  /\ \/ /\ d \in Pipes /\ pc[t] = "write" /\ Len(queue[d]) < PipeCap
        /\ holder' = [holder EXCEPT ![d] = Nobody]
     \/ /\ d = "socket" /\ pc[t] = "lock" /\ Len(queue[d]) < SockCap
        /\ UNCHANGED holder
  /\ Loop(t)
  /\ UNCHANGED <<sent, payload, delivered, lost>>

(* Thread t has found the socket full. *)
Dropped(t) ==
  /\ t \in Threads /\ pc[t] = "lock" /\ dst[t] = "socket"
  /\ hand[t] \in Messages
  /\ lost' = lost \cup {<<hand[t].app, hand[t].num>>}
  /\ Loop(t)
  /\ UNCHANGED <<queue, holder, sent, payload, delivered>>

(* What is at the head of the pipe that a thread is to read. *)
LEMMA FirstFits ==
  ASSUME Shape, Loops, Routed, NEW t \in Threads, pc[t] = "read"
  PROVE  /\ src[t] \in Lines /\ Reader[src[t]] = t /\ queue[src[t]] # <<>>
         /\ Head(queue[src[t]]) \in Messages
         /\ Fits(Head(queue[src[t]]), Users[src[t]], Rank[src[t]])
<1>1. src[t] \in Lines /\ Reader[src[t]] = t /\ queue[src[t]] # <<>>
  BY DEF Loops, Reads
<1>2. queue[src[t]] \in Seq(Messages)
  BY <1>1 DEF Shape
<1>3. Head(queue[src[t]]) = queue[src[t]][1] /\ 1 \in DOMAIN queue[src[t]]
        /\ Head(queue[src[t]]) \in Messages
  BY <1>1, <1>2, HeadAndTail
<1> QED
  BY <1>1, <1>3 DEF Routed

LEMMA ReadDownTakes ==
  ASSUME Shape, Loops, Routed, NEW p \in Protocols, ReadDown(p)
  PROVE  \E s, x, d : Took(Send(p), s, x, d)
<1> DEFINE t == Send(p)
           s == src[t]
           m == Head(queue[s])
           x == AddHdr(m, p, HlpOf[s])
           d == SendOut[p]
<1>1. t \in Threads /\ pc[t] = "read"
  BY DEF Threads, ReadDown, Read
<1>2. s \in Lines /\ Reader[s] = t /\ queue[s] # <<>> /\ m \in Messages
        /\ Fits(m, Users[s], Rank[s])
  BY <1>1, FirstFits
<1>3. /\ queue' = [queue EXCEPT ![s] = Tail(@)]
      /\ Carry(t, x, d)
      /\ UNCHANGED <<holder, sent, payload, delivered, lost>>
  BY DEF ReadDown, Read
<1> HIDE DEF t, s, m, d
<1>4. m.app \in Users[s] /\ m.hdrs = HdrsAt(Rank[s], m.app)
  BY <1>2 DEF Fits
<1>5. Reader[s] = Send(p)
  BY <1>2 DEF t
<1>6. /\ d \in Lines /\ Writer[d] = t /\ Rank[d] = Rank[s] + 1
      /\ m.app \in Users[d] /\ HlpOf[s] \in Protocols
      /\ <<[of |-> p, hlp |-> HlpOf[s]]>> \o HdrsAt(Rank[s], m.app) = HdrsAt(Rank[s] + 1, m.app)
  BY <1>2, <1>4, <1>5, DownRoute DEF t, d
<1>7. /\ x \in Messages /\ x.app = m.app /\ x.num = m.num
      /\ x.hdrs = <<[of |-> p, hlp |-> HlpOf[s]]>> \o m.hdrs
  BY <1>2, <1>6, AddsHeader
<1>8. x.hdrs = HdrsAt(Rank[d], x.app)
  BY <1>4, <1>6, <1>7, Zenon
<1> HIDE DEF x
<1>9. Took(t, s, x, d)
  BY <1>1, <1>2, <1>3, <1>6, <1>7, <1>8, Zenon DEF Took, m, s
<1> QED
  BY <1>9 DEF t

LEMMA ReadUpTakesOrGives ==
  ASSUME Shape, Loops, Routed, NEW p \in Protocols, ReadUp(p)
  PROVE  \E s, x, d : Took(Deliver(p), s, x, d) \/ Gave(Deliver(p), s, x, d)
<1> DEFINE t == Deliver(p)
           s == src[t]
           m == Head(queue[s])
           x == StripHdr(m, StrippedLen[p])
           hlp == FirstHdr(m).hlp
<1>1. t \in Threads /\ pc[t] = "read"
  BY DEF Threads, ReadUp, Read
<1>2. s \in Lines /\ Reader[s] = t /\ queue[s] # <<>> /\ m \in Messages
        /\ Fits(m, Users[s], Rank[s])
  BY <1>1, FirstFits
<1>3. /\ queue' = [queue EXCEPT ![s] = Tail(@)]
      /\ UNCHANGED <<holder, sent, payload, lost>>
      /\ \/ /\ p \in AllApps
            /\ delivered' = [delivered EXCEPT ![p] = Append(@, x)]
            /\ Loop(t)
         \/ /\ p = "ETH"
            /\ Carry(t, x, "eth_up")
            /\ UNCHANGED delivered
         \/ /\ p \in DOMAIN DeliverOut
            /\ IF hlp \in DOMAIN DeliverOut[p] THEN Carry(t, x, DeliverOut[p][hlp]) ELSE Loop(t)
            /\ UNCHANGED delivered
  BY DEF ReadUp, Read
<1> HIDE DEF t, s, m, hlp
<1>4. m.app \in Users[s] /\ m.hdrs = HdrsAt(Rank[s], m.app)
  BY <1>2 DEF Fits
<1>5. Reader[s] = Deliver(p)
  BY <1>2 DEF t
<1>peer. PICK h \in Headers : Peer(h, p, s, m.app)
  BY <1>2, <1>4, <1>5, UpRoute
<1>6. /\ HdrsAt(Rank[s], m.app) = <<h>> \o HdrsAt(Rank[s] + 1, m.app)
      /\ AddedLen[h.of] = StrippedLen[p]
      /\ Rank[s] \in 5 .. 8
      /\ p \in AllApps <=> Rank[s] = 8
      /\ p \in AllApps => m.app = p
      /\ p = "ETH" => /\ "eth_up" \in Lines /\ Writer["eth_up"] = Deliver(p)
                      /\ Rank["eth_up"] = Rank[s] + 1 /\ m.app \in Users["eth_up"]
      /\ p \in DOMAIN DeliverOut =>
           /\ h.hlp \in DOMAIN DeliverOut[p]
           /\ DeliverOut[p][h.hlp] \in Lines
           /\ Writer[DeliverOut[p][h.hlp]] = Deliver(p)
           /\ Rank[DeliverOut[p][h.hlp]] = Rank[s] + 1
           /\ m.app \in Users[DeliverOut[p][h.hlp]]
  BY <1>peer, Zenon DEF Peer
<1>7. m.app \in AllApps /\ Rank[s] + 1 \in 1 .. 9
  BY <1>2, <1>4, <1>6, RankAndUsers
<1>8. HdrsAt(Rank[s] + 1, m.app) \in Seq(Headers)
  BY <1>7, HeadersFit
<1>9. /\ x \in Messages /\ x.app = m.app /\ x.num = m.num
      /\ x.hdrs = HdrsAt(Rank[s] + 1, x.app)
      /\ hlp = h.hlp
  <2> DEFINE below == HdrsAt(Rank[s] + 1, m.app)
  <2>1. m.hdrs = <<h>> \o below
    BY <1>4, <1>6, Zenon
  <2>2. below \in Seq(Headers) /\ AddedLen[h.of] = StrippedLen[p]
    BY <1>6, <1>8
  <2> HIDE DEF below
  <2>3. x \in Messages /\ x.app = m.app /\ x.num = m.num /\ x.hdrs = below /\ hlp = h.hlp
    BY <1>2, <2>1, <2>2, StripsHeader DEF hlp
  <2> QED
    BY <2>3 DEF below
<1> HIDE DEF x
<1>10. CASE p \in AllApps
  <2>1. p # "ETH" /\ p \notin DOMAIN DeliverOut
    BY <1>10 DEF AllApps, DeliverOut
  <2>2. Rank[s] + 1 = 9 /\ Rank[s] = 8
    BY <1>6, <1>10
  <2>3. x.hdrs = <<>>
    BY <1>9, <2>2, HdrsOf
  <2>4. Gave(t, s, x, p)
    BY <1>1, <1>2, <1>3, <1>6, <1>9, <1>10, <2>1, <2>2, <2>3, Zenon DEF Gave, m, s
  <2> QED
    BY <2>4 DEF t
<1>11. CASE p = "ETH"
  <2>1. p \notin AllApps /\ p \notin DOMAIN DeliverOut
    BY <1>11 DEF AllApps, DeliverOut
  <2>2. Took(t, s, x, "eth_up")
    BY <1>1, <1>2, <1>3, <1>6, <1>9, <1>11, <2>1, Zenon DEF Took, m, s, t
  <2> QED
    BY <2>2 DEF t
<1>12. CASE p \in DOMAIN DeliverOut
  <2>1. p \notin AllApps /\ p # "ETH"
    BY <1>12 DEF AllApps, DeliverOut
  <2>2. Took(t, s, x, DeliverOut[p][hlp])
    BY <1>1, <1>2, <1>3, <1>6, <1>9, <1>12, <2>1, Zenon DEF Took, m, s, t
  <2> QED
    BY <2>2 DEF t
<1> QED
  BY <1>3, <1>10, <1>11, <1>12

LEMMA WritePlaces ==
  ASSUME Shape, Loops, Locks, NEW t \in Threads, Write(t)
  PROVE  Placed(t, hand[t], dst[t])
<1>1. pc[t] = "write" /\ hand[t] \in Messages /\ dst[t] \in Lines
  BY DEF Write, Loops, Holds
<1>2. dst[t] \in Pipes
  BY <1>1 DEF Locks
<1> QED
  BY <1>1, <1>2 DEF Write, Placed

LEMMA SendToPlacesOrDrops ==
  ASSUME Shape, Loops, SendTo
  PROVE  \E x : Placed(Send("ETH"), x, "socket") \/ Dropped(Send("ETH"))
<1> DEFINE t == Send("ETH")
           x == [hand[t] EXCEPT !.seen = payload[hand[t].app]]
<1>1. t \in Threads /\ pc[t] = "lock"
  BY DEF SendTo, Threads, Protocols
<1>2. hand[t] \in Messages /\ dst[t] \in Lines /\ Writer[dst[t]] = t
  BY <1>1 DEF Loops, Holds
<1>3. dst[t] = "socket"
  BY <1>2, OnlyEthWritesSocket
<1>4. payload[hand[t].app] \in Nat
  BY <1>2, StackAssumption DEF Shape, Messages
<1>5. /\ x \in Messages
      /\ x.app = hand[t].app /\ x.num = hand[t].num /\ x.hdrs = hand[t].hdrs
  BY <1>2, <1>4 DEF Messages
<1>6. /\ \/ /\ Len(queue["socket"]) < SockCap
            /\ queue' = [queue EXCEPT !["socket"] = Append(@, x)]
            /\ UNCHANGED lost
         \/ /\ lost' = lost \cup {<<x.app, x.num>>}
            /\ UNCHANGED queue
      /\ Loop(t)
      /\ UNCHANGED <<holder, sent, payload, delivered>>
  BY DEF SendTo
<1> HIDE DEF t, x
<1>7. CASE queue' = [queue EXCEPT !["socket"] = Append(@, x)]
             /\ Len(queue["socket"]) < SockCap /\ UNCHANGED lost
  <2>1. Placed(t, x, "socket")
    BY <1>1, <1>2, <1>3, <1>5, <1>6, <1>7, Zenon DEF Placed
  <2> QED
    BY <2>1 DEF t
<1>8. CASE lost' = lost \cup {<<x.app, x.num>>} /\ UNCHANGED queue
  <2>1. Dropped(t)
    BY <1>1, <1>2, <1>3, <1>5, <1>6, <1>8, Zenon DEF Dropped
  <2> QED
    BY <2>1 DEF t
<1> QED
  BY <1>6, <1>7, <1>8

-----------------------------------------------------------------------------
(***************************************************************************)
(* Pipes and threads: every kind of step keeps all but the order.          *)
(***************************************************************************)

Threading == Shape /\ Capacity /\ Loops /\ Locks /\ Routed

(* Only thread t went on, and has this in mind. *)
Only(t, c, s, m, d) ==
  /\ pc'[t] = c /\ src'[t] = s /\ hand'[t] = m /\ dst'[t] = d
  /\ \A u \in Threads : u # t =>
       pc'[u] = pc[u] /\ src'[u] = src[u] /\ hand'[u] = hand[u] /\ dst'[u] = dst[u]
  /\ pc' \in [Threads -> {"select", "read", "lock", "write"}]
  /\ src' \in [Threads -> Lines \cup {"none"}]
  /\ hand' \in [Threads -> Messages \cup {NoMsg}]
  /\ dst' \in [Threads -> Lines \cup {"none"}]

LEMMA OnlyOne ==
  ASSUME Shape, NEW t \in Threads, NEW c \in {"select", "read", "lock", "write"},
         NEW s \in Lines \cup {"none"}, NEW m \in Messages \cup {NoMsg},
         NEW d \in Lines \cup {"none"},
         pc' = [pc EXCEPT ![t] = c], src' = [src EXCEPT ![t] = s],
         hand' = [hand EXCEPT ![t] = m], dst' = [dst EXCEPT ![t] = d]
  PROVE  Only(t, c, s, m, d)
BY DEF Shape, Only

LEMMA CarryEffect ==
  ASSUME Shape, NEW t \in Threads, NEW m \in Messages, NEW p \in Lines, Carry(t, m, p)
  PROVE  Only(t, "lock", "none", m, p)
BY OnlyOne DEF Carry

LEMMA LoopEffect ==
  ASSUME Shape, NEW t \in Threads, Loop(t)
  PROVE  Only(t, "select", "none", NoMsg, "none")
BY OnlyOne DEF Loop

(* A thread took the first message of s. *)
Popped(s) ==
  /\ queue' \in [Lines -> Seq(Messages)]
  /\ \A p \in Lines : p # s => queue'[p] = queue[p]
  /\ \A p \in Lines : Len(queue[p]) \in Nat /\ Len(queue'[p]) \in Nat
  /\ \A p \in Lines : Len(queue'[p]) <= Len(queue[p])
  /\ DOMAIN queue[s] = 1 .. Len(queue[s]) /\ 1 \in DOMAIN queue[s]
  /\ Head(queue[s]) = queue[s][1]
  /\ \A i \in DOMAIN queue'[s] : /\ i \in Nat /\ i >= 1 /\ i + 1 \in DOMAIN queue[s]
                                 /\ queue'[s][i] = queue[s][i + 1]
  /\ \A i \in DOMAIN queue[s] : i # 1 =>
       i - 1 \in DOMAIN queue'[s] /\ queue'[s][i - 1] = queue[s][i]

LEMMA PopEffect ==
  ASSUME Shape, NEW s \in Lines, queue[s] # <<>>, queue' = [queue EXCEPT ![s] = Tail(@)]
  PROVE  Popped(s)
<1>1. queue \in [Lines -> Seq(Messages)] /\ queue[s] \in Seq(Messages)
  BY DEF Shape
<1>2. queue'[s] = Tail(queue[s]) /\ \A p \in Lines : p # s => queue'[p] = queue[p]
  BY <1>1
<1>3. /\ Head(queue[s]) = queue[s][1] /\ 1 \in DOMAIN queue[s]
      /\ Tail(queue[s]) \in Seq(Messages) /\ Len(Tail(queue[s])) = Len(queue[s]) - 1
      /\ Len(queue[s]) \in Nat
      /\ DOMAIN Tail(queue[s]) = 1 .. Len(queue[s]) - 1
      /\ \A i \in DOMAIN Tail(queue[s]) :
           i + 1 \in DOMAIN queue[s] /\ Tail(queue[s])[i] = queue[s][i + 1]
  BY <1>1, HeadAndTail
<1>4. queue' \in [Lines -> Seq(Messages)]
  BY <1>1, <1>3
<1>5. DOMAIN queue[s] = 1 .. Len(queue[s])
  BY <1>1
<1>6. \A p \in Lines : Len(queue[p]) \in Nat /\ Len(queue'[p]) \in Nat
  BY <1>1, <1>4
<1>7. ASSUME NEW i \in DOMAIN queue[s], i # 1
      PROVE  i - 1 \in DOMAIN queue'[s] /\ queue'[s][i - 1] = queue[s][i]
  <2>1. i \in Nat /\ i - 1 \in 1 .. Len(queue[s]) - 1 /\ (i - 1) + 1 = i
    BY <1>3, <1>5, <1>7
  <2> QED
    BY <1>2, <1>3, <2>1
<1>8. ASSUME NEW i \in DOMAIN queue'[s]
      PROVE  i \in Nat /\ i >= 1 /\ i + 1 \in DOMAIN queue[s] /\ queue'[s][i] = queue[s][i + 1]
  <2>1. i \in 1 .. Len(queue[s]) - 1
    BY <1>2, <1>3, <1>8, Zenon
  <2>2. i \in Nat /\ i >= 1
    BY <1>3, <2>1
  <2> QED
    BY <1>2, <1>3, <1>8, <2>2, Zenon
<1>9. \A p \in Lines : Len(queue'[p]) <= Len(queue[p])
  <2>1. Len(queue'[s]) = Len(queue[s]) - 1
    BY <1>2, <1>3, Zenon
  <2>2. Len(queue'[s]) <= Len(queue[s])
    BY <1>3, <2>1
  <2> QED
    BY <1>2, <1>6, <2>2
<1> QED
  BY <1>2, <1>3, <1>4, <1>5, <1>6, <1>7, <1>8, <1>9, Zenon DEF Popped

(* A thread put x at the end of d. *)
Put(d, x) ==
  /\ queue' \in [Lines -> Seq(Messages)]
  /\ \A p \in Lines : p # d => queue'[p] = queue[p]
  /\ \A p \in Lines : Len(queue[p]) \in Nat
  /\ Len(queue'[d]) = Len(queue[d]) + 1
  /\ DOMAIN queue[d] = 1 .. Len(queue[d])
  /\ DOMAIN queue'[d] = 1 .. Len(queue[d]) + 1
  /\ \A i \in DOMAIN queue[d] : i \in DOMAIN queue'[d] /\ queue'[d][i] = queue[d][i]
  /\ queue'[d][Len(queue[d]) + 1] = x
  /\ \A p \in Lines : queue[p] # <<>> => queue'[p] # <<>>

LEMMA PutEffect ==
  ASSUME Shape, NEW d \in Lines, NEW x \in Messages, queue' = [queue EXCEPT ![d] = Append(@, x)]
  PROVE  Put(d, x)
<1>1. queue \in [Lines -> Seq(Messages)] /\ queue[d] \in Seq(Messages)
  BY DEF Shape
<1>2. queue'[d] = Append(queue[d], x) /\ \A p \in Lines : p # d => queue'[p] = queue[p]
  BY <1>1
<1>3. /\ Append(queue[d], x) \in Seq(Messages)
      /\ Len(Append(queue[d], x)) = Len(queue[d]) + 1
      /\ DOMAIN Append(queue[d], x) = 1 .. Len(queue[d]) + 1
      /\ DOMAIN queue[d] = 1 .. Len(queue[d])
      /\ \A i \in DOMAIN queue[d] :
           i \in DOMAIN Append(queue[d], x) /\ Append(queue[d], x)[i] = queue[d][i]
      /\ Append(queue[d], x)[Len(queue[d]) + 1] = x
  BY <1>1, AtTheEnd
<1>4. queue' \in [Lines -> Seq(Messages)]
  BY <1>1, <1>3
<1>5. \A p \in Lines : Len(queue[p]) \in Nat
  BY <1>1
<1>6. Append(queue[d], x) # <<>>
  BY <1>1
<1> QED
  BY <1>2, <1>3, <1>4, <1>5, <1>6, Zenon DEF Put

(* After a step of t that took from s: what other threads have in mind. *)
LEMMA OthersReadOn ==
  ASSUME Shape, Loops, NEW t \in Threads, NEW s \in Lines, Reader[s] = t,
         \A p \in Lines : p # s => queue'[p] = queue[p],
         \A u \in Threads : u # t =>
           pc'[u] = pc[u] /\ src'[u] = src[u] /\ hand'[u] = hand[u] /\ dst'[u] = dst[u],
         NEW u \in Threads, u # t
  PROVE  Reads(u)' /\ Holds(u)'
<1>1. Reads(u) /\ Holds(u)
  BY DEF Loops
<1>2. pc'[u] = pc[u] /\ src'[u] = src[u] /\ hand'[u] = hand[u] /\ dst'[u] = dst[u]
  OBVIOUS
<1>3. Reads(u)'
  BY <1>1, <1>2 DEF Reads
<1>4. Holds(u)'
  BY <1>1, <1>2 DEF Holds
<1> QED
  BY <1>3, <1>4

LEMMA PoppedCapacity ==
  ASSUME Shape, Capacity, NEW s, Popped(s)
  PROVE  Capacity'
<1>1. \A p \in Lines : Len(queue[p]) \in Nat /\ Len(queue'[p]) \in Nat
                        /\ Len(queue'[p]) <= Len(queue[p])
  BY DEF Popped
<1>2. \A p \in Pipes : Len(queue'[p]) <= PipeCap
  BY <1>1, StackAssumption DEF Capacity, Lines
<1>3. Len(queue'["socket"]) <= SockCap
  BY <1>1, StackAssumption DEF Capacity, Lines
<1> QED
  BY <1>2, <1>3 DEF Capacity

LEMMA TookThreading ==
  ASSUME Threading, NEW t, NEW s, NEW x, NEW d, Took(t, s, x, d)
  PROVE  Threading'
<1> USE DEF Threading
<1>1. /\ t \in Threads /\ pc[t] = "read" /\ src[t] = s
      /\ s \in Lines /\ Reader[s] = t /\ queue[s] # <<>>
      /\ d \in Lines /\ Writer[d] = t /\ Rank[d] = Rank[s] + 1
      /\ x \in Messages
      /\ x.app = Head(queue[s]).app /\ x.num = Head(queue[s]).num
      /\ x.app \in Users[d] /\ x.hdrs = HdrsAt(Rank[d], x.app)
      /\ queue' = [queue EXCEPT ![s] = Tail(@)]
      /\ Carry(t, x, d)
      /\ UNCHANGED <<holder, sent, payload, delivered, lost>>
  BY DEF Took
<1>2. Only(t, "lock", "none", x, d) /\ Popped(s)
  BY <1>1, CarryEffect, PopEffect
<1>3. /\ \A p \in Lines : p # s => queue'[p] = queue[p]
      /\ Head(queue[s]) = queue[s][1] /\ 1 \in DOMAIN queue[s]
      /\ \A i \in DOMAIN queue'[s] : i + 1 \in DOMAIN queue[s] /\ queue'[s][i] = queue[s][i + 1]
  BY <1>2 DEF Popped
<1>4. Shape'
  BY <1>1, <1>2 DEF Shape, Popped, Only
<1>5. Capacity'
  BY <1>2, PoppedCapacity
<1>6. Loops'
  <2>1. Reads(t)' /\ Holds(t)'
    BY <1>1, <1>2 DEF Reads, Holds, Only
  <2>2. \A u \in Threads : u # t => Reads(u)' /\ Holds(u)'
    BY <1>1, <1>2, <1>3, OthersReadOn DEF Only
  <2> QED
    BY <2>1, <2>2 DEF Loops
<1>7. Locks'
  <2>1. holder' = holder
    BY <1>1
  <2>2. \A u \in Threads : pc'[u] = "write" => u # t
    BY <1>2 DEF Only
  <2>3. \A p \in Pipes : holder[p] # Nobody => holder[p] \in Threads /\ holder[p] # t
    BY <1>1 DEF Shape, Locks
  <2> QED
    BY <1>2, <2>1, <2>2, <2>3 DEF Locks, Only
<1>8. Routed'
  <2>1. sent' = sent /\ delivered' = delivered
    BY <1>1
  <2>2. ASSUME NEW p \in Lines, NEW i \in DOMAIN queue'[p]
        PROVE  Fits(queue[p][i], Users[p], Rank[p])' 
    <3>1. CASE p = s
      BY <1>3, <2>1, <2>2, <3>1 DEF Routed, Fits
    <3>2. CASE p # s
      BY <1>3, <2>1, <2>2, <3>2 DEF Routed, Fits
    <3> QED
      BY <3>1, <3>2
  <2>3. ASSUME NEW u \in Threads, hand'[u] # NoMsg
        PROVE  Fits(hand[u], Users[dst[u]], Rank[dst[u]])'
    <3>1. CASE u = t
      <4>1. Fits(queue[s][1], Users[s], Rank[s])
        BY <1>1, <1>3 DEF Routed
      <4>2. x.num \in 1 .. sent'[x.app]
        BY <4>1, <2>1, <1>1, <1>3 DEF Fits
      <4> QED
        BY <1>1, <1>2, <3>1, <4>2 DEF Fits, Only
    <3>2. CASE u # t
      BY <1>2, <2>1, <2>3, <3>2 DEF Routed, Fits, Only
    <3> QED
      BY <3>1, <3>2
  <2>4. \A a \in AllApps : \A i \in DOMAIN delivered'[a] : Fits(delivered[a][i], {a}, 9)'
    BY <2>1 DEF Routed, Fits
  <2> QED
    BY <2>2, <2>3, <2>4 DEF Routed
<1> QED
  BY <1>4, <1>5, <1>6, <1>7, <1>8

LEMMA GaveThreading ==
  ASSUME Threading, NEW t, NEW s, NEW x, NEW q, Gave(t, s, x, q)
  PROVE  Threading'
<1> USE DEF Threading
<1>1. /\ t \in Threads /\ pc[t] = "read" /\ src[t] = s
      /\ s \in Lines /\ Reader[s] = t /\ queue[s] # <<>>
      /\ q \in AllApps
      /\ x \in Messages
      /\ x.app = Head(queue[s]).app /\ x.num = Head(queue[s]).num
      /\ x.app = q /\ x.hdrs = <<>>
      /\ queue' = [queue EXCEPT ![s] = Tail(@)]
      /\ delivered' = [delivered EXCEPT ![q] = Append(@, x)]
      /\ Loop(t)
      /\ UNCHANGED <<holder, sent, payload, lost>>
  BY DEF Gave
<1>2. Only(t, "select", "none", NoMsg, "none") /\ Popped(s)
  BY <1>1, LoopEffect, PopEffect
<1>3. /\ \A p \in Lines : p # s => queue'[p] = queue[p]
      /\ Head(queue[s]) = queue[s][1] /\ 1 \in DOMAIN queue[s]
      /\ \A i \in DOMAIN queue'[s] : i + 1 \in DOMAIN queue[s] /\ queue'[s][i] = queue[s][i + 1]
  BY <1>2 DEF Popped
<1>4. /\ delivered' \in [AllApps -> Seq(Messages)]
      /\ \A b \in AllApps : b # q => delivered'[b] = delivered[b]
      /\ \A i \in DOMAIN delivered'[q] : \/ i \in DOMAIN delivered[q]
                                            /\ delivered'[q][i] = delivered[q][i]
                                         \/ delivered'[q][i] = x
  <2>1. delivered \in [AllApps -> Seq(Messages)] /\ delivered[q] \in Seq(Messages)
    BY <1>1 DEF Shape
  <2>2. delivered'[q] = Append(delivered[q], x)
    BY <1>1, <2>1
  <2>3. /\ Append(delivered[q], x) \in Seq(Messages)
        /\ \A i \in DOMAIN Append(delivered[q], x) :
             \/ i \in DOMAIN delivered[q] /\ Append(delivered[q], x)[i] = delivered[q][i]
             \/ Append(delivered[q], x)[i] = x
    BY <1>1, <2>1
  <2>4. delivered' \in [AllApps -> Seq(Messages)]
    BY <1>1, <2>1, <2>3
  <2>5. \A b \in AllApps : b # q => delivered'[b] = delivered[b]
    BY <1>1, <2>1
  <2> QED
    BY <2>2, <2>3, <2>4, <2>5
<1>5. Shape'
  BY <1>1, <1>2, <1>4 DEF Shape, Popped, Only
<1>6. Capacity'
  BY <1>2, PoppedCapacity
<1>7. Loops'
  <2>1. Reads(t)' /\ Holds(t)'
    BY <1>1, <1>2 DEF Reads, Holds, Only
  <2>2. \A u \in Threads : u # t => Reads(u)' /\ Holds(u)'
    BY <1>1, <1>2, <1>3, OthersReadOn DEF Only
  <2> QED
    BY <2>1, <2>2 DEF Loops
<1>8. Locks'
  <2>1. holder' = holder
    BY <1>1
  <2>2. \A u \in Threads : pc'[u] = "write" => u # t
    BY <1>2 DEF Only
  <2>3. \A p \in Pipes : holder[p] # Nobody => holder[p] \in Threads /\ holder[p] # t
    BY <1>1 DEF Shape, Locks
  <2> QED
    BY <1>2, <2>1, <2>2, <2>3 DEF Locks, Only
<1>9. Routed'
  <2>1. sent' = sent
    BY <1>1
  <2>2. ASSUME NEW p \in Lines, NEW i \in DOMAIN queue'[p]
        PROVE  Fits(queue[p][i], Users[p], Rank[p])'
    <3>1. CASE p = s
      BY <1>3, <2>1, <2>2, <3>1 DEF Routed, Fits
    <3>2. CASE p # s
      BY <1>3, <2>1, <2>2, <3>2 DEF Routed, Fits
    <3> QED
      BY <3>1, <3>2
  <2>3. ASSUME NEW u \in Threads, hand'[u] # NoMsg
        PROVE  Fits(hand[u], Users[dst[u]], Rank[dst[u]])'
    BY <1>2, <2>1, <2>3 DEF Routed, Fits, Only
  <2>4. ASSUME NEW a \in AllApps, NEW i \in DOMAIN delivered'[a]
        PROVE  Fits(delivered[a][i], {a}, 9)'
    <3>1. CASE i \in DOMAIN delivered[a] /\ delivered'[a][i] = delivered[a][i]
      BY <2>1, <3>1 DEF Routed, Fits
    <3>2. CASE a = q /\ delivered'[a][i] = x
      <4>1. Fits(queue[s][1], Users[s], Rank[s])
        BY <1>1, <1>3 DEF Routed
      <4>2. x.num \in 1 .. sent'[x.app]
        BY <4>1, <2>1, <1>1, <1>3 DEF Fits
      <4> QED
        BY <1>1, <3>2, <4>2, HdrsOf DEF Fits
    <3> QED
      BY <1>4, <2>4, <3>1, <3>2
  <2> QED
    BY <2>2, <2>3, <2>4 DEF Routed
<1> QED
  BY <1>5, <1>6, <1>7, <1>8, <1>9

LEMMA PlacedThreading ==
  ASSUME Threading, NEW t, NEW x, NEW d, Placed(t, x, d)
  PROVE  Threading'
<1> USE DEF Threading
<1>1. /\ t \in Threads /\ d \in Lines /\ dst[t] = d
      /\ hand[t] \in Messages
      /\ x \in Messages /\ x.app = hand[t].app /\ x.num = hand[t].num /\ x.hdrs = hand[t].hdrs
      /\ queue' = [queue EXCEPT ![d] = Append(@, x)]
      /\ \/ /\ d \in Pipes /\ pc[t] = "write" /\ Len(queue[d]) < PipeCap
            /\ holder' = [holder EXCEPT ![d] = Nobody]
         \/ /\ d = "socket" /\ pc[t] = "lock" /\ Len(queue[d]) < SockCap
            /\ UNCHANGED holder
      /\ Loop(t)
      /\ UNCHANGED <<sent, payload, delivered, lost>>
  BY DEF Placed
<1>2. Only(t, "select", "none", NoMsg, "none") /\ Put(d, x)
  BY <1>1, LoopEffect, PutEffect
<1>3. Writer[d] = t
  BY <1>1 DEF Loops, Holds
<1>4. /\ holder' \in [Pipes -> Threads \cup {Nobody}]
      /\ \A p \in Pipes : p # d => holder'[p] = holder[p]
      /\ d \in Pipes => holder'[d] = Nobody
  BY <1>1, LineNames DEF Shape
<1>5. Shape'
  BY <1>1, <1>2, <1>4 DEF Shape, Put, Only
<1>6. Capacity'
  <2>1. /\ Len(queue'[d]) = Len(queue[d]) + 1 /\ Len(queue[d]) \in Nat
        /\ \A p \in Lines : p # d => queue'[p] = queue[p]
    BY <1>1, <1>2, Zenon DEF Put
  <2>2. PipeCap \in Nat /\ SockCap \in Nat
    BY StackAssumption
  <2>3. CASE d \in Pipes
    <3>1. d # "socket" /\ Len(queue[d]) < PipeCap
      BY <1>1, <2>3, LineNames
    <3>2. Len(queue'[d]) <= PipeCap
      BY <2>1, <2>2, <3>1
    <3> QED
      BY <2>1, <3>1, <3>2, LineNames, Zenon DEF Capacity, Lines
  <2>4. CASE d = "socket"
    <3>1. d \notin Pipes /\ Len(queue[d]) < SockCap
      BY <1>1, <2>4, LineNames
    <3>2. Len(queue'[d]) <= SockCap
      BY <2>1, <2>2, <3>1
    <3> QED
      BY <2>1, <2>4, <3>1, <3>2, Zenon DEF Capacity, Lines
  <2> QED
    BY <1>1, <2>3, <2>4
<1>7. Loops'
  <2>1. Reads(t)' /\ Holds(t)'
    BY <1>1, <1>2 DEF Reads, Holds, Only
  <2>2. ASSUME NEW u \in Threads, u # t
        PROVE  Reads(u)' /\ Holds(u)'
    <3>1. Reads(u) /\ Holds(u)
      BY DEF Loops
    <3>2. pc'[u] = pc[u] /\ src'[u] = src[u] /\ hand'[u] = hand[u] /\ dst'[u] = dst[u]
      BY <1>2, <2>2 DEF Only
    <3>3. Reads(u)'
      BY <1>2, <3>1, <3>2 DEF Reads, Put
    <3>4. Holds(u)'
      BY <3>1, <3>2 DEF Holds
    <3> QED
      BY <3>3, <3>4
  <2> QED
    BY <2>1, <2>2 DEF Loops
<1>8. Locks'
  <2>1. ASSUME NEW u \in Threads, pc'[u] = "write"
        PROVE  dst'[u] \in Pipes /\ holder'[dst'[u]] = u
    <3>1. u # t /\ pc[u] = "write" /\ dst'[u] = dst[u]
      BY <1>2, <2>1 DEF Only
    <3>2. dst[u] \in Pipes /\ holder[dst[u]] = u /\ Writer[dst[u]] = u
      BY <3>1 DEF Locks, Loops, Holds
    <3> QED
      BY <1>3, <1>4, <3>1, <3>2
  <2>2. ASSUME NEW p \in Pipes, holder'[p] # Nobody
        PROVE  pc'[holder'[p]] = "write" /\ dst'[holder'[p]] = p
    <3>1. p # d /\ holder'[p] = holder[p]
      BY <1>4, <2>2
    <3>2. holder[p] \in Threads /\ pc[holder[p]] = "write" /\ dst[holder[p]] = p
      BY <2>2, <3>1 DEF Shape, Locks
    <3>3. holder[p] # t
      BY <1>1, <3>1, <3>2
    <3> QED
      BY <1>2, <3>1, <3>2, <3>3 DEF Only
  <2> QED
    BY <2>1, <2>2 DEF Locks
<1>9. Routed'
  <2>1. sent' = sent /\ delivered' = delivered
    BY <1>1
  <2>2. ASSUME NEW p \in Lines, NEW i \in DOMAIN queue'[p]
        PROVE  Fits(queue[p][i], Users[p], Rank[p])'
    <3>1. CASE p = d /\ i \notin DOMAIN queue[d]
      <4>1. i = Len(queue[d]) + 1
        BY <1>1, <1>2, <2>2, <3>1 DEF Put
      <4>2. queue'[p][i] = x
        BY <1>2, <3>1, <4>1 DEF Put
      <4>3. hand[t] # NoMsg
        BY <1>1, NoMsgHasNoApp
      <4>4. Fits(hand[t], Users[d], Rank[d])
        BY <1>1, <4>3 DEF Routed
      <4> QED
        BY <1>1, <2>1, <3>1, <4>2, <4>4 DEF Fits
    <3>2. CASE p # d \/ i \in DOMAIN queue[d]
      <4>1. i \in DOMAIN queue[p] /\ queue'[p][i] = queue[p][i]
        BY <1>2, <2>2, <3>2 DEF Put
      <4> QED
        BY <2>1, <4>1 DEF Routed, Fits
    <3> QED
      BY <3>1, <3>2
  <2>3. ASSUME NEW u \in Threads, hand'[u] # NoMsg
        PROVE  Fits(hand[u], Users[dst[u]], Rank[dst[u]])'
    BY <1>2, <2>1, <2>3 DEF Routed, Fits, Only
  <2>4. \A a \in AllApps : \A i \in DOMAIN delivered'[a] : Fits(delivered[a][i], {a}, 9)'
    BY <2>1 DEF Routed, Fits
  <2> QED
    BY <2>2, <2>3, <2>4 DEF Routed
<1> QED
  BY <1>5, <1>6, <1>7, <1>8, <1>9

LEMMA DroppedThreading ==
  ASSUME Threading, NEW t, Dropped(t)
  PROVE  Threading'
<1> USE DEF Threading
<1>1. /\ t \in Threads /\ pc[t] = "lock"
      /\ hand[t] \in Messages
      /\ lost' = lost \cup {<<hand[t].app, hand[t].num>>}
      /\ Loop(t)
      /\ UNCHANGED <<queue, holder, sent, payload, delivered>>
  BY DEF Dropped
<1>2. Only(t, "select", "none", NoMsg, "none")
  BY <1>1, LoopEffect
<1>3. hand[t].app \in Apps /\ hand[t].num \in Nat
  BY <1>1 DEF Messages
<1>4. Shape'
  BY <1>1, <1>2, <1>3 DEF Shape, Only
<1>5. Capacity'
  BY <1>1 DEF Capacity
<1>6. Loops'
  BY <1>1, <1>2 DEF Loops, Reads, Holds, Only
<1>7. Locks'
  <2>1. \A p \in Pipes : holder[p] # Nobody => holder[p] \in Threads /\ holder[p] # t
    BY <1>1 DEF Shape, Locks
  <2> QED
    BY <1>1, <1>2, <2>1 DEF Locks, Only
<1>8. Routed'
  BY <1>1, <1>2 DEF Routed, Fits, Only
<1> QED
  BY <1>4, <1>5, <1>6, <1>7, <1>8

LEMMA FirstLine ==
  ASSUME NEW a \in AllApps
  PROVE  /\ SendIn[a][1] \in Lines /\ Writer[SendIn[a][1]] = Poll(a)
         /\ Rank[SendIn[a][1]] = 1 /\ a \in Users[SendIn[a][1]]
BY LineNames DEF AllApps, SendIn, Writer, Rank, Users

LEMMA CreateThreading ==
  ASSUME Threading, NEW a \in Apps, Create(a)
  PROVE  Threading'
<1> USE DEF Threading
<1> DEFINE t == Poll(a)
           n == sent[a] + 1
           x == Fresh(a, n)
           d == SendIn[a][1]
<1>1. /\ t \in Threads /\ pc[t] = "select" /\ n <= TotSend[a]
      /\ sent' = [sent EXCEPT ![a] = n]
      /\ payload' = [payload EXCEPT ![a] = n]
      /\ Carry(t, x, d)
      /\ UNCHANGED <<queue, holder, delivered, lost>>
  BY DEF Create, Threads
<1>2. /\ a \in AllApps /\ payload = sent /\ TotSend[a] \in Nat
      /\ sent \in [Apps -> Nat] /\ \A b \in Apps : sent[b] <= TotSend[b]
  BY StackAssumption DEF Shape
<1>3. n \in 1 .. TotSend[a] /\ n \in Nat
  BY <1>1, <1>2
<1>4. d \in Lines /\ Writer[d] = t /\ Rank[d] = 1 /\ a \in Users[d]
  BY <1>2, FirstLine
<1>5. x \in Messages /\ x.app = a /\ x.num = n /\ x.hdrs = <<>>
  BY <1>3 DEF Fresh, Messages
<1>6. /\ sent' \in [Apps -> Nat] /\ payload' = sent' /\ sent'[a] = n
      /\ \A b \in Apps : sent'[b] <= TotSend[b]
      /\ \A b \in Apps : sent[b] \in Nat /\ sent'[b] \in Nat /\ sent[b] <= sent'[b]
  BY <1>1, <1>2, <1>3
<1> HIDE DEF t, n, x, d
<1>7. Only(t, "lock", "none", x, d)
  BY <1>1, <1>4, <1>5, CarryEffect
<1>8. Shape'
  BY <1>1, <1>6, <1>7 DEF Shape, Only
<1>9. Capacity'
  BY <1>1 DEF Capacity
<1>10. Loops'
  BY <1>1, <1>4, <1>5, <1>7 DEF Loops, Reads, Holds, Only
<1>11. Locks'
  <2>1. \A p \in Pipes : holder[p] # Nobody => holder[p] \in Threads /\ holder[p] # t
    BY <1>1 DEF Shape, Locks
  <2> QED
    BY <1>1, <1>7, <2>1 DEF Locks, Only
<1>12. Routed'
  <2>1. \A m \in Messages : m.num \in 1 .. sent[m.app] => m.num \in 1 .. sent'[m.app]
    BY <1>6 DEF Messages
  <2>2. ASSUME NEW p \in Lines, NEW i \in DOMAIN queue'[p]
        PROVE  Fits(queue[p][i], Users[p], Rank[p])'
    <3>1. queue' = queue /\ queue[p] \in Seq(Messages)
      BY <1>1 DEF Shape
    <3>2. queue[p][i] \in Messages /\ Fits(queue[p][i], Users[p], Rank[p])
      BY <2>2, <3>1 DEF Routed
    <3> QED
      BY <2>1, <3>1, <3>2 DEF Fits
  <2>3. ASSUME NEW u \in Threads, hand'[u] # NoMsg
        PROVE  Fits(hand[u], Users[dst[u]], Rank[dst[u]])'
    <3>1. CASE u = t
      BY <1>3, <1>4, <1>5, <1>6, <1>7, <3>1, HdrsOf DEF Fits, Only
    <3>2. CASE u # t
      <4>1. hand'[u] = hand[u] /\ dst'[u] = dst[u]
        BY <1>7, <3>2 DEF Only
      <4>2. hand[u] \in Messages /\ Fits(hand[u], Users[dst[u]], Rank[dst[u]])
        BY <2>3, <4>1 DEF Shape, Routed
      <4> QED
        BY <2>1, <4>1, <4>2 DEF Fits
    <3> QED
      BY <3>1, <3>2
  <2>4. ASSUME NEW b \in AllApps, NEW i \in DOMAIN delivered'[b]
        PROVE  Fits(delivered[b][i], {b}, 9)'
    <3>1. delivered' = delivered /\ delivered[b] \in Seq(Messages)
      BY <1>1 DEF Shape
    <3>2. delivered[b][i] \in Messages
      BY <2>4, <3>1
    <3>3. Fits(delivered[b][i], {b}, 9)
      BY <2>4, <3>1 DEF Routed
    <3> QED
      BY <2>1, <3>1, <3>2, <3>3 DEF Fits
  <2> QED
    BY <2>2, <2>3, <2>4 DEF Routed
<1> QED
  BY <1>8, <1>9, <1>10, <1>11, <1>12

LEMMA SelectThreading ==
  ASSUME Threading, NEW t \in Threads, Select(t)
  PROVE  Threading'
<1> USE DEF Threading
<1>1. PICK i \in DOMAIN Inputs(t) :
        queue[Inputs(t)[i]] # <<>> /\ src' = [src EXCEPT ![t] = Inputs(t)[i]]
  BY DEF Select
<1> DEFINE s == Inputs(t)[i]
<1>2. /\ pc[t] = "select" /\ pc' = [pc EXCEPT ![t] = "read"]
      /\ UNCHANGED <<queue, holder, hand, dst, sent, payload, delivered, lost>>
  BY DEF Select
<1>3. s \in ToSet(Inputs(t))
  BY DEF ToSet
<1>4. s \in Lines /\ Reader[s] = t /\ queue[s] # <<>> /\ src' = [src EXCEPT ![t] = s]
  BY <1>1, <1>3, InputsAreRead
<1> HIDE DEF s
<1>5. hand[t] = NoMsg /\ dst[t] = "none"
  BY <1>2 DEF Loops, Holds
<1>6. Only(t, "read", s, NoMsg, "none")
  <2>1. /\ pc' \in [Threads -> {"select", "read", "lock", "write"}]
        /\ pc'[t] = "read" /\ \A u \in Threads : u # t => pc'[u] = pc[u]
    BY <1>2 DEF Shape
  <2>2. /\ src' \in [Threads -> Lines \cup {"none"}]
        /\ src'[t] = s /\ \A u \in Threads : u # t => src'[u] = src[u]
    BY <1>4 DEF Shape
  <2>3. /\ hand' \in [Threads -> Messages \cup {NoMsg}]
        /\ dst' \in [Threads -> Lines \cup {"none"}]
    BY <1>2 DEF Shape
  <2> QED
    BY <1>2, <1>5, <2>1, <2>2, <2>3 DEF Only
<1>7. Shape'
  BY <1>2, <1>6 DEF Shape, Only
<1>8. Capacity' /\ Routed'
  BY <1>2 DEF Capacity, Routed, Fits
<1>9. Loops'
  BY <1>2, <1>4, <1>6 DEF Loops, Reads, Holds, Only
<1>10. Locks'
  <2>1. \A p \in Pipes : holder[p] # Nobody => holder[p] \in Threads /\ holder[p] # t
    BY <1>2 DEF Shape, Locks
  <2> QED
    BY <1>2, <1>6, <2>1 DEF Locks, Only
<1> QED
  BY <1>7, <1>8, <1>9, <1>10

LEMMA LockThreading ==
  ASSUME Threading, NEW t \in Threads, Lock(t)
  PROVE  Threading'
<1> USE DEF Threading
<1>1. /\ pc[t] = "lock" /\ dst[t] # "socket" /\ holder[dst[t]] = Nobody
      /\ holder' = [holder EXCEPT ![dst[t]] = t]
      /\ pc' = [pc EXCEPT ![t] = "write"]
      /\ UNCHANGED <<queue, src, hand, dst, sent, payload, delivered, lost>>
  BY DEF Lock
<1>2. hand[t] \in Messages /\ dst[t] \in Pipes /\ Writer[dst[t]] = t /\ src[t] = "none"
  BY <1>1 DEF Loops, Holds, Reads, Lines
<1>3. /\ pc'[t] = "write" /\ pc' \in [Threads -> {"select", "read", "lock", "write"}]
      /\ \A u \in Threads : u # t => pc'[u] = pc[u]
  BY <1>1 DEF Shape
<1>4. /\ holder'[dst[t]] = t /\ holder' \in [Pipes -> Threads \cup {Nobody}]
      /\ \A p \in Pipes : p # dst[t] => holder'[p] = holder[p]
  BY <1>1, <1>2 DEF Shape
<1>5. Shape'
  BY <1>1, <1>3, <1>4 DEF Shape
<1>6. Capacity' /\ Routed'
  BY <1>1 DEF Capacity, Routed, Fits
<1>7. Loops'
  BY <1>1, <1>2, <1>3 DEF Loops, Reads, Holds, Lines
<1>8. Locks'
  <2>1. ASSUME NEW u \in Threads, pc'[u] = "write"
        PROVE  dst'[u] \in Pipes /\ holder'[dst'[u]] = u
    <3>1. CASE u = t
      BY <1>1, <1>2, <1>4, <3>1
    <3>2. CASE u # t
      <4>1. dst[u] \in Pipes /\ holder[dst[u]] = u /\ Writer[dst[u]] = u
        BY <1>3, <2>1, <3>2 DEF Locks, Loops, Holds
      <4>2. dst[u] # dst[t]
        BY <1>2, <3>2, <4>1
      <4> QED
        BY <1>1, <1>4, <4>1, <4>2
    <3> QED
      BY <3>1, <3>2
  <2>2. ASSUME NEW p \in Pipes, holder'[p] # Nobody
        PROVE  pc'[holder'[p]] = "write" /\ dst'[holder'[p]] = p
    <3>1. CASE p = dst[t]
      BY <1>1, <1>3, <1>4, <3>1
    <3>2. CASE p # dst[t]
      <4>1. holder'[p] = holder[p] /\ holder[p] \in Threads /\ pc[holder[p]] = "write"
              /\ dst[holder[p]] = p
        BY <1>4, <2>2, <3>2 DEF Locks, Shape
      <4> QED
        BY <1>1, <1>3, <4>1
    <3> QED
      BY <3>1, <3>2
  <2> QED
    BY <2>1, <2>2 DEF Locks
<1> QED
  BY <1>5, <1>6, <1>7, <1>8

-----------------------------------------------------------------------------
(***************************************************************************)
(* The spots: every kind of step keeps their order.                        *)
(***************************************************************************)

NumIn(n, S) == \E x \in S : x.num = n

(* What a step that takes the first message of s does to the spots. *)
QueueLeft(z, s, a) ==
  \/ z \in QueueSpots(a, queue) /\ (a \in Users[s] => z.rank # 2 * Rank[s])
  \/ /\ a \in Users[s] /\ z.rank = 2 * Rank[s] /\ z.place \in Nat \ {0}
     /\ \E y \in QueueSpots(a, queue) :
          y.num = z.num /\ y.rank = 2 * Rank[s] /\ y.place = z.place + 1

FirstLeft(s, a) ==
  /\ a \in Users[s]
  /\ \E y \in QueueSpots(a, queue) :
       y.num = queue[s][1].num /\ y.rank = 2 * Rank[s] /\ y.place = 1

LEMMA PoppedSpots ==
  ASSUME Threading, NEW s \in Lines, Popped(s), NEW a \in Apps
  PROVE  /\ \A z \in QueueSpots(a, queue') : QueueLeft(z, s, a)
         /\ \A y \in QueueSpots(a, queue) :
              \/ queue[s][1].app = a /\ queue[s][1].num = y.num
              \/ NumIn(y.num, QueueSpots(a, queue'))
         /\ queue[s][1].app = a => FirstLeft(s, a)
<1> USE DEF Threading
<1>1. /\ \A p \in Lines : p # s => queue'[p] = queue[p]
      /\ 1 \in DOMAIN queue[s]
      /\ \A i \in DOMAIN queue'[s] : /\ i \in Nat /\ i >= 1 /\ i + 1 \in DOMAIN queue[s]
                                     /\ queue'[s][i] = queue[s][i + 1]
      /\ \A i \in DOMAIN queue[s] : i # 1 =>
           i - 1 \in DOMAIN queue'[s] /\ queue'[s][i - 1] = queue[s][i]
  BY DEF Popped
<1>2. ASSUME NEW z \in QueueSpots(a, queue')
      PROVE  \/ z \in QueueSpots(a, queue) /\ (a \in Users[s] => z.rank # 2 * Rank[s])
             \/ /\ a \in Users[s] /\ z.rank = 2 * Rank[s] /\ z.place \in Nat \ {0}
                /\ \E y \in QueueSpots(a, queue) :
                     y.num = z.num /\ y.rank = 2 * Rank[s] /\ y.place = z.place + 1
  <2>1. PICK p \in Lines : \E i \in DOMAIN queue'[p] :
          queue'[p][i].app = a /\ z = [num |-> queue'[p][i].num, rank |-> 2 * Rank[p], place |-> i]
    BY QueueSpot
  <2>2. PICK i \in DOMAIN queue'[p] :
          queue'[p][i].app = a /\ z = [num |-> queue'[p][i].num, rank |-> 2 * Rank[p], place |-> i]
    BY <2>1
  <2>3. CASE p # s
    <3>1. queue'[p] = queue[p]
      BY <1>1, <2>3
    <3>2. z \in QueueSpots(a, queue)
      BY <2>2, <3>1, QueueSpot
    <3>3. a \in Users[p]
      BY <2>2, <3>1 DEF Routed, Fits
    <3>4. a \in Users[s] => Rank[p] # Rank[s]
      BY <2>3, <3>3, OneLine
    <3>5. z.rank = 2 * Rank[p] /\ Rank[p] \in Nat /\ Rank[s] \in Nat
      BY <2>2, RankAndUsers
    <3> QED
      BY <3>2, <3>4, <3>5
  <2>4. CASE p = s
    <3> DEFINE y == [num |-> queue[s][i + 1].num, rank |-> 2 * Rank[s], place |-> i + 1]
    <3>1. i \in Nat /\ i >= 1 /\ i + 1 \in DOMAIN queue[s] /\ queue'[s][i] = queue[s][i + 1]
      BY <1>1, <2>2, <2>4
    <3>2. y \in QueueSpots(a, queue)
      BY <2>2, <2>4, <3>1, QueueSpot
    <3>3. a \in Users[s]
      BY <2>2, <2>4, <3>1 DEF Routed, Fits
    <3>4. z.num = y.num /\ z.rank = 2 * Rank[s] /\ z.place = i
            /\ y.rank = 2 * Rank[s] /\ y.place = i + 1
      BY <2>2, <2>4, <3>1
    <3> HIDE DEF y
    <3> QED
      BY <3>1, <3>2, <3>3, <3>4
  <2> QED
    BY <2>3, <2>4
<1>3. ASSUME NEW y \in QueueSpots(a, queue)
      PROVE  \/ queue[s][1].app = a /\ queue[s][1].num = y.num
             \/ NumIn(y.num, QueueSpots(a, queue'))
  <2>1. PICK p \in Lines : \E i \in DOMAIN queue[p] :
          queue[p][i].app = a /\ y = [num |-> queue[p][i].num, rank |-> 2 * Rank[p], place |-> i]
    BY QueueSpot
  <2>2. PICK i \in DOMAIN queue[p] :
          queue[p][i].app = a /\ y = [num |-> queue[p][i].num, rank |-> 2 * Rank[p], place |-> i]
    BY <2>1
  <2>3. CASE p # s
    <3>1. queue'[p] = queue[p]
      BY <1>1, <2>3
    <3>2. y \in QueueSpots(a, queue')
      BY <2>2, <3>1, QueueSpot
    <3> QED
      BY <3>2 DEF NumIn
  <2>4. CASE p = s /\ i = 1
    BY <2>2, <2>4
  <2>5. CASE p = s /\ i # 1
    <3> DEFINE z == [num |-> queue'[s][i - 1].num, rank |-> 2 * Rank[s], place |-> i - 1]
    <3>1. i - 1 \in DOMAIN queue'[s] /\ queue'[s][i - 1] = queue[s][i]
      BY <1>1, <2>2, <2>5
    <3>2. z \in QueueSpots(a, queue')
      BY <2>2, <2>5, <3>1, QueueSpot
    <3>3. z.num = y.num
      BY <2>2, <2>5, <3>1
    <3> HIDE DEF z
    <3> QED
      BY <3>2, <3>3 DEF NumIn
  <2> QED
    BY <2>3, <2>4, <2>5
<1>4. ASSUME queue[s][1].app = a
      PROVE  /\ a \in Users[s]
             /\ \E y \in QueueSpots(a, queue) :
                  y.num = queue[s][1].num /\ y.rank = 2 * Rank[s] /\ y.place = 1
  <2> DEFINE y == [num |-> queue[s][1].num, rank |-> 2 * Rank[s], place |-> 1]
  <2>1. y \in QueueSpots(a, queue)
    BY <1>1, <1>4, QueueSpot
  <2>2. a \in Users[s]
    BY <1>1, <1>4 DEF Routed, Fits
  <2>3. y.num = queue[s][1].num /\ y.rank = 2 * Rank[s] /\ y.place = 1
    OBVIOUS
  <2> HIDE DEF y
  <2> QED
    BY <2>1, <2>2, <2>3
<1>5. \A z \in QueueSpots(a, queue') : QueueLeft(z, s, a)
  BY <1>2, Zenon DEF QueueLeft
<1>6. queue[s][1].app = a => FirstLeft(s, a)
  BY <1>4, Zenon DEF FirstLeft
<1> QED
  BY <1>3, <1>5, <1>6

LEMMA PutSpots ==
  ASSUME Threading, NEW d \in Lines, NEW x, Put(d, x), NEW a \in Apps
  PROVE  LET new == [num |-> x.num, rank |-> 2 * Rank[d], place |-> Len(queue[d]) + 1]
         IN  /\ \A z \in QueueSpots(a, queue') :
                  z \in QueueSpots(a, queue) \/ (x.app = a /\ z = new)
             /\ QueueSpots(a, queue) \subseteq QueueSpots(a, queue')
             /\ x.app = a => new \in QueueSpots(a, queue')
             /\ \A y \in QueueSpots(a, queue) : a \in Users[d] /\ y.rank = 2 * Rank[d] =>
                  y.place <= Len(queue[d])
<1> USE DEF Threading
<1> DEFINE k == Len(queue[d]) + 1
           new == [num |-> x.num, rank |-> 2 * Rank[d], place |-> k]
<1>1. /\ \A p \in Lines : p # d => queue'[p] = queue[p]
      /\ \A p \in Lines : Len(queue[p]) \in Nat
      /\ DOMAIN queue[d] = 1 .. Len(queue[d])
      /\ \A i \in DOMAIN queue[d] : i \in DOMAIN queue'[d] /\ queue'[d][i] = queue[d][i]
      /\ queue'[d][k] = x
  BY DEF Put
<1>2. /\ k \in DOMAIN queue'[d]
      /\ \A i \in DOMAIN queue'[d] : i \in DOMAIN queue[d] \/ i = k
  <2>1. DOMAIN queue'[d] = 1 .. Len(queue[d]) + 1
    BY DEF Put
  <2> QED
    BY <1>1, <2>1
<1> HIDE DEF k
<1>3. ASSUME NEW z \in QueueSpots(a, queue')
      PROVE  z \in QueueSpots(a, queue) \/ (x.app = a /\ z = new)
  <2>1. PICK p \in Lines : \E i \in DOMAIN queue'[p] :
          queue'[p][i].app = a /\ z = [num |-> queue'[p][i].num, rank |-> 2 * Rank[p], place |-> i]
    BY QueueSpot
  <2>2. PICK i \in DOMAIN queue'[p] :
          queue'[p][i].app = a /\ z = [num |-> queue'[p][i].num, rank |-> 2 * Rank[p], place |-> i]
    BY <2>1
  <2>3. CASE p = d /\ i = k
    BY <1>1, <2>2, <2>3
  <2>4. CASE ~(p = d /\ i = k)
    <3>1. i \in DOMAIN queue[p] /\ queue'[p][i] = queue[p][i]
      BY <1>1, <1>2, <2>2, <2>4
    <3> QED
      BY <2>2, <3>1, QueueSpot
  <2> QED
    BY <2>3, <2>4
<1>4. ASSUME NEW y \in QueueSpots(a, queue)
      PROVE  /\ y \in QueueSpots(a, queue')
             /\ a \in Users[d] /\ y.rank = 2 * Rank[d] => y.place <= Len(queue[d])
  <2>1. PICK p \in Lines : \E i \in DOMAIN queue[p] :
          queue[p][i].app = a /\ y = [num |-> queue[p][i].num, rank |-> 2 * Rank[p], place |-> i]
    BY QueueSpot
  <2>2. PICK i \in DOMAIN queue[p] :
          queue[p][i].app = a /\ y = [num |-> queue[p][i].num, rank |-> 2 * Rank[p], place |-> i]
    BY <2>1
  <2>3. i \in DOMAIN queue'[p] /\ queue'[p][i] = queue[p][i]
    BY <1>1, <2>2
  <2>4. y \in QueueSpots(a, queue')
    BY <2>2, <2>3, QueueSpot
  <2>5. ASSUME a \in Users[d], y.rank = 2 * Rank[d]
        PROVE  y.place <= Len(queue[d])
    <3>1. a \in Users[p]
      BY <2>2 DEF Routed, Fits
    <3>2. Rank[p] = Rank[d]
      BY <2>2, <2>5, RankAndUsers
    <3>3. p = d
      BY <2>5, <3>1, <3>2, OneLine
    <3> QED
      BY <1>1, <2>2, <3>3
  <2> QED
    BY <2>4, <2>5
<1>5. x.app = a => new \in QueueSpots(a, queue')
  BY <1>1, <1>2, QueueSpot
<1> USE DEF k
<1> QED
  BY <1>3, <1>4, <1>5

(* What thread t had in hand is gone, and it now has m for d. *)
HandLeft(z, t, a, m, d) ==
  \/ /\ z \in HandSpots(a, hand, dst)
     /\ hand[t].app = a => z.rank # 2 * Rank[dst[t]] - 1
  \/ m.app = a /\ z = [num |-> m.num, rank |-> 2 * Rank[d] - 1, place |-> 1]

LEMMA OnlySpots ==
  ASSUME Threading, NEW t \in Threads, NEW c, NEW s, NEW m, NEW d, Only(t, c, s, m, d),
         NEW a \in Apps
  PROVE  /\ \A z \in HandSpots(a, hand', dst') : HandLeft(z, t, a, m, d)
         /\ \A y \in HandSpots(a, hand, dst) :
              \/ hand[t].app = a /\ y.num = hand[t].num
              \/ y \in HandSpots(a, hand', dst')
         /\ m.app = a => [num |-> m.num, rank |-> 2 * Rank[d] - 1, place |-> 1]
                           \in HandSpots(a, hand', dst')
<1> USE DEF Threading
<1>1. /\ hand'[t] = m /\ dst'[t] = d
      /\ \A u \in Threads : u # t => hand'[u] = hand[u] /\ dst'[u] = dst[u]
  BY DEF Only
<1>2. ASSUME NEW z \in HandSpots(a, hand', dst')
      PROVE  \/ /\ z \in HandSpots(a, hand, dst)
                /\ hand[t].app = a => z.rank # 2 * Rank[dst[t]] - 1
             \/ m.app = a /\ z = [num |-> m.num, rank |-> 2 * Rank[d] - 1, place |-> 1]
  <2>1. PICK u \in Threads :
          hand'[u].app = a /\ z = [num |-> hand'[u].num, rank |-> 2 * Rank[dst'[u]] - 1, place |-> 1]
    BY HandSpot
  <2>2. CASE u = t
    BY <1>1, <2>1, <2>2
  <2>3. CASE u # t
    <3>1. hand'[u] = hand[u] /\ dst'[u] = dst[u]
      BY <1>1, <2>3
    <3>2. z \in HandSpots(a, hand, dst)
      BY <2>1, <3>1, HandSpot
    <3>3. ASSUME hand[t].app = a
          PROVE  z.rank # 2 * Rank[dst[t]] - 1
      <4>1. dst[t] \in Lines /\ Writer[dst[t]] = t /\ hand[t] # NoMsg
        BY <3>3, HandHasDst, NoMsgHasNoApp
      <4>2. dst[u] \in Lines /\ Writer[dst[u]] = u /\ hand[u] # NoMsg
        BY <2>1, <3>1, HandHasDst, NoMsgHasNoApp
      <4>3. a \in Users[dst[t]] /\ a \in Users[dst[u]]
        BY <2>1, <3>1, <3>3, <4>1, <4>2 DEF Routed, Fits
      <4>4. Rank[dst[t]] # Rank[dst[u]]
        BY <2>3, <4>1, <4>2, <4>3, OneLine
      <4>5. Rank[dst[t]] \in Nat /\ Rank[dst[u]] \in Nat /\ z.rank = 2 * Rank[dst[u]] - 1
        BY <2>1, <3>1, <4>1, <4>2, RankAndUsers
      <4> QED
        BY <4>4, <4>5
    <3> QED
      BY <3>2, <3>3
  <2> QED
    BY <2>2, <2>3
<1>3. ASSUME NEW y \in HandSpots(a, hand, dst)
      PROVE  \/ hand[t].app = a /\ y.num = hand[t].num
             \/ y \in HandSpots(a, hand', dst')
  <2>1. PICK u \in Threads :
          hand[u].app = a /\ y = [num |-> hand[u].num, rank |-> 2 * Rank[dst[u]] - 1, place |-> 1]
    BY HandSpot
  <2>2. CASE u = t
    BY <2>1, <2>2
  <2>3. CASE u # t
    BY <1>1, <2>1, <2>3, HandSpot
  <2> QED
    BY <2>2, <2>3
<1>4. m.app = a => [num |-> m.num, rank |-> 2 * Rank[d] - 1, place |-> 1]
                     \in HandSpots(a, hand', dst')
  BY <1>1, HandSpot
<1>5. \A z \in HandSpots(a, hand', dst') : HandLeft(z, t, a, m, d)
  BY <1>2, Zenon DEF HandLeft
<1> QED
  BY <1>3, <1>4, <1>5

(* Ordered before, ordered after, and the same messages are somewhere. *)
Advanced(a) ==
  /\ Ordered(Spots(a)')
  /\ \A n : NumIn(n, Spots(a)') <=> NumIn(n, Spots(a))

LEMMA SpotsNext ==
  ASSUME NEW a
  PROVE  Spots(a)' = QueueSpots(a, queue') \cup HandSpots(a, hand', dst')
                       \cup AppSpots(delivered'[a])
BY DEF Spots

LEMMA TookAdvances ==
  ASSUME Threading, InLine, NEW t, NEW s, NEW x, NEW d, Took(t, s, x, d), NEW a \in Apps
  PROVE  Advanced(a)
<1> USE DEF Threading
<1> DEFINE S == Spots(a)
           T == QueueSpots(a, queue') \cup HandSpots(a, hand', dst') \cup AppSpots(delivered[a])
           r == 2 * Rank[s]
<1>1. /\ t \in Threads /\ pc[t] = "read"
      /\ s \in Lines /\ queue[s] # <<>>
      /\ d \in Lines /\ Rank[d] = Rank[s] + 1
      /\ x \in Messages
      /\ x.app = Head(queue[s]).app /\ x.num = Head(queue[s]).num
      /\ queue' = [queue EXCEPT ![s] = Tail(@)]
      /\ Carry(t, x, d)
      /\ delivered' = delivered
  BY DEF Took
<1>2. Only(t, "lock", "none", x, d) /\ Popped(s)
  BY <1>1, CarryEffect, PopEffect
<1>3. x.app = queue[s][1].app /\ x.num = queue[s][1].num
  BY <1>1, <1>2 DEF Popped
<1>4. hand[t].app # a
  BY <1>1, NoMsgHasNoApp DEF Loops, Holds
<1>5. Rank[s] \in 1 .. 7 /\ r \in Nat /\ 2 * Rank[d] - 1 = r + 1
  <2>1. Rank[s] \in 1 .. 8 /\ Rank[d] \in 1 .. 8 /\ Rank[d] = Rank[s] + 1
    BY <1>1, RankAndUsers
  <2> QED
    BY <2>1
<1> HIDE DEF S, T, r
<1>6. /\ S \subseteq Spot /\ Ordered(S)
      /\ QueueSpots(a, queue) \subseteq S /\ HandSpots(a, hand, dst) \subseteq S
      /\ AppSpots(delivered[a]) \subseteq S
      /\ S = QueueSpots(a, queue) \cup HandSpots(a, hand, dst) \cup AppSpots(delivered[a])
  BY SpotRanks DEF S, Spots, InLine
<1>7. \A z \in QueueSpots(a, queue') :
        \/ z \in S /\ (a \in Users[s] => z.rank # r)
        \/ /\ a \in Users[s] /\ z.rank = r /\ z.place \in Nat \ {0}
           /\ \E y \in S : y.num = z.num /\ y.rank = r /\ y.place = z.place + 1
  <2>1. \A z \in QueueSpots(a, queue') : QueueLeft(z, s, a)
    BY <1>1, <1>2, PoppedSpots
  <2> QED
    BY <1>6, <2>1 DEF r, QueueLeft
<1>8. \A z \in HandSpots(a, hand, dst) \cup AppSpots(delivered[a]) : z \in S /\ z.rank # r
  <2>1. \A z \in HandSpots(a, hand, dst) : z.rank # r
    <3>1. SUFFICES ASSUME NEW z \in HandSpots(a, hand, dst)
                   PROVE  z.rank # r
      OBVIOUS
    <3>2. PICK q \in 1 .. 8 : z.rank = 2 * q - 1
      BY HandRanks
    <3> QED
      BY <1>5, <3>2 DEF r
  <2>2. \A z \in AppSpots(delivered[a]) : z.rank # r
    <3>1. \A z \in AppSpots(delivered[a]) : z.rank = 17
      BY AppRanks
    <3> QED
      BY <1>5, <3>1 DEF r
  <2> QED
    BY <1>6, <2>1, <2>2
<1>9. ASSUME NEW z \in HandSpots(a, hand', dst')
      PROVE  \/ z \in S /\ z.rank # r
             \/ /\ a \in Users[s] /\ z.rank = r + 1 /\ z.place = 1
                /\ \E y \in S : y.num = z.num /\ y.rank = r /\ y.place = 1
  <2>1. CASE z \in HandSpots(a, hand, dst)
    BY <1>8, <2>1
  <2>2. CASE x.app = a /\ z = [num |-> x.num, rank |-> 2 * Rank[d] - 1, place |-> 1]
    <3>1. /\ a \in Users[s]
          /\ \E y \in S : y.num = queue[s][1].num /\ y.rank = r /\ y.place = 1
      BY <1>1, <1>2, <1>3, <1>6, <2>2, PoppedSpots DEF r, FirstLeft
    <3>2. z.num = queue[s][1].num /\ z.rank = r + 1 /\ z.place = 1
      BY <1>3, <1>5, <2>2
    <3> QED
      BY <3>1, <3>2
  <2>3. HandLeft(z, t, a, x, d)
    BY <1>1, <1>2, OnlySpots
  <2> QED
    BY <2>1, <2>2, <2>3 DEF HandLeft
<1>10. T \subseteq S \/ Moved(S, T, r, 1)
  <2>1. CASE a \in Users[s]
    BY <1>7, <1>8, <1>9, <2>1 DEF T, Moved
  <2>2. CASE a \notin Users[s]
    BY <1>6, <1>7, <1>9, <2>2 DEF T
  <2> QED
    BY <2>1, <2>2
<1>11. \A y \in S : y.rank = r + 1 => y.place <= 1
  <2>1. SUFFICES ASSUME NEW y \in S, y.rank = r + 1
                 PROVE  y.place <= 1
    OBVIOUS
  <2>2. CASE y \in QueueSpots(a, queue)
    <3>1. PICK q \in 1 .. 8 : y.rank = 2 * q
      BY <2>2, QueueRanks
    <3> QED
      BY <1>5, <2>1, <3>1 DEF r
  <2>3. CASE y \in HandSpots(a, hand, dst)
    <3>1. y.place = 1
      BY <2>3, HandRanks
    <3> QED
      BY <3>1
  <2>4. CASE y \in AppSpots(delivered[a])
    <3>1. y.rank = 17
      BY <2>4, AppRanks
    <3> QED
      BY <1>5, <2>1, <3>1 DEF r
  <2> QED
    BY <1>6, <2>2, <2>3, <2>4
<1>12. Ordered(T)
  BY <1>5, <1>6, <1>10, <1>11, FewerKeepOrder, MoveKeepsOrder
<1>13. \A z \in T : NumIn(z.num, S)
  BY <1>10, MoveKeepsNums DEF NumIn
<1>14. ASSUME NEW y \in S
       PROVE  NumIn(y.num, T)
  <2>1. CASE y \in QueueSpots(a, queue)
    <3>1. CASE NumIn(y.num, QueueSpots(a, queue'))
      BY <3>1 DEF NumIn, T
    <3>2. CASE queue[s][1].app = a /\ queue[s][1].num = y.num
      <4> DEFINE z == [num |-> x.num, rank |-> 2 * Rank[d] - 1, place |-> 1]
      <4>1. z \in HandSpots(a, hand', dst')
        BY <1>1, <1>2, <1>3, <3>2, OnlySpots
      <4>2. z.num = y.num
        BY <1>3, <3>2
      <4> HIDE DEF z
      <4> QED
        BY <4>1, <4>2 DEF NumIn, T
    <3> QED
      BY <1>1, <1>2, <2>1, <3>1, <3>2, PoppedSpots
  <2>2. CASE y \in HandSpots(a, hand, dst)
    <3>1. y \in HandSpots(a, hand', dst')
      BY <1>1, <1>2, <1>4, <2>2, OnlySpots
    <3> QED
      BY <3>1 DEF NumIn, T
  <2>3. CASE y \in AppSpots(delivered[a])
    BY <2>3 DEF NumIn, T
  <2> QED
    BY <1>6, <2>1, <2>2, <2>3
<1>15. Spots(a)' = T
  BY <1>1, SpotsNext DEF T
<1>16. \A n : NumIn(n, T) <=> NumIn(n, S)
  BY <1>13, <1>14 DEF NumIn
<1> QED
  BY <1>12, <1>15, <1>16, Zenon DEF Advanced, S

(* The three kinds of spot an application has, and where they can be. *)
LEMMA SpotKinds ==
  ASSUME Threading, InLine, NEW a \in Apps
  PROVE  /\ Spots(a) \subseteq Spot /\ Ordered(Spots(a))
         /\ QueueSpots(a, queue) \subseteq Spots(a) /\ HandSpots(a, hand, dst) \subseteq Spots(a)
         /\ AppSpots(delivered[a]) \subseteq Spots(a)
         /\ \A y \in Spots(a) : \/ y \in QueueSpots(a, queue) \/ y \in HandSpots(a, hand, dst)
                                \/ y \in AppSpots(delivered[a])
BY SpotRanks DEF Threading, Spots, InLine

(* A pipe has an even rank, a hand an odd one, both below an application's. *)
LEMMA Parity ==
  ASSUME Threading, NEW a \in Apps, NEW r \in 1 .. 8
  PROVE  /\ \A y \in QueueSpots(a, queue) : y.rank # 2 * r - 1 /\ y.rank # 17
         /\ \A y \in HandSpots(a, hand, dst) : y.rank # 2 * r /\ y.rank # 17
         /\ \A y \in AppSpots(delivered[a]) : y.rank = 17 /\ y.rank # 2 * r /\ y.rank # 2 * r - 1
<1> USE DEF Threading
<1>1. ASSUME NEW y \in QueueSpots(a, queue)
      PROVE  y.rank # 2 * r - 1 /\ y.rank # 17
  <2>1. PICK q \in 1 .. 8 : y.rank = 2 * q
    BY QueueRanks
  <2> QED
    BY <2>1
<1>2. ASSUME NEW y \in HandSpots(a, hand, dst)
      PROVE  y.rank # 2 * r /\ y.rank # 17
  <2>1. PICK q \in 1 .. 8 : y.rank = 2 * q - 1
    BY HandRanks
  <2> QED
    BY <2>1
<1>3. ASSUME NEW y \in AppSpots(delivered[a])
      PROVE  y.rank = 17 /\ y.rank # 2 * r /\ y.rank # 2 * r - 1
  <2>1. y.rank = 17
    BY AppRanks
  <2> QED
    BY <2>1
<1> QED
  BY <1>1, <1>2, <1>3

LEMMA GaveAdvances ==
  ASSUME Threading, InLine, NEW t, NEW s, NEW x, NEW q, Gave(t, s, x, q), NEW a \in Apps
  PROVE  Advanced(a)
<1> USE DEF Threading
<1> DEFINE S == Spots(a)
           T == QueueSpots(a, queue') \cup HandSpots(a, hand', dst') \cup AppSpots(delivered'[a])
           k == Len(delivered[a]) + 1
           new == [num |-> x.num, rank |-> 17, place |-> k]
<1>1. /\ t \in Threads /\ pc[t] = "read"
      /\ s \in Lines /\ queue[s] # <<>> /\ Rank[s] = 8
      /\ q \in AllApps /\ x \in Messages /\ x.app = q
      /\ x.app = Head(queue[s]).app /\ x.num = Head(queue[s]).num
      /\ queue' = [queue EXCEPT ![s] = Tail(@)]
      /\ delivered' = [delivered EXCEPT ![q] = Append(@, x)]
      /\ Loop(t)
  BY DEF Gave
<1>2. Only(t, "select", "none", NoMsg, "none") /\ Popped(s)
  BY <1>1, LoopEffect, PopEffect
<1>3. x.app = queue[s][1].app /\ x.num = queue[s][1].num
  BY <1>1, <1>2 DEF Popped
<1>4. hand[t].app # a
  BY <1>1, NoMsgHasNoApp DEF Loops, Holds
<1>5. /\ \A z \in AppSpots(delivered'[a]) :
           z \in AppSpots(delivered[a]) \/ (x.app = a /\ z = new)
      /\ AppSpots(delivered[a]) \subseteq AppSpots(delivered'[a])
      /\ x.app = a => new \in AppSpots(delivered'[a])
      /\ k \in Nat
  <2>1. delivered \in [AllApps -> Seq(Messages)] /\ a \in AllApps
    BY StackAssumption DEF Shape
  <2>2. CASE x.app = a
    <3>1. delivered[a] \in Seq(Messages) /\ delivered'[a] = Append(delivered[a], x)
      BY <1>1, <2>1, <2>2
    <3>2. /\ DOMAIN Append(delivered[a], x) = 1 .. k
          /\ DOMAIN delivered[a] = 1 .. Len(delivered[a]) /\ Len(delivered[a]) \in Nat
          /\ \A i \in DOMAIN delivered[a] : /\ i \in DOMAIN Append(delivered[a], x)
                                            /\ Append(delivered[a], x)[i] = delivered[a][i]
          /\ Append(delivered[a], x)[k] = x
      BY <1>1, <3>1, AtTheEnd
    <3>3. \A i \in 1 .. k : i \in DOMAIN delivered[a] \/ i = k
      BY <3>2
    <3>4. k \in 1 .. k /\ k \in Nat
      BY <3>2
    <3> HIDE DEF k
    <3>5. \A z \in AppSpots(delivered'[a]) : z \in AppSpots(delivered[a]) \/ z = new
      <4>1. SUFFICES ASSUME NEW z \in AppSpots(delivered'[a])
                     PROVE  z \in AppSpots(delivered[a]) \/ z = new
        OBVIOUS
      <4>2. PICK i \in DOMAIN delivered'[a] :
              z = [num |-> delivered'[a][i].num, rank |-> 17, place |-> i]
        BY AppSpot
      <4>3. CASE i = k
        BY <3>1, <3>2, <4>2, <4>3
      <4>4. CASE i \in DOMAIN delivered[a]
        <5>1. delivered'[a][i] = delivered[a][i]
          BY <3>1, <3>2, <4>4
        <5> QED
          BY <4>2, <4>4, <5>1, AppSpot
      <4> QED
        BY <3>1, <3>2, <3>3, <4>2, <4>3, <4>4
    <3>6. ASSUME NEW z \in AppSpots(delivered[a])
          PROVE  z \in AppSpots(delivered'[a])
      <4>1. PICK i \in DOMAIN delivered[a] :
              z = [num |-> delivered[a][i].num, rank |-> 17, place |-> i]
        BY AppSpot
      <4>2. i \in DOMAIN delivered'[a] /\ delivered'[a][i] = delivered[a][i]
        BY <3>1, <3>2, <4>1
      <4> QED
        BY <4>1, <4>2, AppSpot
    <3>7. new \in AppSpots(delivered'[a])
      BY <3>1, <3>2, <3>4, AppSpot
    <3> QED
      BY <2>2, <3>4, <3>5, <3>6, <3>7
  <2>3. CASE x.app # a
    <3>1. delivered'[a] = delivered[a] /\ delivered[a] \in Seq(Messages)
      BY <1>1, <2>1, <2>3
    <3> QED
      BY <2>3, <3>1
  <2> QED
    BY <2>2, <2>3
<1>6. /\ new.num = x.num /\ new.rank = 17 /\ new.place = k
      /\ \A y \in AppSpots(delivered[a]) : y.place <= k
  <2>1. \A y \in AppSpots(delivered[a]) :
          y.place \in 1 .. Len(delivered[a]) /\ Len(delivered[a]) \in Nat
    BY AppRanks
  <2> QED
    BY <2>1
<1> HIDE DEF S, T, k, new
<1>7. 2 * Rank[s] = 16 /\ 16 \in Nat /\ 16 + 1 = 17 /\ 2 * 8 = 16
  BY <1>1
<1>8. /\ S \subseteq Spot /\ Ordered(S)
      /\ QueueSpots(a, queue) \subseteq S /\ HandSpots(a, hand, dst) \subseteq S
      /\ AppSpots(delivered[a]) \subseteq S
      /\ \A y \in S : \/ y \in QueueSpots(a, queue) \/ y \in HandSpots(a, hand, dst)
                      \/ y \in AppSpots(delivered[a])
  BY SpotKinds DEF S
<1>9. /\ \A y \in QueueSpots(a, queue) : y.rank # 17
      /\ \A y \in HandSpots(a, hand, dst) : y.rank # 16 /\ y.rank # 17
      /\ \A y \in AppSpots(delivered[a]) : y.rank # 16
  <2>1. 8 \in 1 .. 8
    OBVIOUS
  <2> QED
    BY <1>7, <2>1, Parity
<1>10. \A z \in HandSpots(a, hand', dst') : z \in HandSpots(a, hand, dst)
  <2>1. \A z \in HandSpots(a, hand', dst') : HandLeft(z, t, a, NoMsg, "none")
    BY <1>1, <1>2, OnlySpots
  <2> QED
    BY <2>1, NoMsgHasNoApp DEF HandLeft
<1>11. \A z \in QueueSpots(a, queue') :
         \/ z \in S /\ (a \in Users[s] => z.rank # 16)
         \/ /\ a \in Users[s] /\ z.rank = 16 /\ z.place \in Nat \ {0}
            /\ \E y \in S : y.num = z.num /\ y.rank = 16 /\ y.place = z.place + 1
  <2>1. \A z \in QueueSpots(a, queue') : QueueLeft(z, s, a)
    BY <1>1, <1>2, PoppedSpots
  <2> QED
    BY <1>7, <1>8, <2>1 DEF QueueLeft
<1>12. x.app = a => /\ a \in Users[s]
                    /\ \E y \in S : y.num = new.num /\ y.rank = 16 /\ y.place = 1
  <2>1. x.app = a => FirstLeft(s, a)
    BY <1>1, <1>2, <1>3, PoppedSpots
  <2> QED
    BY <1>3, <1>6, <1>7, <1>8, <2>1 DEF FirstLeft
<1>13. T \subseteq S \/ Moved(S, T, 16, k)
  <2>1. CASE a \in Users[s]
    <3>1. ASSUME NEW z \in T
          PROVE  \/ z \in S /\ z.rank # 16
                 \/ /\ z.rank = 16 /\ z.place \in Nat \ {0}
                    /\ \E y \in S : y.num = z.num /\ y.rank = 16 /\ y.place = z.place + 1
                 \/ /\ z.rank = 16 + 1 /\ z.place = k
                    /\ \E y \in S : y.num = z.num /\ y.rank = 16 /\ y.place = 1
      <4>1. CASE z \in QueueSpots(a, queue')
        BY <1>11, <2>1, <4>1
      <4>2. CASE z \in HandSpots(a, hand', dst')
        BY <1>8, <1>9, <1>10, <4>2
      <4>3. CASE z \in AppSpots(delivered[a])
        BY <1>8, <1>9, <4>3
      <4>4. CASE x.app = a /\ z = new
        BY <1>6, <1>7, <1>12, <4>4
      <4> QED
        BY <1>5, <3>1, <4>1, <4>2, <4>3, <4>4 DEF T
    <3> QED
      BY <3>1 DEF Moved
  <2>2. CASE a \notin Users[s]
    BY <1>5, <1>8, <1>10, <1>11, <1>12, <2>2 DEF T
  <2> QED
    BY <2>1, <2>2
<1>14. \A y \in S : y.rank = 16 + 1 => y.place <= k
  BY <1>6, <1>7, <1>8, <1>9
<1>15. Ordered(T)
  BY <1>5, <1>7, <1>8, <1>13, <1>14, FewerKeepOrder, MoveKeepsOrder
<1>16. \A z \in T : NumIn(z.num, S)
  BY <1>13, MoveKeepsNums DEF NumIn
<1>17. ASSUME NEW y \in S
       PROVE  NumIn(y.num, T)
  <2>1. CASE y \in QueueSpots(a, queue)
    <3>1. CASE NumIn(y.num, QueueSpots(a, queue'))
      BY <3>1 DEF NumIn, T
    <3>2. CASE queue[s][1].app = a /\ queue[s][1].num = y.num
      BY <1>3, <1>5, <1>6, <3>2 DEF NumIn, T
    <3> QED
      BY <1>1, <1>2, <2>1, <3>1, <3>2, PoppedSpots
  <2>2. CASE y \in HandSpots(a, hand, dst)
    <3>1. y \in HandSpots(a, hand', dst')
      BY <1>1, <1>2, <1>4, <2>2, OnlySpots
    <3> QED
      BY <3>1 DEF NumIn, T
  <2>3. CASE y \in AppSpots(delivered[a])
    BY <1>5, <2>3 DEF NumIn, T
  <2> QED
    BY <1>8, <2>1, <2>2, <2>3
<1>18. Spots(a)' = T
  BY SpotsNext DEF T
<1>19. \A n : NumIn(n, T) <=> NumIn(n, S)
  BY <1>16, <1>17 DEF NumIn
<1> QED
  BY <1>15, <1>18, <1>19, Zenon DEF Advanced, S

LEMMA PlacedAdvances ==
  ASSUME Threading, InLine, NEW t, NEW x, NEW d, Placed(t, x, d), NEW a \in Apps
  PROVE  Advanced(a)
<1> USE DEF Threading
<1> DEFINE S == Spots(a)
           T == QueueSpots(a, queue') \cup HandSpots(a, hand', dst') \cup AppSpots(delivered[a])
           r == 2 * Rank[d] - 1
           k == Len(queue[d]) + 1
           new == [num |-> x.num, rank |-> 2 * Rank[d], place |-> k]
           old == [num |-> hand[t].num, rank |-> r, place |-> 1]
<1>1. /\ t \in Threads /\ d \in Lines /\ dst[t] = d
      /\ hand[t] \in Messages
      /\ x \in Messages /\ x.app = hand[t].app /\ x.num = hand[t].num
      /\ queue' = [queue EXCEPT ![d] = Append(@, x)]
      /\ Loop(t)
      /\ delivered' = delivered
  BY DEF Placed
<1>2. Only(t, "select", "none", NoMsg, "none") /\ Put(d, x)
  BY <1>1, LoopEffect, PutEffect
<1>3. Rank[d] \in 1 .. 8 /\ r \in Nat /\ r + 1 = 2 * Rank[d]
  BY <1>1, RankAndUsers
<1>4. k \in Nat /\ Len(queue[d]) \in Nat /\ Len(queue[d]) <= k
  BY <1>1, <1>2 DEF Put
<1>5. hand[t].app = a => a \in Users[d] /\ old \in HandSpots(a, hand, dst)
  <2>1. hand[t] # NoMsg
    BY <1>1, NoMsgHasNoApp
  <2>2. hand[t].app \in Users[d]
    BY <1>1, <2>1 DEF Routed, Fits
  <2> QED
    BY <1>1, <2>2, HandSpot
<1>6. /\ \A z \in QueueSpots(a, queue') : z \in QueueSpots(a, queue) \/ (x.app = a /\ z = new)
      /\ QueueSpots(a, queue) \subseteq QueueSpots(a, queue')
      /\ x.app = a => new \in QueueSpots(a, queue')
      /\ \A y \in QueueSpots(a, queue) : a \in Users[d] /\ y.rank = 2 * Rank[d] =>
           y.place <= Len(queue[d])
  BY <1>1, <1>2, PutSpots
<1>7. /\ new.num = x.num /\ new.rank = r + 1 /\ new.place = k
      /\ old.num = hand[t].num /\ old.rank = r /\ old.place = 1
  BY <1>3
<1> HIDE DEF S, T, k, new, old
<1>8. /\ S \subseteq Spot /\ Ordered(S)
      /\ QueueSpots(a, queue) \subseteq S /\ HandSpots(a, hand, dst) \subseteq S
      /\ AppSpots(delivered[a]) \subseteq S
      /\ \A y \in S : \/ y \in QueueSpots(a, queue) \/ y \in HandSpots(a, hand, dst)
                      \/ y \in AppSpots(delivered[a])
  BY SpotKinds DEF S
<1>9. /\ \A y \in QueueSpots(a, queue) : y.rank # r
      /\ \A y \in HandSpots(a, hand, dst) : y.rank # 2 * Rank[d]
      /\ \A y \in AppSpots(delivered[a]) : y.rank # r /\ y.rank # 2 * Rank[d]
  BY <1>3, Parity
<1>10. \A z \in HandSpots(a, hand', dst') :
         z \in HandSpots(a, hand, dst) /\ (hand[t].app = a => z.rank # r)
  <2>1. \A z \in HandSpots(a, hand', dst') : HandLeft(z, t, a, NoMsg, "none")
    BY <1>1, <1>2, OnlySpots
  <2> QED
    BY <1>1, <2>1, NoMsgHasNoApp DEF HandLeft
<1> HIDE DEF r
<1>11. T \subseteq S \/ Moved(S, T, r, k)
  <2>1. CASE hand[t].app = a
    <3>1. ASSUME NEW z \in T
          PROVE  \/ z \in S /\ z.rank # r
                 \/ /\ z.rank = r + 1 /\ z.place = k
                    /\ \E y \in S : y.num = z.num /\ y.rank = r /\ y.place = 1
      <4>1. CASE z \in QueueSpots(a, queue)
        BY <1>8, <1>9, <4>1
      <4>2. CASE z = new
        BY <1>1, <1>5, <1>7, <1>8, <2>1, <4>2
      <4>3. CASE z \in HandSpots(a, hand', dst')
        BY <1>8, <1>10, <2>1, <4>3
      <4>4. CASE z \in AppSpots(delivered[a])
        BY <1>8, <1>9, <4>4
      <4> QED
        BY <1>6, <3>1, <4>1, <4>2, <4>3, <4>4 DEF T
    <3> QED
      BY <3>1 DEF Moved
  <2>2. CASE hand[t].app # a
    BY <1>1, <1>6, <1>8, <1>10, <2>2 DEF T
  <2> QED
    BY <2>1, <2>2
<1>12. T \subseteq S \/ \A y \in S : y.rank = r + 1 => y.place <= k
  <2>1. CASE hand[t].app = a
    <3>1. ASSUME NEW y \in S, y.rank = r + 1
          PROVE  y.place <= k
      <4>1. y \in QueueSpots(a, queue)
        BY <1>3, <1>8, <1>9, <3>1
      <4>2. y.place <= Len(queue[d]) /\ y.place \in Nat
        BY <1>3, <1>5, <1>6, <1>8, <2>1, <3>1, <4>1 DEF Spot
      <4> QED
        BY <1>4, <4>2
    <3> QED
      BY <3>1
  <2>2. CASE hand[t].app # a
    BY <1>1, <1>6, <1>8, <1>10, <2>2 DEF T
  <2> QED
    BY <2>1, <2>2
<1>13. Ordered(T)
  BY <1>3, <1>4, <1>8, <1>11, <1>12, FewerKeepOrder, MoveKeepsOrder
<1>14. \A z \in T : NumIn(z.num, S)
  BY <1>11, MoveKeepsNums DEF NumIn
<1>15. ASSUME NEW y \in S
       PROVE  NumIn(y.num, T)
  <2>1. CASE y \in QueueSpots(a, queue)
    BY <1>6, <2>1 DEF NumIn, T
  <2>2. CASE y \in HandSpots(a, hand, dst)
    <3>1. CASE y \in HandSpots(a, hand', dst')
      BY <3>1 DEF NumIn, T
    <3>2. CASE hand[t].app = a /\ y.num = hand[t].num
      BY <1>1, <1>6, <1>7, <3>2 DEF NumIn, T
    <3> QED
      BY <1>1, <1>2, <2>2, <3>1, <3>2, OnlySpots
  <2>3. CASE y \in AppSpots(delivered[a])
    BY <2>3 DEF NumIn, T
  <2> QED
    BY <1>8, <2>1, <2>2, <2>3
<1>16. Spots(a)' = T
  BY <1>1, SpotsNext DEF T
<1>17. \A n : NumIn(n, T) <=> NumIn(n, S)
  BY <1>14, <1>15 DEF NumIn
<1> QED
  BY <1>13, <1>16, <1>17, Zenon DEF Advanced, S

LEMMA DroppedLosesOne ==
  ASSUME Threading, InLine, NEW t, Dropped(t), NEW a \in Apps
  PROVE  /\ Ordered(Spots(a)')
         /\ \A n : NumIn(n, Spots(a)') <=>
                     NumIn(n, Spots(a)) /\ ~(hand[t].app = a /\ n = hand[t].num)
         /\ hand[t].app \in Apps /\ hand[t].num \in 1 .. sent[hand[t].app]
<1> USE DEF Threading
<1> DEFINE S == Spots(a)
           T == QueueSpots(a, queue) \cup HandSpots(a, hand', dst') \cup AppSpots(delivered[a])
           r == 2 * Rank[dst[t]] - 1
           old == [num |-> hand[t].num, rank |-> r, place |-> 1]
<1>1. /\ t \in Threads /\ pc[t] = "lock" /\ dst[t] = "socket"
      /\ hand[t] \in Messages
      /\ Loop(t)
      /\ queue' = queue /\ delivered' = delivered
  BY DEF Dropped
<1>2. Only(t, "select", "none", NoMsg, "none")
  BY <1>1, LoopEffect
<1>3. dst[t] \in Lines /\ Rank[dst[t]] \in 1 .. 8
  BY <1>1, RankAndUsers DEF Lines
<1>4. hand[t].app \in Apps /\ hand[t].num \in 1 .. sent[hand[t].app]
  <2>1. hand[t] # NoMsg
    BY <1>1, NoMsgHasNoApp
  <2> QED
    BY <1>1, <2>1 DEF Routed, Fits, Messages
<1>5. hand[t].app = a => old \in HandSpots(a, hand, dst)
  BY <1>1, HandSpot
<1>6. old.num = hand[t].num /\ old.rank = r
  OBVIOUS
<1> HIDE DEF S, T, old
<1>7. /\ S \subseteq Spot /\ Ordered(S)
      /\ QueueSpots(a, queue) \subseteq S /\ HandSpots(a, hand, dst) \subseteq S
      /\ AppSpots(delivered[a]) \subseteq S
      /\ \A y \in S : \/ y \in QueueSpots(a, queue) \/ y \in HandSpots(a, hand, dst)
                      \/ y \in AppSpots(delivered[a])
  BY SpotKinds DEF S
<1>8. /\ \A y \in QueueSpots(a, queue) : y.rank # r
      /\ \A y \in AppSpots(delivered[a]) : y.rank # r
  BY <1>3, Parity
<1>9. \A z \in HandSpots(a, hand', dst') :
        z \in HandSpots(a, hand, dst) /\ (hand[t].app = a => z.rank # r)
  <2>1. \A z \in HandSpots(a, hand', dst') : HandLeft(z, t, a, NoMsg, "none")
    BY <1>1, <1>2, OnlySpots
  <2> QED
    BY <2>1, NoMsgHasNoApp DEF HandLeft
<1> HIDE DEF r
<1>10. T \subseteq S
  BY <1>7, <1>9 DEF T
<1>11. Ordered(T)
  BY <1>7, <1>10, FewerKeepOrder
<1>12. ASSUME NEW z \in T
       PROVE  NumIn(z.num, S) /\ ~(hand[t].app = a /\ z.num = hand[t].num)
  <2>1. NumIn(z.num, S)
    BY <1>10, <1>12 DEF NumIn
  <2>2. ASSUME hand[t].app = a, z.num = hand[t].num
        PROVE  FALSE
    <3>1. z = old
      BY <1>5, <1>6, <1>7, <1>10, <2>2, OneSpot
    <3>2. z.rank # r
      BY <1>8, <1>9, <2>2 DEF T
    <3> QED
      BY <1>6, <3>1, <3>2
  <2> QED
    BY <2>1, <2>2
<1>13. ASSUME NEW y \in S, ~(hand[t].app = a /\ y.num = hand[t].num)
       PROVE  NumIn(y.num, T)
  <2>1. CASE y \in HandSpots(a, hand, dst)
    <3>1. y \in HandSpots(a, hand', dst')
      BY <1>1, <1>2, <1>13, <2>1, OnlySpots
    <3> QED
      BY <3>1 DEF NumIn, T
  <2>2. CASE y \in QueueSpots(a, queue) \cup AppSpots(delivered[a])
    BY <2>2 DEF NumIn, T
  <2> QED
    BY <1>7, <2>1, <2>2
<1>14. Spots(a)' = T
  BY <1>1, SpotsNext DEF T
<1>15. \A n : NumIn(n, T) <=> NumIn(n, S) /\ ~(hand[t].app = a /\ n = hand[t].num)
  BY <1>12, <1>13 DEF NumIn
<1> QED
  BY <1>4, <1>11, <1>14, <1>15, Zenon DEF S

LEMMA CreateAddsOne ==
  ASSUME Threading, InLine, NEW b \in Apps, Create(b), NEW a \in Apps
  PROVE  /\ Ordered(Spots(a)')
         /\ \A n : NumIn(n, Spots(a)') <=>
                     NumIn(n, Spots(a)) \/ (a = b /\ n = sent[b] + 1)
         /\ sent[b] \in Nat /\ sent' = [sent EXCEPT ![b] = sent[b] + 1]
         /\ \A n : NumIn(n, Spots(a)) => n \in 1 .. sent[a]
<1> USE DEF Threading
<1> DEFINE S == Spots(a)
           T == QueueSpots(a, queue) \cup HandSpots(a, hand', dst') \cup AppSpots(delivered[a])
           t == Poll(b)
           n1 == sent[b] + 1
           x == Fresh(b, n1)
           d == SendIn[b][1]
           new == [num |-> n1, rank |-> 1, place |-> 1]
<1>1. /\ t \in Threads /\ pc[t] = "select"
      /\ sent' = [sent EXCEPT ![b] = n1]
      /\ Carry(t, x, d)
      /\ queue' = queue /\ delivered' = delivered
  BY DEF Create, Threads
<1>2. b \in AllApps /\ sent \in [Apps -> Nat] /\ n1 \in Nat
  BY StackAssumption DEF Shape
<1>3. d \in Lines /\ Rank[d] = 1
  BY <1>2, FirstLine
<1>4. x \in Messages /\ x.app = b /\ x.num = n1
  BY <1>2 DEF Fresh, Messages
<1> HIDE DEF S, T, t, x, d
<1>5. Only(t, "lock", "none", x, d)
  BY <1>1, <1>3, <1>4, CarryEffect
<1>6. hand[t].app # a
  BY <1>1, NoMsgHasNoApp DEF Loops, Holds
<1>7. [num |-> x.num, rank |-> 2 * Rank[d] - 1, place |-> 1] = new
  BY <1>3, <1>4
<1>8. /\ S \subseteq Spot /\ Ordered(S)
      /\ QueueSpots(a, queue) \subseteq S /\ HandSpots(a, hand, dst) \subseteq S
      /\ AppSpots(delivered[a]) \subseteq S
      /\ \A y \in S : \/ y \in QueueSpots(a, queue) \/ y \in HandSpots(a, hand, dst)
                      \/ y \in AppSpots(delivered[a])
  BY SpotKinds DEF S
<1>9. \A y \in S : y.num \in 1 .. sent[a] /\ y.rank >= 1 /\ (y.rank = 1 => y.place = 1)
  BY SpotNums, SpotRanks DEF S
<1>10. \A z \in HandSpots(a, hand', dst') : z \in HandSpots(a, hand, dst) \/ (a = b /\ z = new)
  <2>1. \A z \in HandSpots(a, hand', dst') : HandLeft(z, t, a, x, d)
    BY <1>1, <1>5, OnlySpots
  <2> QED
    BY <1>4, <1>7, <2>1 DEF HandLeft
<1>11. HandSpots(a, hand, dst) \subseteq HandSpots(a, hand', dst')
  BY <1>1, <1>5, <1>6, OnlySpots
<1>12. a = b => new \in HandSpots(a, hand', dst')
  BY <1>1, <1>4, <1>5, <1>7, OnlySpots
<1>13. new.num = n1
  OBVIOUS
<1>14. Ordered(T)
  <2>1. CASE a = b
    <3>1. T \subseteq S \cup {[num |-> n1, rank |-> 1, place |-> 1]}
      BY <1>8, <1>10 DEF T
    <3>2. \A y \in S : y.num < n1 /\ y.rank >= 1 /\ (y.rank = 1 => y.place = 1)
      BY <1>2, <1>9, <2>1
    <3> HIDE DEF n1
    <3> QED
      BY <1>2, <1>8, <3>1, <3>2, NewKeepsOrder
  <2>2. CASE a # b
    <3>1. T \subseteq S
      BY <1>8, <1>10, <2>2 DEF T
    <3> QED
      BY <1>8, <3>1, FewerKeepOrder
  <2> QED
    BY <2>1, <2>2
<1> HIDE DEF new, n1
<1>15. ASSUME NEW z \in T
       PROVE  NumIn(z.num, S) \/ (a = b /\ z.num = n1)
  BY <1>8, <1>10, <1>13, <1>15 DEF T, NumIn
<1>16. \A y \in S : NumIn(y.num, T)
  <2>1. S \subseteq T
    BY <1>8, <1>11 DEF T
  <2> QED
    BY <2>1 DEF NumIn
<1>17. a = b => NumIn(n1, T)
  BY <1>12, <1>13 DEF NumIn, T
<1>18. \A n : NumIn(n, T) <=> NumIn(n, S) \/ (a = b /\ n = n1)
  BY <1>15, <1>16, <1>17 DEF NumIn
<1>19. Spots(a)' = T
  BY <1>1, SpotsNext DEF T
<1>20. \A n : NumIn(n, S) => n \in 1 .. sent[a]
  BY <1>9 DEF NumIn
<1> QED
  BY <1>1, <1>2, <1>14, <1>18, <1>19, <1>20, Zenon DEF S, n1

-----------------------------------------------------------------------------
(***************************************************************************)
(* The invariant is inductive.                                             *)
(***************************************************************************)

LEMMA InvInit == Init => StackInv
<1> SUFFICES ASSUME Init
             PROVE  StackInv
  OBVIOUS
<1>1. /\ queue = [p \in Lines |-> <<>>]
      /\ holder = [p \in Pipes |-> Nobody]
      /\ pc = [t \in Threads |-> "select"]
      /\ src = [t \in Threads |-> "none"]
      /\ hand = [t \in Threads |-> NoMsg]
      /\ dst = [t \in Threads |-> "none"]
      /\ sent = [a \in Apps |-> 0]
      /\ payload = [a \in Apps |-> 0]
      /\ delivered = [a \in AllApps |-> <<>>]
      /\ lost = {}
  BY DEF Init, Lines
<1>2. TotSend \in [Apps -> Nat] /\ PipeCap \in Nat /\ SockCap \in Nat /\ Apps \subseteq AllApps
  BY StackAssumption
<1>3. Shape
  BY <1>1, <1>2 DEF Shape
<1>4. Capacity
  <2>1. \A p \in Lines : Len(queue[p]) = 0
    BY <1>1
  <2>2. Pipes \subseteq Lines /\ "socket" \in Lines
    BY DEF Lines
  <2> QED
    BY <1>2, <2>1, <2>2 DEF Capacity
<1>5. Loops
  BY <1>1 DEF Loops, Reads, Holds
<1>6. Locks
  BY <1>1 DEF Locks
<1>7. Routed
  BY <1>1 DEF Routed
<1>8. \A a \in Apps : Spots(a) = {}
  <2>1. SUFFICES ASSUME NEW a \in Apps, NEW x \in Spots(a)
                 PROVE  FALSE
    OBVIOUS
  <2>2. x \notin QueueSpots(a, queue)
    BY <1>1, QueueSpot
  <2>3. x \notin HandSpots(a, hand, dst)
    BY <1>1, HandSpot, NoMsgHasNoApp
  <2>4. x \notin AppSpots(delivered[a])
    BY <1>1, <1>2, AppSpot
  <2> QED
    BY <2>1, <2>2, <2>3, <2>4 DEF Spots
<1>9. InLine
  BY <1>8 DEF InLine, Ordered
<1>10. Kept
  BY <1>1, <1>2 DEF Kept
<1> QED
  BY <1>3, <1>4, <1>5, <1>6, <1>7, <1>9, <1>10 DEF StackInv

LEMMA AdvancedKeeps ==
  ASSUME Kept, \A a \in Apps : Advanced(a), sent' = sent, lost' = lost
  PROVE  InLine' /\ Kept'
<1>1. InLine'
  BY DEF InLine, Advanced
<1>2. \A a \in Apps, n \in Nat : Somewhere(a, n)' <=> Somewhere(a, n)
  BY DEF Advanced, Somewhere, NumIn
<1>3. \A a \in Apps : \A n \in Nat : <<a, n>> \in lost' => n \in 1 .. sent'[a]
  BY DEF Kept
<1>4. Kept'
  <2>1. SUFFICES ASSUME NEW a \in Apps, NEW n \in 1 .. sent[a]
                 PROVE  <<a, n>> \in lost <=> ~NumIn(n, Spots(a)')
    BY <1>3 DEF Kept, Somewhere, NumIn
  <2>2. <<a, n>> \in lost <=> ~NumIn(n, Spots(a))
    BY DEF Kept, Somewhere, NumIn
  <2> QED
    BY <2>2 DEF Advanced
<1> QED
  BY <1>1, <1>4

LEMMA SameSpots ==
  ASSUME InLine, UNCHANGED <<queue, hand, dst, delivered>>, NEW a \in Apps
  PROVE  Advanced(a)
BY DEF InLine, Advanced, Spots

LEMMA InvNext == StackInv /\ [Next]_vars => StackInv'
<1> SUFFICES ASSUME StackInv, [Next]_vars
             PROVE  StackInv'
  OBVIOUS
<1>1. Threading /\ InLine /\ Kept
  BY DEF StackInv, Threading
<1>2. SUFFICES Threading' /\ InLine' /\ Kept'
  BY DEF StackInv, Threading
<1>3. Shape /\ Loops /\ Locks /\ Routed
  BY <1>1 DEF Threading
<1>4. ASSUME NEW t, NEW s, NEW x, NEW d, Took(t, s, x, d)
      PROVE  Threading' /\ InLine' /\ Kept'
  <2>1. \A a \in Apps : Advanced(a)
    BY <1>1, <1>4, TookAdvances
  <2>2. sent' = sent /\ lost' = lost
    BY <1>4 DEF Took
  <2> QED
    BY <1>1, <1>4, <2>1, <2>2, TookThreading, AdvancedKeeps
<1>5. ASSUME NEW t, NEW s, NEW x, NEW d, Gave(t, s, x, d)
      PROVE  Threading' /\ InLine' /\ Kept'
  <2>1. \A a \in Apps : Advanced(a)
    BY <1>1, <1>5, GaveAdvances
  <2>2. sent' = sent /\ lost' = lost
    BY <1>5 DEF Gave
  <2> QED
    BY <1>1, <1>5, <2>1, <2>2, GaveThreading, AdvancedKeeps
<1>6. ASSUME NEW t, NEW x, NEW d, Placed(t, x, d)
      PROVE  Threading' /\ InLine' /\ Kept'
  <2>1. \A a \in Apps : Advanced(a)
    BY <1>1, <1>6, PlacedAdvances
  <2>2. sent' = sent /\ lost' = lost
    BY <1>6 DEF Placed
  <2> QED
    BY <1>1, <1>6, <2>1, <2>2, PlacedThreading, AdvancedKeeps
<1>7. ASSUME NEW t, Dropped(t)
      PROVE  Threading' /\ InLine' /\ Kept'
  <2>1. \A a \in Apps :
          /\ Ordered(Spots(a)')
          /\ \A n : NumIn(n, Spots(a)') <=>
                      NumIn(n, Spots(a)) /\ ~(hand[t].app = a /\ n = hand[t].num)
          /\ hand[t].app \in Apps /\ hand[t].num \in 1 .. sent[hand[t].app]
    BY <1>1, <1>7, DroppedLosesOne
  <2>2. lost' = lost \cup {<<hand[t].app, hand[t].num>>} /\ sent' = sent
    BY <1>7 DEF Dropped
  <2>3. InLine'
    BY <2>1 DEF InLine
  <2>4. ASSUME NEW a \in Apps, NEW n \in Nat, <<a, n>> \in lost'
        PROVE  n \in 1 .. sent'[a]
    <3>1. <<a, n>> \in lost \/ (a = hand[t].app /\ n = hand[t].num)
      BY <2>2, <2>4
    <3> QED
      BY <1>1, <2>1, <2>2, <3>1 DEF Kept
  <2>5. ASSUME NEW a \in Apps, NEW n \in 1 .. sent'[a]
        PROVE  <<a, n>> \in lost' <=> ~Somewhere(a, n)'
    <3>1. <<a, n>> \in lost <=> ~NumIn(n, Spots(a))
      BY <1>1, <2>2 DEF Kept, Somewhere, NumIn
    <3>2. <<a, n>> \in lost' <=> <<a, n>> \in lost \/ (hand[t].app = a /\ n = hand[t].num)
      BY <2>2
    <3>3. NumIn(n, Spots(a)') <=> NumIn(n, Spots(a)) /\ ~(hand[t].app = a /\ n = hand[t].num)
      BY <2>1
    <3>4. Somewhere(a, n)' <=> NumIn(n, Spots(a)')
      BY DEF Somewhere, NumIn
    <3> QED
      BY <3>1, <3>2, <3>3, <3>4
  <2>6. Kept'
    BY <2>4, <2>5 DEF Kept
  <2> QED
    BY <1>1, <1>7, <2>3, <2>6, DroppedThreading
<1>8. ASSUME NEW b \in Apps, Create(b)
      PROVE  Threading' /\ InLine' /\ Kept'
  <2>1. \A a \in Apps :
         /\ Ordered(Spots(a)')
         /\ \A n : NumIn(n, Spots(a)') <=>
                     NumIn(n, Spots(a)) \/ (a = b /\ n = sent[b] + 1)
         /\ sent[b] \in Nat /\ sent' = [sent EXCEPT ![b] = sent[b] + 1]
         /\ \A n : NumIn(n, Spots(a)) => n \in 1 .. sent[a]
    BY <1>1, <1>8, CreateAddsOne
  <2>2. lost' = lost
    BY <1>8 DEF Create
  <2>3. InLine'
    BY <2>1 DEF InLine
  <2>4. /\ sent'[b] = sent[b] + 1 /\ sent[b] \in Nat
        /\ \A a \in Apps : a # b => sent'[a] = sent[a]
        /\ \A a \in Apps : sent[a] \in Nat
    BY <1>3, <2>1, StackAssumption DEF Shape
  <2>5. ASSUME NEW a \in Apps, NEW n \in Nat, <<a, n>> \in lost'
        PROVE  n \in 1 .. sent'[a]
    <3>1. n \in 1 .. sent[a]
      BY <1>1, <2>2, <2>5 DEF Kept
    <3> QED
      BY <2>4, <3>1
  <2>6. ASSUME NEW a \in Apps, NEW n \in 1 .. sent'[a]
        PROVE  <<a, n>> \in lost' <=> ~Somewhere(a, n)'
    <3>1. Somewhere(a, n)' <=> NumIn(n, Spots(a)')
      BY DEF Somewhere, NumIn
    <3>2. CASE a = b /\ n = sent[b] + 1
      <4>1. NumIn(n, Spots(a)')
        BY <2>1, <3>2
      <4>2. n \in Nat /\ n \notin 1 .. sent[a]
        BY <2>4, <3>2
      <4>3. <<a, n>> \notin lost'
        BY <1>1, <2>2, <4>2 DEF Kept
      <4> QED
        BY <3>1, <4>1, <4>3
    <3>3. CASE ~(a = b /\ n = sent[b] + 1)
      <4>1. n \in 1 .. sent[a]
        BY <2>4, <2>6, <3>3
      <4>2. NumIn(n, Spots(a)') <=> NumIn(n, Spots(a))
        BY <2>1, <3>3
      <4>3. <<a, n>> \in lost <=> ~NumIn(n, Spots(a))
        BY <1>1, <4>1 DEF Kept, Somewhere, NumIn
      <4> QED
        BY <2>2, <3>1, <4>2, <4>3
    <3> QED
      BY <3>2, <3>3
  <2>7. Kept'
    BY <2>5, <2>6 DEF Kept
  <2> QED
    BY <1>1, <1>8, <2>3, <2>7, CreateThreading
<1>9. ASSUME NEW t \in Threads, Select(t)
      PROVE  Threading' /\ InLine' /\ Kept'
  <2>1. UNCHANGED <<queue, hand, dst, delivered, sent, lost>>
    BY <1>9 DEF Select
  <2> QED
    BY <1>1, <1>9, <2>1, SelectThreading, SameSpots, AdvancedKeeps
<1>10. ASSUME NEW t \in Threads, Lock(t)
       PROVE  Threading' /\ InLine' /\ Kept'
  <2>1. UNCHANGED <<queue, hand, dst, delivered, sent, lost>>
    BY <1>10 DEF Lock
  <2> QED
    BY <1>1, <1>10, <2>1, LockThreading, SameSpots, AdvancedKeeps
<1>11. ASSUME UNCHANGED vars
       PROVE  Threading' /\ InLine' /\ Kept'
  <2>1. UNCHANGED <<queue, hand, dst, delivered, sent, lost>>
    BY <1>11 DEF vars
  <2>2. Shape' /\ Capacity' /\ Locks'
    BY <1>1, <1>11 DEF vars, Threading, Shape, Capacity, Locks
  <2>3. Loops'
    BY <1>1, <1>11 DEF vars, Threading, Loops, Reads, Holds
  <2>4. Routed'
    BY <1>1, <1>11 DEF vars, Threading, Routed, Fits
  <2> QED
    BY <1>1, <2>1, <2>2, <2>3, <2>4, SameSpots, AdvancedKeeps DEF Threading
<1>12. ASSUME NEW t \in Threads, Write(t)
       PROVE  Threading' /\ InLine' /\ Kept'
  BY <1>3, <1>6, <1>12, WritePlaces
<1>13. ASSUME NEW p \in Protocols, ReadDown(p)
       PROVE  Threading' /\ InLine' /\ Kept'
  BY <1>3, <1>4, <1>13, ReadDownTakes
<1>14. ASSUME NEW p \in Protocols, ReadUp(p)
       PROVE  Threading' /\ InLine' /\ Kept'
  BY <1>3, <1>4, <1>5, <1>14, ReadUpTakesOrGives
<1>15. CASE SendTo
  BY <1>3, <1>6, <1>7, <1>15, SendToPlacesOrDrops
<1>16. CASE Drained
  BY <1>11, <1>16 DEF Drained
<1> QED
  BY <1>8, <1>9, <1>10, <1>11, <1>12, <1>13, <1>14, <1>15, <1>16 DEF Next

(* The inductive invariant holds of every behaviour. *)
THEOREM StackInvariant == Spec => []StackInv
BY InvInit, InvNext, PTL DEF Spec

-----------------------------------------------------------------------------
(***************************************************************************)
(* The properties.                                                         *)
(***************************************************************************)

(* Each variable has its type, and a thread's mind fits its place in its   *)
(* loop, with applications, messages and capacities of any number.         *)
THEOREM Types == Spec => []TypeOK
<1>1. StackInv => TypeOK
  <2> SUFFICES ASSUME StackInv
               PROVE  TypeOK
    OBVIOUS
  <2> USE DEF StackInv
  <2>1. /\ DOMAIN queue = Pipes \cup {"socket"}
        /\ pc \in [Threads -> {"select", "read", "lock", "write"}]
        /\ sent \in [Apps -> Nat] /\ payload = sent
        /\ \A a \in Apps : sent[a] <= TotSend[a]
    BY DEF Shape, Lines
  <2>2. ASSUME NEW t \in Threads
        PROVE  pc[t] = "read" <=> src[t] \in ToSet(Inputs(t))
    <3>1. src[t] \in ToSet(Inputs(t)) <=> src[t] \in Lines /\ Reader[src[t]] = t
      BY InputsAreRead
    <3> QED
      BY <3>1, LineNames DEF Loops, Reads
  <2>3. ASSUME NEW t \in Threads
        PROVE  pc[t] \in {"lock", "write"} <=> hand[t] # NoMsg /\ dst[t] \in DOMAIN queue
    BY <2>1, NoMsgHasNoApp DEF Loops, Holds, Lines
  <2> QED
    BY <2>1, <2>2, <2>3, Zenon DEF TypeOK, Capacity, Locks
<1> QED
  BY <1>1, StackInvariant, PTL

(* A pipe that a select found readable stays so until its thread reads it: *)
(* each pipe has one reader.                                               *)
THEOREM ReadersNeverWait == Spec => []SelectStaysTrue
<1>1. StackInv => SelectStaysTrue
  BY DEF StackInv, Loops, Reads, SelectStaysTrue
<1> QED
  BY <1>1, StackInvariant, PTL

(* An application is only given messages of its peer, with every header    *)
(* stripped: the tables of both directions agree for all applications.     *)
THEOREM MailIsOwn == Spec => []OwnMail
<1>1. StackInv => OwnMail
  BY HdrsOf DEF StackInv, Routed, Fits, OwnMail
<1> QED
  BY <1>1, StackInvariant, PTL

(* What is on the wire is what the process-per-message stack would put     *)
(* there.                                                                  *)
THEOREM WireIsShared == Spec => []SameWire
<1>1. ASSUME NEW a, NEW n
      PROVE  Datagram(a, n) = [app |-> a, num |-> n, hdrs |-> Hdrs4(a), seen |-> 0]
  <2> DEFINE R(h) == [app |-> a, num |-> n, hdrs |-> h, seen |-> 0]
  <2>1. ASSUME NEW h, NEW p, NEW hlp
        PROVE  AddHdr(R(h), p, hlp) = R(<<[of |-> p, hlp |-> hlp]>> \o h)
    <3> DEFINE g == <<[of |-> p, hlp |-> hlp]>> \o h
    <3>1. AddHdr(R(h), p, hlp) = [R(h) EXCEPT !.hdrs = g]
      BY DEF AddHdr
    <3> HIDE DEF g
    <3>2. [R(h) EXCEPT !.hdrs = g] = R(g)
      OBVIOUS
    <3> QED
      BY <3>1, <3>2 DEF g
  <2>2. Fresh(a, n) = R(<<>>)
    BY DEF Fresh
  <2> HIDE DEF R
  <2>3. AddHdr(Fresh(a, n), a, a) = R(Hdrs1(a))
    BY <2>1, <2>2, Zenon DEF Hdrs1
  <2>4. AddHdr(R(Hdrs1(a)), Transport[a], a) = R(Hdrs2(a))
    BY <2>1, Zenon DEF Hdrs2
  <2>5. AddHdr(R(Hdrs2(a)), "IP", Transport[a]) = R(Hdrs3(a))
    BY <2>1, Zenon DEF Hdrs3
  <2>6. AddHdr(R(Hdrs3(a)), "ETH", "IP") = R(Hdrs4(a))
    BY <2>1, Zenon DEF Hdrs4
  <2>7. Datagram(a, n) = R(Hdrs4(a))
    BY <2>3, <2>4, <2>5, <2>6, Zenon DEF Datagram
  <2> QED
    BY <2>7 DEF R
<1>2. StackInv => SameWire
  <2>1. SUFFICES ASSUME StackInv, NEW i \in DOMAIN queue["socket"]
                 PROVE  LET m == queue["socket"][i]
                        IN  m = [Datagram(m.app, m.num) EXCEPT !.seen = m.seen]
    BY DEF SameWire
  <2> DEFINE m == queue["socket"][i]
  <2>2. queue["socket"] \in Seq(Messages)
    BY <2>1 DEF StackInv, Shape, Lines
  <2>3. m \in Messages
    BY <2>1, <2>2
  <2>4. Fits(m, Users["socket"], Rank["socket"])
    BY <2>1 DEF StackInv, Routed, Lines
  <2>5. m.hdrs = Hdrs4(m.app)
    BY <2>4, HdrsOf DEF Fits, Rank
  <2> HIDE DEF m
  <2>6. m = [app |-> m.app, num |-> m.num, hdrs |-> m.hdrs, seen |-> m.seen]
    BY <2>3 DEF Messages
  <2>7. [[app |-> m.app, num |-> m.num, hdrs |-> Hdrs4(m.app), seen |-> 0] EXCEPT !.seen = m.seen]
          = [app |-> m.app, num |-> m.num, hdrs |-> Hdrs4(m.app), seen |-> m.seen]
    OBVIOUS
  <2>8. m = [Datagram(m.app, m.num) EXCEPT !.seen = m.seen]
    BY <1>1, <2>5, <2>6, <2>7, Zenon
  <2> QED
    BY <2>8 DEF m
<1> QED
  BY <1>2, StackInvariant, PTL

(* An application is given its messages in the order they were created and *)
(* none twice, whatever the threads and whatever the socket loses.         *)
THEOREM OrderIsKept == Spec => []InOrder
<1>1. StackInv => InOrder
  <2>1. SUFFICES ASSUME StackInv, NEW a \in AllApps, NEW i \in DOMAIN delivered[a],
                        NEW j \in DOMAIN delivered[a], i < j
                 PROVE  delivered[a][i].num < delivered[a][j].num
    BY DEF InOrder
  <2>2. delivered[a] \in Seq(Messages)
    BY <2>1 DEF StackInv, Shape
  <2>3. delivered[a][i] \in Messages /\ delivered[a][i].app = a
    <3>1. Fits(delivered[a][i], {a}, 9)
      BY <2>1 DEF StackInv, Routed
    <3> QED
      BY <2>2, <3>1 DEF Fits
  <2>4. a \in Apps
    BY <2>3 DEF Messages
  <2> DEFINE x == [num |-> delivered[a][i].num, rank |-> 17, place |-> i]
             y == [num |-> delivered[a][j].num, rank |-> 17, place |-> j]
  <2>5. x \in Spots(a) /\ y \in Spots(a)
    BY AppSpot DEF Spots
  <2>6. /\ x.rank = y.rank /\ x.place < y.place
        /\ x.num = delivered[a][i].num /\ y.num = delivered[a][j].num
    BY <2>1
  <2> HIDE DEF x, y
  <2>7. x.num < y.num
    BY <2>1, <2>4, <2>5, <2>6 DEF StackInv, InLine, Ordered
  <2> QED
    BY <2>6, <2>7
<1> QED
  BY <1>1, StackInvariant, PTL

IsAt(e, a, n) ==
  \/ \E p \in Lines : \E i \in DOMAIN queue[p] :
       e = <<"queue", p, i>> /\ queue[p][i].app = a /\ queue[p][i].num = n
  \/ \E t \in Threads : e = <<"hand", t>> /\ hand[t].app = a /\ hand[t].num = n
  \/ \E i \in DOMAIN delivered[a] :
       /\ e = <<"delivered", i>>
       /\ delivered[a][i].app = a /\ delivered[a][i].num = n
  \/ e = <<"lost">> /\ <<a, n>> \in lost

LEMMA PlacesAre ==
  ASSUME StackInv, NEW a \in Apps, NEW n, NEW e
  PROVE  e \in Places(a, n) <=> IsAt(e, a, n)
<1> DEFINE IsIt(m) == m.app = a /\ m.num = n
           Q(p) == {<<"queue", p, i>> : i \in {i \in DOMAIN queue[p] : IsIt(queue[p][i])}}
           H == {<<"hand", t>> : t \in {t \in Threads : IsIt(hand[t])}}
           D == {<<"delivered", i>> : i \in {i \in DOMAIN delivered[a] : IsIt(delivered[a][i])}}
           L == IF <<a, n>> \in lost THEN {<<"lost">>} ELSE {}
<1>1. Places(a, n) = (UNION {Q(p) : p \in DOMAIN queue}) \cup H \cup D \cup L
  BY Zenon DEF Places
<1>2. \A p : e \in Q(p) <=> \E i \in DOMAIN queue[p] :
        e = <<"queue", p, i>> /\ queue[p][i].app = a /\ queue[p][i].num = n
  BY Zenon
<1>3. e \in H <=> \E t \in Threads : e = <<"hand", t>> /\ hand[t].app = a /\ hand[t].num = n
  BY Zenon
<1>4. e \in D <=> \E i \in DOMAIN delivered[a] :
        e = <<"delivered", i>> /\ delivered[a][i].app = a /\ delivered[a][i].num = n
  BY Zenon
<1>5. e \in L <=> e = <<"lost">> /\ <<a, n>> \in lost
  OBVIOUS
<1> HIDE DEF Q, H, D, L
<1>6. e \in Places(a, n)
        <=> e \in UNION {Q(p) : p \in DOMAIN queue} \/ e \in H \/ e \in D \/ e \in L
  BY <1>1, Zenon
<1>7. e \in UNION {Q(p) : p \in DOMAIN queue} <=> \E p \in DOMAIN queue : e \in Q(p)
  BY Zenon
<1>8. DOMAIN queue = Lines
  BY DEF StackInv, Shape
<1>9. e \in Places(a, n) <=> (\E p \in Lines : e \in Q(p)) \/ e \in H \/ e \in D \/ e \in L
  BY <1>6, <1>7, <1>8, Zenon
<1> QED
  BY <1>2, <1>3, <1>4, <1>5, <1>9, Zenon DEF IsAt

(* Places of a message that is not lost have spots, and the spot tells the *)
(* place.                                                                  *)
InQueue(e, a, x) ==
  \E p \in Lines : \E i \in DOMAIN queue[p] :
    e = <<"queue", p, i>> /\ a \in Users[p] /\ x.rank = 2 * Rank[p] /\ x.place = i

InHand(e, a, x) ==
  \E t \in Threads :
    /\ e = <<"hand", t>> /\ dst[t] \in Lines /\ Writer[dst[t]] = t
    /\ a \in Users[dst[t]] /\ x.rank = 2 * Rank[dst[t]] - 1

AtApp(e, x) == \E i : e = <<"delivered", i>> /\ x.rank = 17 /\ x.place = i

SpotOfPlace(e, a, x) == InQueue(e, a, x) \/ InHand(e, a, x) \/ AtApp(e, x)

LEMMA PlaceHasSpot ==
  ASSUME StackInv, NEW a \in Apps, NEW n, NEW e \in Places(a, n), <<a, n>> \notin lost
  PROVE  \E x \in Spots(a) : x.num = n /\ SpotOfPlace(e, a, x)
<1>1. CASE \E p \in Lines : \E i \in DOMAIN queue[p] :
             e = <<"queue", p, i>> /\ queue[p][i].app = a /\ queue[p][i].num = n
  <2>1. PICK p \in Lines : \E i \in DOMAIN queue[p] :
          e = <<"queue", p, i>> /\ queue[p][i].app = a /\ queue[p][i].num = n
    BY <1>1
  <2>2. PICK i \in DOMAIN queue[p] :
          e = <<"queue", p, i>> /\ queue[p][i].app = a /\ queue[p][i].num = n
    BY <2>1
  <2> DEFINE x == [num |-> queue[p][i].num, rank |-> 2 * Rank[p], place |-> i]
  <2>3. x \in Spots(a)
    BY <2>2, QueueSpot DEF Spots
  <2>4. a \in Users[p]
    BY <2>2 DEF StackInv, Routed, Fits
  <2>5. x.num = n /\ x.rank = 2 * Rank[p] /\ x.place = i
    BY <2>2
  <2> HIDE DEF x
  <2>6. SpotOfPlace(e, a, x)
    BY <2>2, <2>4, <2>5, Zenon DEF SpotOfPlace, InQueue, InHand, AtApp
  <2> QED
    BY <2>3, <2>5, <2>6
<1>2. CASE \E t \in Threads : e = <<"hand", t>> /\ hand[t].app = a /\ hand[t].num = n
  <2>1. PICK t \in Threads : e = <<"hand", t>> /\ hand[t].app = a /\ hand[t].num = n
    BY <1>2
  <2> DEFINE x == [num |-> hand[t].num, rank |-> 2 * Rank[dst[t]] - 1, place |-> 1]
  <2>2. x \in Spots(a)
    BY <2>1, HandSpot DEF Spots
  <2>3. dst[t] \in Lines /\ Writer[dst[t]] = t
    BY <2>1, HandHasDst DEF StackInv
  <2>4. a \in Users[dst[t]]
    BY <2>1, NoMsgHasNoApp DEF StackInv, Routed, Fits
  <2>5. x.num = n /\ x.rank = 2 * Rank[dst[t]] - 1
    BY <2>1
  <2> HIDE DEF x
  <2>6. SpotOfPlace(e, a, x)
    BY <2>1, <2>3, <2>4, <2>5, Zenon DEF SpotOfPlace, InQueue, InHand, AtApp
  <2> QED
    BY <2>2, <2>5, <2>6
<1>3. CASE \E i \in DOMAIN delivered[a] :
             /\ e = <<"delivered", i>>
             /\ delivered[a][i].app = a /\ delivered[a][i].num = n
  <2>1. PICK i \in DOMAIN delivered[a] : e = <<"delivered", i>> /\ delivered[a][i].num = n
    BY <1>3
  <2> DEFINE x == [num |-> delivered[a][i].num, rank |-> 17, place |-> i]
  <2>2. x \in Spots(a)
    BY AppSpot DEF Spots
  <2>3. x.num = n /\ x.rank = 17 /\ x.place = i
    BY <2>1
  <2> HIDE DEF x
  <2>4. SpotOfPlace(e, a, x)
    BY <2>1, <2>3, Zenon DEF SpotOfPlace, InQueue, InHand, AtApp
  <2> QED
    BY <2>2, <2>3, <2>4
<1>4. IsAt(e, a, n)
  BY PlacesAre
<1> QED
  BY <1>1, <1>2, <1>3, <1>4, Zenon DEF IsAt

LEMMA SpotTellsPlace ==
  ASSUME NEW a, NEW x, NEW e, NEW f, SpotOfPlace(e, a, x), SpotOfPlace(f, a, x)
  PROVE  e = f
<1>1. ASSUME NEW g, InQueue(g, a, x)
      PROVE  \E r \in 1 .. 8 : x.rank = 2 * r
  BY <1>1, RankAndUsers DEF InQueue
<1>2. ASSUME NEW g, InHand(g, a, x)
      PROVE  \E r \in 1 .. 8 : x.rank = 2 * r - 1
  BY <1>2, RankAndUsers DEF InHand
<1>3. ASSUME NEW g, AtApp(g, x)
      PROVE  x.rank = 17
  BY <1>3 DEF AtApp
<1>4. \A r, s \in 1 .. 8 : 2 * r # 2 * s - 1 /\ 2 * r # 17 /\ 2 * r - 1 # 17
  OBVIOUS
<1>5. \/ InQueue(e, a, x) /\ InQueue(f, a, x)
      \/ InHand(e, a, x) /\ InHand(f, a, x)
      \/ AtApp(e, x) /\ AtApp(f, x)
  BY <1>1, <1>2, <1>3, <1>4, Zenon DEF SpotOfPlace
<1>6. ASSUME NEW p \in Lines, NEW q \in Lines, Rank[p] = Rank[q], a \in Users[p], a \in Users[q]
      PROVE  p = q
  BY <1>6, OneLine
<1>7. CASE InQueue(e, a, x) /\ InQueue(f, a, x)
  <2>1. PICK p \in Lines : e = <<"queue", p, x.place>> /\ a \in Users[p] /\ x.rank = 2 * Rank[p]
    BY <1>7, Zenon DEF InQueue
  <2>2. PICK q \in Lines : f = <<"queue", q, x.place>> /\ a \in Users[q] /\ x.rank = 2 * Rank[q]
    BY <1>7, Zenon DEF InQueue
  <2>3. Rank[p] \in 1 .. 8 /\ Rank[q] \in 1 .. 8
    BY RankAndUsers
  <2>4. Rank[p] = Rank[q]
    BY <2>1, <2>2, <2>3
  <2>5. p = q
    BY <1>6, <2>1, <2>2, <2>4
  <2> QED
    BY <2>1, <2>2, <2>5
<1>8. CASE InHand(e, a, x) /\ InHand(f, a, x)
  <2>1. PICK t \in Threads :
             /\ e = <<"hand", t>> /\ dst[t] \in Lines /\ Writer[dst[t]] = t
             /\ a \in Users[dst[t]] /\ x.rank = 2 * Rank[dst[t]] - 1
    BY <1>8, Zenon DEF InHand
  <2>2. PICK u \in Threads :
             /\ f = <<"hand", u>> /\ dst[u] \in Lines /\ Writer[dst[u]] = u
             /\ a \in Users[dst[u]] /\ x.rank = 2 * Rank[dst[u]] - 1
    BY <1>8, Zenon DEF InHand
  <2>3. Rank[dst[t]] \in 1 .. 8 /\ Rank[dst[u]] \in 1 .. 8
    BY <2>1, <2>2, RankAndUsers
  <2>4. Rank[dst[t]] = Rank[dst[u]]
    BY <2>1, <2>2, <2>3
  <2>5. dst[t] = dst[u]
    BY <1>6, <2>1, <2>2, <2>4
  <2>6. t = u
    BY <2>1, <2>2, <2>5
  <2> QED
    BY <2>1, <2>2, <2>6
<1>9. CASE AtApp(e, x) /\ AtApp(f, x)
  BY <1>9, Zenon DEF AtApp
<1> QED
  BY <1>5, <1>7, <1>8, <1>9

(* Every message created is in exactly one place, or lost at the socket:   *)
(* none is lost on the way, none is there twice.                           *)
THEOREM NoneLostNoneTwice == Spec => []EachMessageOnce
<1>1. StackInv => EachMessageOnce
  <2>1. SUFFICES ASSUME StackInv, NEW a \in Apps, NEW n \in 1 .. sent[a]
                 PROVE  Cardinality(Places(a, n)) = 1
    BY DEF EachMessageOnce
  <2>2. <<a, n>> \in lost <=> ~Somewhere(a, n)
    BY <2>1 DEF StackInv, Kept
  <2>3. CASE <<a, n>> \in lost
    <3>1. ASSUME NEW e \in Places(a, n), e # <<"lost">>
          PROVE  FALSE
      <4>1. CASE \E p \in Lines : \E i \in DOMAIN queue[p] :
                   e = <<"queue", p, i>> /\ queue[p][i].app = a /\ queue[p][i].num = n
        <5>1. PICK p \in Lines : \E i \in DOMAIN queue[p] :
                queue[p][i].app = a /\ queue[p][i].num = n
          BY <4>1
        <5>2. PICK i \in DOMAIN queue[p] : queue[p][i].app = a /\ queue[p][i].num = n
          BY <5>1
        <5>3. [num |-> n, rank |-> 2 * Rank[p], place |-> i] \in Spots(a)
          BY <5>2, QueueSpot DEF Spots
        <5> QED
          BY <2>2, <2>3, <5>3 DEF Somewhere
      <4>2. CASE \E t \in Threads : e = <<"hand", t>> /\ hand[t].app = a /\ hand[t].num = n
        <5>1. PICK t \in Threads : hand[t].app = a /\ hand[t].num = n
          BY <4>2
        <5>2. [num |-> n, rank |-> 2 * Rank[dst[t]] - 1, place |-> 1] \in Spots(a)
          BY <5>1, HandSpot DEF Spots
        <5> QED
          BY <2>2, <2>3, <5>2 DEF Somewhere
      <4>3. CASE \E i \in DOMAIN delivered[a] :
                   /\ e = <<"delivered", i>>
                   /\ delivered[a][i].app = a /\ delivered[a][i].num = n
        <5>1. PICK i \in DOMAIN delivered[a] : delivered[a][i].num = n
          BY <4>3
        <5>2. [num |-> n, rank |-> 17, place |-> i] \in Spots(a)
          BY <5>1, AppSpot DEF Spots
        <5> QED
          BY <2>2, <2>3, <5>2 DEF Somewhere
      <4>4. IsAt(e, a, n)
        BY <2>1, <3>1, PlacesAre
      <4> QED
        BY <3>1, <4>1, <4>2, <4>3, <4>4, Zenon DEF IsAt
    <3>2. <<"lost">> \in Places(a, n)
      BY <2>3, <2>1, PlacesAre DEF IsAt
    <3>3. Places(a, n) = {<<"lost">>}
      BY <3>1, <3>2
    <3> QED
      BY <3>3, FS_Singleton
  <2>4. CASE <<a, n>> \notin lost
    <3>1. PICK x \in Spots(a) : x.num = n
      BY <2>2, <2>4 DEF Somewhere
    <3>2. Spots(a) \subseteq Spot /\ Ordered(Spots(a))
      BY <2>1, SpotKinds DEF StackInv, Threading
    <3>3. \A e \in Places(a, n) : SpotOfPlace(e, a, x)
      BY <2>1, <2>4, <3>1, <3>2, PlaceHasSpot, OneSpot
    <3>4. \A e, f \in Places(a, n) : e = f
      BY <3>3, SpotTellsPlace
    <3>5. \E e : e \in Places(a, n)
      <4>1. CASE x \in QueueSpots(a, queue)
        <5>1. PICK p \in Lines : \E i \in DOMAIN queue[p] :
                /\ queue[p][i].app = a
                /\ x = [num |-> queue[p][i].num, rank |-> 2 * Rank[p], place |-> i]
          BY <4>1, QueueSpot
        <5>2. PICK i \in DOMAIN queue[p] :
                /\ queue[p][i].app = a
                /\ x = [num |-> queue[p][i].num, rank |-> 2 * Rank[p], place |-> i]
          BY <5>1
        <5>3. queue[p][i].num = n
          BY <3>1, <5>2
        <5> QED
          BY <5>2, <5>3, <2>1, PlacesAre DEF IsAt
      <4>2. CASE x \in HandSpots(a, hand, dst)
        <5>1. PICK t \in Threads :
                /\ hand[t].app = a
                /\ x = [num |-> hand[t].num, rank |-> 2 * Rank[dst[t]] - 1, place |-> 1]
          BY <4>2, HandSpot
        <5>2. hand[t].num = n
          BY <3>1, <5>1
        <5> QED
          BY <5>1, <5>2, <2>1, PlacesAre DEF IsAt
      <4>3. CASE x \in AppSpots(delivered[a])
        <5>1. PICK i \in DOMAIN delivered[a] :
                x = [num |-> delivered[a][i].num, rank |-> 17, place |-> i]
          BY <4>3, AppSpot
        <5>2. delivered[a][i].num = n
          BY <3>1, <5>1
        <5>3. delivered[a][i].app = a
          BY <2>1, <5>1, StackAssumption DEF StackInv, Routed, Fits
        <5> QED
          BY <5>1, <5>2, <5>3, <2>1, PlacesAre DEF IsAt
      <4> QED
        BY <4>1, <4>2, <4>3 DEF Spots
    <3>6. \E e : Places(a, n) = {e}
      BY <3>4, <3>5
    <3> QED
      BY <3>6, FS_Singleton
  <2> QED
    BY <2>3, <2>4
<1> QED
  BY <1>1, StackInvariant, PTL

(* All the messages there are. *)
All == UNION {{a} \X (1 .. TotSend[a]) : a \in Apps}

LEMMA InAll == \A a, n : <<a, n>> \in All <=> a \in Apps /\ n \in 1 .. TotSend[a]
BY DEF All

LEMMA AllIsFinite == IsFiniteSet(All)
<1>1. IsFiniteSet(AllApps)
  <2>1. IsFiniteSet({"FTP"} \cup {"TELNET"}) /\ IsFiniteSet({"RDP"} \cup {"DNS"})
    BY FS_Singleton, FS_Union
  <2>2. IsFiniteSet(({"FTP"} \cup {"TELNET"}) \cup ({"RDP"} \cup {"DNS"}))
    BY <2>1, FS_Union
  <2>3. AllApps = ({"FTP"} \cup {"TELNET"}) \cup ({"RDP"} \cup {"DNS"})
    BY DEF AllApps
  <2> QED
    BY <2>2, <2>3
<1>2. IsFiniteSet(Apps)
  BY <1>1, StackAssumption, FS_Subset
<1> DEFINE f == [a \in Apps |-> {a} \X (1 .. TotSend[a])]
           S == {{a} \X (1 .. TotSend[a]) : a \in Apps}
<1>3. f \in [Apps -> S] /\ \A y \in S : \E a \in Apps : f[a] = y
  OBVIOUS
<1>4. \A y \in S : IsFiniteSet(y)
  <2> SUFFICES ASSUME NEW a \in Apps
               PROVE  IsFiniteSet({a} \X (1 .. TotSend[a]))
    OBVIOUS
  <2>1. IsFiniteSet({a})
    BY FS_Singleton
  <2>2. TotSend[a] \in Nat
    BY StackAssumption
  <2>3. IsFiniteSet(1 .. TotSend[a])
    BY <2>2, FS_Interval
  <2> QED
    BY <2>1, <2>3, FS_Product
<1> HIDE DEF f, S
<1>5. f \in Surjection(Apps, S)
  BY <1>3 DEF Surjection
<1>6. IsFiniteSet(S)
  BY <1>2, <1>5, FS_Surjection
<1>7. IsFiniteSet(UNION S)
  BY <1>4, <1>6, FS_UNION
<1> QED
  BY <1>7 DEF All, S

(* With room in each pipe for all messages there are, no write() waits: a  *)
(* pipe holds each message once, and not the one its writer is to add.     *)
THEOREM RoomForAll ==
  ASSUME Cardinality(All) <= PipeCap
  PROVE  Spec => []NobodyStuck
<1>1. IsFiniteSet(All)
  BY AllIsFinite
<1>2. ASSUME StackInv, NEW t \in Threads, pc[t] = "write"
      PROVE  Len(queue[dst[t]]) < PipeCap
  <2> DEFINE d == dst[t]
             q == queue[d]
             h == <<hand[t].app, hand[t].num>>
             name == [i \in 1 .. Len(q) |-> <<q[i].app, q[i].num>>]
  <2>1. hand[t] \in Messages /\ d \in Lines /\ q \in Seq(Messages)
    BY <1>2 DEF StackInv, Shape, Loops, Holds
  <2>2. DOMAIN q = 1 .. Len(q) /\ Len(q) \in Nat
    BY <2>1
  <2>3. h \in All
    <3>1. hand[t].app \in Apps /\ hand[t].num \in 1 .. sent[hand[t].app]
      BY <1>2, <2>1, NoMsgHasNoApp DEF StackInv, Routed, Fits, Messages
    <3>2. sent[hand[t].app] \in Nat /\ sent[hand[t].app] <= TotSend[hand[t].app]
      BY <1>2, <3>1 DEF StackInv, Shape
    <3>3. TotSend[hand[t].app] \in Nat
      BY <3>1, StackAssumption
    <3>4. hand[t].num \in 1 .. TotSend[hand[t].app]
      BY <3>1, <3>2, <3>3
    <3> QED
      BY <3>1, <3>4, InAll
  <2>4. ASSUME NEW i \in 1 .. Len(q)
        PROVE  /\ q[i].app \in Apps
               /\ q[i].num \in 1 .. TotSend[q[i].app]
               /\ [num |-> q[i].num, rank |-> 2 * Rank[d], place |-> i] \in Spots(q[i].app)
    <3>1. q[i] \in Messages
      BY <2>1
    <3>2. q[i].app \in Apps /\ q[i].num \in 1 .. sent[q[i].app]
      BY <1>2, <2>1, <2>2, <3>1 DEF StackInv, Routed, Fits, Messages
    <3>3. q[i].num \in 1 .. TotSend[q[i].app]
      <4>1. sent[q[i].app] \in Nat /\ sent[q[i].app] <= TotSend[q[i].app]
        BY <1>2, <3>2 DEF StackInv, Shape
      <4>2. TotSend[q[i].app] \in Nat
        BY <3>2, StackAssumption
      <4> QED
        BY <3>2, <4>1, <4>2
    <3>4. [num |-> q[i].num, rank |-> 2 * Rank[d], place |-> i] \in QueueSpots(q[i].app, queue)
      BY <2>1, <2>2, QueueSpot
    <3> QED
      BY <3>2, <3>3, <3>4 DEF Spots
  <2>5. [num |-> hand[t].num, rank |-> 2 * Rank[d] - 1, place |-> 1] \in Spots(hand[t].app)
    BY HandSpot DEF Spots
  <2>6. \A a \in Apps : Spots(a) \subseteq Spot /\ Ordered(Spots(a))
    BY <1>2, SpotRanks DEF StackInv, InLine
  <2>7. Rank[d] \in Nat
    BY <2>1, RankAndUsers
  <2>8. ASSUME NEW i \in 1 .. Len(q), NEW j \in 1 .. Len(q), name[i] = name[j]
        PROVE  i = j
    <3> DEFINE x == [num |-> q[i].num, rank |-> 2 * Rank[d], place |-> i]
               y == [num |-> q[j].num, rank |-> 2 * Rank[d], place |-> j]
    <3>1. q[i].app = q[j].app /\ x.num = y.num
      BY <2>8
    <3>2. x \in Spots(q[i].app) /\ y \in Spots(q[i].app) /\ q[i].app \in Apps
      BY <2>4, <3>1
    <3>3. x.place = i /\ y.place = j
      OBVIOUS
    <3> HIDE DEF x, y
    <3>4. x = y
      BY <2>6, <3>1, <3>2, OneSpot
    <3> QED
      BY <3>3, <3>4
  <2>9. ASSUME NEW i \in 1 .. Len(q)
        PROVE  name[i] \in All \ {h}
    <3>1. name[i] \in All
      BY <2>4, InAll
    <3>2. ASSUME name[i] = h
          PROVE  FALSE
      <4> DEFINE x == [num |-> q[i].num, rank |-> 2 * Rank[d], place |-> i]
                 y == [num |-> hand[t].num, rank |-> 2 * Rank[d] - 1, place |-> 1]
      <4>1. q[i].app = hand[t].app /\ x.num = y.num
        BY <3>2
      <4>2. x \in Spots(q[i].app) /\ y \in Spots(q[i].app) /\ q[i].app \in Apps
        BY <2>4, <2>5, <4>1
      <4>3. x.rank = 2 * Rank[d] /\ y.rank = 2 * Rank[d] - 1
        OBVIOUS
      <4> HIDE DEF x, y
      <4>4. x = y
        BY <2>6, <4>1, <4>2, OneSpot
      <4> QED
        BY <2>7, <4>3, <4>4
    <3> QED
      BY <3>1, <3>2
  <2>10. name \in Injection(1 .. Len(q), All \ {h})
    <3>1. name \in [1 .. Len(q) -> All \ {h}]
      BY <2>9
    <3> HIDE DEF name
    <3> QED
      BY <2>8, <3>1 DEF Injection, IsInjective
  <2>11. /\ IsFiniteSet(All \ {h})
         /\ Cardinality(All \ {h}) = Cardinality(All) - 1
    BY <1>1, <2>3, FS_RemoveElement
  <2>12. Cardinality(1 .. Len(q)) <= Cardinality(All \ {h})
    BY <2>10, <2>11, FS_Injection
  <2>13. Cardinality(1 .. Len(q)) = Len(q)
    BY <2>2, FS_Interval
  <2>14. Cardinality(All) \in Nat
    BY <1>1, FS_CardinalityType
  <2> QED
    BY <1>1, <2>2, <2>11, <2>12, <2>13, <2>14, StackAssumption
<1>3. StackInv => NobodyStuck
  <2>1. SUFFICES ASSUME StackInv, NEW t \in Threads, pc[t] = "write"
                 PROVE  ~(Len(queue[dst[t]]) >= PipeCap)
    BY DEF NobodyStuck, Stuck
  <2>2. queue[dst[t]] \in Seq(Messages)
    BY <2>1 DEF StackInv, Shape, Loops, Holds
  <2>3. Len(queue[dst[t]]) \in Nat
    BY <2>2
  <2> QED
    BY <1>2, <2>1, <2>3, StackAssumption
<1> QED
  BY <1>3, StackInvariant, PTL
=============================================================================
