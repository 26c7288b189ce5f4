--------------------------- MODULE ProtocolGraph ----------------------------
(***************************************************************************)
(* The protocol graph of the stack: four applications over two transports  *)
(* over IP over Ethernet, the headers each protocol adds on the way down   *)
(* and the bytes each strips on the way up.                                *)
(***************************************************************************)
EXTENDS Naturals, Sequences, SequencesExt

AllApps == {"FTP", "TELNET", "RDP", "DNS"}

Protocols == AllApps \cup {"TCP", "UDP", "IP", "ETH"}

(* Length of the header a protocol's send adds. *)
AddedLen ==
  [FTP |-> 16, TELNET |-> 16, RDP |-> 20, DNS |-> 16,
   TCP |-> 12, UDP |-> 12, IP |-> 20, ETH |-> 16]

(* Mutants of StrippedLen: the length of another protocol's header, at IP  *)
(* and at DNS.                                                             *)
StrippedLenIP ==
  [FTP |-> 16, TELNET |-> 16, RDP |-> 20, DNS |-> 16,
   TCP |-> 12, UDP |-> 12, IP |-> 12, ETH |-> 16]

StrippedLenDNS ==
  [FTP |-> 16, TELNET |-> 16, RDP |-> 20, DNS |-> 12,
   TCP |-> 12, UDP |-> 12, IP |-> 20, ETH |-> 16]

(* Number of bytes a protocol's deliver strips. *)
StrippedLen ==
  [FTP |-> 16, TELNET |-> 16, RDP |-> 20, DNS |-> 16,
   TCP |-> 12, UDP |-> 12, IP |-> 20, ETH |-> 16]

(* A message: whose it is, which one, the headers in front of the payload, *)
(* and what its payload pointer showed when the message was flattened.     *)
Fresh(a, n) == [app |-> a, num |-> n, hdrs |-> <<>>, seen |-> 0]

(* A header of protocol p; hlp names the protocol above it. *)
AddHdr(m, p, hlp) == [m EXCEPT !.hdrs = <<[of |-> p, hlp |-> hlp]>> \o @]

Transport == [FTP |-> "TCP", TELNET |-> "TCP", RDP |-> "UDP", DNS |-> "UDP"]

(* What reaches the wire: the headers that ftp_send and its like, tcp_send *)
(* or udp_send, ip_send and eth_send have put in front of the payload.     *)
Datagram(a, n) ==
  LET app == AddHdr(Fresh(a, n), a, a)
      tra == AddHdr(app, Transport[a], a)
      net == AddHdr(tra, "IP", Transport[a])
  IN  AddHdr(net, "ETH", "IP")

(* Cast to a protocol's header, bytes that are not one show no known hlp.  *)
Garbage == [of |-> "ETH", hlp |-> "garbage"]

FirstHdr(m) == IF m.hdrs = <<>> THEN Garbage ELSE Head(m.hdrs)

(* n bytes are stripped from the front.  Unless they are the first header, *)
(* what the next protocol finds in front is not a header of its peer.      *)
StripHdr(m, n) ==
  [m EXCEPT !.hdrs = IF @ # <<>> /\ AddedLen[Head(@).of] = n
                     THEN Tail(@) ELSE <<Garbage>> \o @]
=============================================================================
