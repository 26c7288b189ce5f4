---------------------------- MODULE MCCompletion ----------------------------
(* FTP's messages have a thread each, as in ppm.h; DNS's share one, as in  *)
(* ppp.h.  A second has three microseconds, and the host starts in the     *)
(* second of them.                                                         *)
EXTENDS Completion

MCMessages == {"f1", "f2", "f3", "d1", "d2", "d3"}

MCApp == [m \in MCMessages |-> IF m \in {"f1", "f2", "f3"} THEN "FTP" ELSE "DNS"]

MCBy == [m \in MCMessages |-> IF m \in {"f1", "f2", "f3"} THEN m ELSE "dns"]
=============================================================================
