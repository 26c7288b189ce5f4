------------------------ MODULE MCProcessPerProtocol ------------------------
(* DNS sends one message, every other application two. *)
EXTENDS ProcessPerProtocol

MCTotSend == [a \in Apps |-> IF a = "DNS" THEN 1 ELSE 2]
=============================================================================
