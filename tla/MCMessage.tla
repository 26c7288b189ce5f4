----------------------------- MODULE MCMessage ------------------------------
(* Buffers of a header of one byte and a body of two, or of a body alone;  *)
(* a list is longer where callers are careful.                             *)
EXTENDS Message

MCBufSize == [hdr |-> 1, body |-> 2]

MCBodySize == [body |-> 2]

MCMaxFrags == [c \in BOOLEAN |-> IF c THEN 3 ELSE 2]
=============================================================================
