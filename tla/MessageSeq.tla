----------------------------- MODULE MessageSeq -----------------------------
(***************************************************************************)
(* What a Message promises: a sequence of bytes with its length.  Headers  *)
(* go on and come off at the front, split cuts a message in two, join puts *)
(* the bytes of one message after those of another and leaves it empty.    *)
(* A byte is whatever it is to the users.                                  *)
(***************************************************************************)
EXTENDS Sequences, Naturals

CONSTANTS
  Msgs,     \* the Message objects
  Chunks    \* the byte sequences the users pass in

VARIABLES
  content,  \* content[m]: the bytes of message m
  answer    \* what the last call returned: [ok, bytes]

vars == <<content, answer>>

Silent == [ok |-> TRUE, bytes |-> <<>>]

Refused == [ok |-> FALSE, bytes |-> <<>>]

Init == content = [m \in Msgs |-> <<>>] /\ answer = Silent

Create(m, c) ==
  /\ content' = [content EXCEPT ![m] = c]
  /\ answer' = Silent

AddHdr(m, c) ==
  /\ content' = [content EXCEPT ![m] = c \o @]
  /\ answer' = Silent

Strip(m, n) ==
  \/ /\ n \in 1 .. Len(content[m])
     /\ answer' = [ok |-> TRUE, bytes |-> SubSeq(content[m], 1, n)]
     /\ content' = [content EXCEPT ![m] = SubSeq(@, n + 1, Len(@))]
  \/ /\ n \notin 1 .. Len(content[m])
     /\ answer' = Refused
     /\ UNCHANGED content

(* The second message must be empty before. *)
Split(m, s, n) ==
  \/ /\ n <= Len(content[m])
     /\ content[s] = <<>>
     /\ answer' = Silent
     /\ content' = [content EXCEPT
          ![m] = SubSeq(@, 1, n), ![s] = SubSeq(content[m], n + 1, Len(content[m]))]
  \/ /\ n > Len(content[m])
     /\ answer' = Refused
     /\ UNCHANGED content

(* The second message is empty afterwards. *)
Join(m, s) ==
  /\ content' = [content EXCEPT ![m] = @ \o content[s], ![s] = <<>>]
  /\ answer' = Silent

Next ==
  \E m \in Msgs :
    \/ \E c \in Chunks : Create(m, c) \/ AddHdr(m, c)
    \/ \E n \in 0 .. Len(content[m]) + 1 :
         Strip(m, n) \/ \E s \in Msgs \ {m} : Split(m, s, n)
    \/ \E s \in Msgs \ {m} : Join(m, s)

Spec == Init /\ [][Next]_vars
=============================================================================
