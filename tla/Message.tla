------------------------------ MODULE Message -------------------------------
(***************************************************************************)
(* The Message class of message.h: a list of pointers into the callers'    *)
(* buffers, a list of sizes that runs beside it, and a length.  Nothing is *)
(* copied except what msgStripHdr returns.                                 *)
(*                                                                         *)
(* A pointer with its size is one record here; a byte is its address.      *)
(* Calls on one message object are sequential, as in the programs.         *)
(***************************************************************************)
EXTENDS Naturals, Sequences, SequencesExt, FiniteSetsExt

CONSTANTS
  Msgs,       \* the Message objects
  Bufs,       \* the callers' buffers
  BufSize,    \* BufSize[b]: bytes in buffer b
  MaxFrags    \* MaxFrags[careful]: bound on the length of a list

ASSUME MessageAssumption ==
  BufSize \in [Bufs -> Nat] /\ MaxFrags \in [BOOLEAN -> Nat]

VARIABLES
  frags,      \* frags[m]: msg_list and size_list of message m
  msglen,     \* msglen[m]
  answer,     \* what the last call returned
  undefined,  \* a call has run off the end of its list
  careful,    \* in this run no caller strips a whole message, splits at 0,
              \* splits into a message that has a length already, or uses a
              \* message that was joined onto another
  spent       \* the messages careful callers have joined onto another

vars == <<frags, msglen, answer, undefined, careful, spent>>

Silent == [ok |-> TRUE, bytes |-> <<>>]

Refused == [ok |-> FALSE, bytes |-> <<>>]

Init ==
  /\ frags = [m \in Msgs |-> <<>>]
  /\ msglen = [m \in Msgs |-> 0]
  /\ answer = Silent
  /\ undefined = FALSE
  /\ careful \in BOOLEAN
  /\ spent = {}

-----------------------------------------------------------------------------
(***************************************************************************)
(* Lists of fragments.                                                     *)
(***************************************************************************)

Size(fs) == FoldLeft(LAMBDA n, f : n + f.len, 0, fs)

(* The bytes of a list, in order. *)
Flat(fs) ==
  FlattenSeq([i \in DOMAIN fs |-> [j \in 1 .. fs[i].len |-> <<fs[i].buf, fs[i].off + j>>]])

(* Mutant of WholeInFront: takes a fragment that is one byte too long. *)
WholeInFrontLoose(fs, n) ==
  Max({k \in 0 .. Len(fs) : Size(SubSeq(fs, 1, k)) <= n + 1})

(* How many whole fragments the loop of msgStripHdr takes off the front to *)
(* make n bytes, and that of msgSplit off the back.                        *)
WholeInFront(fs, n) ==
  Max({k \in 0 .. Len(fs) : Size(SubSeq(fs, 1, k)) <= n})

WholeAtBack(fs, n) ==
  Max({k \in 0 .. Len(fs) : Size(SubSeq(fs, Len(fs) - k + 1, Len(fs))) <= n})

(* Both loops look at the next fragment before they look whether they need *)
(* it, so they must not take all there are.                                *)
FrontRunsOff(fs, n) == WholeInFront(fs, n) = Len(fs)

BackRunsOff(fs, n) == WholeAtBack(fs, n) = Len(fs)

Keep(f, n) == [f EXCEPT !.len = n]

(* Mutant of Drop: the size is not reduced. *)
DropPointerOnly(f, n) == [f EXCEPT !.off = @ + n]

Drop(f, n) == [f EXCEPT !.off = @ + n, !.len = @ - n]

(* What remains of fs after its first n bytes were stripped. *)
AfterFront(fs, n) ==
  LET k == WholeInFront(fs, n)
  IN  <<Drop(fs[k + 1], n - Size(SubSeq(fs, 1, k)))>> \o SubSeq(fs, k + 2, Len(fs))

(* Mutant of Back: push_back for push_front. *)
BackReversed(fs, n) ==
  LET k == Len(fs) - WholeAtBack(fs, n)
      r == n - Size(SubSeq(fs, k + 1, Len(fs)))
  IN  Reverse((IF r > 0 THEN <<Drop(fs[k], fs[k].len - r)>> ELSE <<>>)
                \o SubSeq(fs, k + 1, Len(fs)))

(* The last n bytes of fs, and what remains before them.  The cut fragment *)
(* is in both lists, unless the cut falls between two fragments.           *)
Back(fs, n) ==
  LET k == Len(fs) - WholeAtBack(fs, n)
      r == n - Size(SubSeq(fs, k + 1, Len(fs)))
  IN  (IF r > 0 THEN <<Drop(fs[k], fs[k].len - r)>> ELSE <<>>) \o SubSeq(fs, k + 1, Len(fs))

BeforeBack(fs, n) ==
  LET k == Len(fs) - WholeAtBack(fs, n)
      r == n - Size(SubSeq(fs, k + 1, Len(fs)))
  IN  SubSeq(fs, 1, k - 1) \o <<Keep(fs[k], fs[k].len - r)>>

-----------------------------------------------------------------------------
(***************************************************************************)
(* The operations.                                                         *)
(***************************************************************************)

Chunk(b, n) == [buf |-> b, off |-> 0, len |-> n]

(* Message(msg, len), in place of an earlier object. *)
Create(m, b, n) ==
  /\ frags' = [frags EXCEPT ![m] = <<Chunk(b, n)>>]
  /\ msglen' = [msglen EXCEPT ![m] = n]
  /\ answer' = Silent
  /\ UNCHANGED undefined

msgAddHdr(m, b, n) ==
  /\ Len(frags[m]) < MaxFrags[careful]
  /\ frags' = [frags EXCEPT ![m] = <<Chunk(b, n)>> \o @]
  /\ msglen' = [msglen EXCEPT ![m] = @ + n]
  /\ answer' = Silent
  /\ UNCHANGED undefined

(* What running off a list does to the lists is not defined. *)
RunsOff == undefined' = TRUE /\ UNCHANGED <<frags, msglen, answer>>

Refuse == answer' = Refused /\ UNCHANGED <<frags, msglen, undefined>>

(* Mutant of msgStripHdr: the length is not updated. *)
msgStripHdrOnly(m, n) ==
  /\ n \in 1 .. msglen[m]
  /\ ~FrontRunsOff(frags[m], n)
  /\ answer' = [ok |-> TRUE, bytes |-> SubSeq(Flat(frags[m]), 1, n)]
  /\ frags' = [frags EXCEPT ![m] = AfterFront(@, n)]
  /\ UNCHANGED <<msglen, undefined>>

(* NULL for no byte and for more bytes than there are.  A negative len is  *)
(* converted to more than any msglen.                                      *)
msgStripHdr(m, n) ==
  \/ (n = 0 \/ n > msglen[m]) /\ Refuse
  \/ /\ n \in 1 .. msglen[m]
     /\ careful => n < msglen[m]
     /\ \/ FrontRunsOff(frags[m], n) /\ RunsOff
        \/ /\ ~FrontRunsOff(frags[m], n)
           /\ answer' = [ok |-> TRUE, bytes |-> SubSeq(Flat(frags[m]), 1, n)]
           /\ frags' = [frags EXCEPT ![m] = AfterFront(@, n)]
           /\ msglen' = [msglen EXCEPT ![m] = @ - n]
           /\ UNCHANGED undefined

(* The message keeps n bytes, the rest goes in front of what s holds; the  *)
(* length of s is set to that of the rest alone.                           *)
msgSplit(m, s, n) ==
  LET rem == msglen[m] - n IN
  \/ n > msglen[m] /\ Refuse
  \/ /\ n <= msglen[m]
     /\ careful => n > 0 /\ msglen[s] = 0
     /\ \/ BackRunsOff(frags[m], rem) /\ RunsOff
        \/ /\ ~BackRunsOff(frags[m], rem)
           /\ Len(frags[s]) + WholeAtBack(frags[m], rem) < MaxFrags[careful]
           /\ frags' = [frags EXCEPT ![m] = BeforeBack(@, rem),
                                     ![s] = Back(frags[m], rem) \o @]
           /\ msglen' = [msglen EXCEPT ![m] = n, ![s] = rem]
           /\ answer' = Silent
           /\ UNCHANGED undefined

(* The second message is left as it is: see JoinEmptiesSecond. *)
msgJoin(m, s) ==
  /\ Len(frags[m]) + Len(frags[s]) <= MaxFrags[careful]
  /\ frags' = [frags EXCEPT ![m] = @ \o frags[s]]
  /\ msglen' = [msglen EXCEPT ![m] = @ + msglen[s]]
  /\ answer' = Silent
  /\ UNCHANGED undefined

(* Programs pass two different objects to split and join.  A message that  *)
(* careful callers have joined onto another serves again when it is made   *)
(* anew; driver3.cc lets go of it.                                         *)
Next ==
  /\ ~undefined
  /\ UNCHANGED careful
  /\ \/ \E m \in Msgs, b \in Bufs : \E n \in 0 .. BufSize[b] :
          Create(m, b, n) /\ spent' = spent \ {m}
     \/ \E m \in Msgs \ spent :
          \/ \E b \in Bufs : \E n \in 0 .. BufSize[b] :
               msgAddHdr(m, b, n) /\ UNCHANGED spent
          \/ \E n \in 0 .. msglen[m] + 1 :
               /\ msgStripHdr(m, n) \/ \E s \in Msgs \ (spent \cup {m}) : msgSplit(m, s, n)
               /\ UNCHANGED spent
          \/ \E s \in Msgs \ (spent \cup {m}) :
               msgJoin(m, s) /\ spent' = IF careful THEN spent \cup {s} ELSE spent

Spec == Init /\ [][Next]_vars

-----------------------------------------------------------------------------
(***************************************************************************)
(* Properties.                                                             *)
(***************************************************************************)

(* Every pointer stays inside the buffer it came from, with its size: no   *)
(* sequence of calls makes a fragment that reaches past its buffer.        *)
FragmentsInBounds ==
  \A m \in Msgs : \A i \in DOMAIN frags[m] :
    LET f == frags[m][i]
    IN  f.buf \in Bufs /\ f.off >= 0 /\ f.len >= 0 /\ f.off + f.len <= BufSize[f.buf]

(* Whoever calls, the lists hold the bytes the length speaks of.  To       *)
(* careful callers msgLen is the number of bytes msgFlat writes, so that a *)
(* buffer of msgLen bytes is enough for it.                                *)
LenIsContent ==
  \A m \in Msgs : msglen[m] <= Size(frags[m]) /\ (careful => msglen[m] = Size(frags[m]))

(* A call that passes the length checks runs off a list only if it asks    *)
(* for every byte there is: a strip or a split that would leave nothing in *)
(* the list.  Careful callers never make a loop run off.                   *)
UndefinedOnlyIfEmptied ==
  [][undefined' => ~careful /\ \E m \in Msgs :
       \/ Size(frags[m]) \in 1 .. msglen[m] /\ msgStripHdr(m, Size(frags[m]))
       \/ \E s \in Msgs \ {m} :
            Size(frags[m]) = msglen[m] /\ msgSplit(m, s, 0)]_vars

(* msgStripHdr strips any number of bytes the message has.                 *)
StripIsDefined ==
  [][\A m \in Msgs : \A n \in 1 .. msglen[m] : msgStripHdr(m, n) => ~undefined']_vars

(* A message that was joined onto another is empty, as pa3.pdf has it.     *)
JoinEmptiesSecond == \A s \in spent : msglen[s] = 0

(* A message is a sequence of bytes to careful callers: see MessageSeq.    *)
(* What a message holds that was joined onto another they do not look at.  *)
(* The others have no such promise, and their runs show it nothing.        *)
Promise ==
  INSTANCE MessageSeq WITH
    content <- [m \in Msgs |-> IF careful /\ m \notin spent THEN Flat(frags[m]) ELSE <<>>],
    answer  <- IF careful THEN answer ELSE Silent,
    Chunks  <- UNION {{Flat(<<Chunk(b, n)>>) : n \in 0 .. BufSize[b]} : b \in Bufs}

ImplementsMessageSeq == Promise!Spec
=============================================================================
