--------------------------- MODULE Message_proofs ---------------------------
(***************************************************************************)
(* Proofs about Message, for every set of messages, all buffers of any     *)
(* size and lists of any length: no fragment ever leaves its buffer, the   *)
(* length is right, a loop runs off its list only if it is to empty it,    *)
(* and to careful callers a message is the sequence of bytes of            *)
(* MessageSeq.                                                             *)
(***************************************************************************)
EXTENDS Message, SequenceTheorems, WellFoundedInduction, TLAPS

Frag == [buf : Bufs, off : Nat, len : Nat]

Byte == Bufs \X Nat

(* The bytes of one fragment. *)
Bytes(f) == [j \in 1 .. f.len |-> <<f.buf, f.off + j>>]

-----------------------------------------------------------------------------
(***************************************************************************)
(* Induction, and maxima.                                                  *)
(***************************************************************************)

LEMMA SetInduction ==
  ASSUME NEW T, 0 \in T, \A n \in Nat : n \in T => n + 1 \in T
  PROVE  Nat \subseteq T
<1> DEFINE Out == Nat \ T
<1>1. ASSUME Out # {}
      PROVE  FALSE
  <2>1. \E x \in Out : \A y \in Out : ~(<<y, x>> \in OpToRel(<, Nat))
    BY <1>1, WFMin, NatLessThanWellFounded
  <2>2. PICK x \in Out : \A y \in Out : ~(<<y, x>> \in OpToRel(<, Nat))
    BY <2>1
  <2>3. \A y \in Out : ~(y < x)
    BY <2>2 DEF OpToRel
  <2>4. x # 0 /\ x - 1 \in Nat /\ x - 1 \in T
    BY <2>3
  <2> QED
    BY <2>4
<1> QED
  BY <1>1

LEMMA MaxOf ==
  ASSUME NEW S, S # {}, NEW m \in Nat, S \subseteq 0 .. m
  PROVE  Max(S) \in S /\ \A y \in S : y <= Max(S)
<1> DEFINE T == {n \in Nat : \A R \in SUBSET (0 .. n) :
                   R # {} => \E x \in R : \A y \in R : x >= y}
<1>1. 0 \in T
  <2>1. ASSUME NEW R \in SUBSET (0 .. 0), R # {}
        PROVE  \E x \in R : \A y \in R : x >= y
    <3>1. PICK x \in R : TRUE
      BY <2>1
    <3>2. \A y \in R : y = 0
      OBVIOUS
    <3> QED
      BY <3>1, <3>2
  <2> QED
    BY <2>1
<1>2. ASSUME NEW n \in Nat, n \in T
      PROVE  n + 1 \in T
  <2>1. ASSUME NEW R \in SUBSET (0 .. n + 1), R # {}
        PROVE  \E x \in R : \A y \in R : x >= y
    <3>1. CASE n + 1 \in R
      BY <3>1
    <3>2. CASE n + 1 \notin R
      <4>1. R \in SUBSET (0 .. n)
        BY <3>2
      <4> QED
        BY <1>2, <2>1, <4>1
    <3> QED
      BY <3>1, <3>2
  <2> QED
    BY <2>1
<1> HIDE DEF T
<1>3. m \in T
  BY <1>1, <1>2, SetInduction
<1>4. \E x \in S : \A y \in S : x >= y
  BY <1>3 DEF T
<1> QED
  BY <1>4 DEF Max

LEMMA MaxOfInterval ==
  ASSUME NEW k \in Nat \ {0}
  PROVE  Max(1 .. k) = k /\ (1 .. k) \ {Max(1 .. k)} = 1 .. k - 1
<1> DEFINE S == 1 .. k
<1>1. S # {} /\ S \subseteq 0 .. k /\ k \in S
  OBVIOUS
<1>2. Max(S) \in S /\ \A y \in S : y <= Max(S)
  <2> HIDE DEF S
  <2> QED
    BY <1>1, MaxOf
<1> QED
  BY <1>1, <1>2

-----------------------------------------------------------------------------
(***************************************************************************)
(* The size of a list.                                                     *)
(***************************************************************************)

(* p[k] is the size of the first k fragments. *)
IsSum(p, fs) ==
  /\ p \in [0 .. Len(fs) -> Nat]
  /\ p[0] = 0
  /\ \A k \in 1 .. Len(fs) : p[k] = p[k - 1] + fs[k].len

LEMMA SumExists ==
  ASSUME NEW fs \in Seq(Frag)
  PROVE  \E p : IsSum(p, fs) /\ Size(fs) = p[Len(fs)]
<1> DEFINE Val(g, s) == IF s = {} THEN 0 ELSE g[s \ {Max(s)}] + fs[Max(s)].len
           Is(g, n) == g = [s \in SUBSET (1 .. n) |-> Val(g, s)]
           T == {n \in Nat : \E g : Is(g, n)}
<1>1. 0 \in T
  <2> DEFINE g == [s \in SUBSET (1 .. 0) |-> 0]
  <2>1. \A s \in SUBSET (1 .. 0) : s = {}
    OBVIOUS
  <2>2. Is(g, 0)
    BY <2>1
  <2> QED
    BY <2>2
<1>2. ASSUME NEW n \in Nat, n \in T
      PROVE  n + 1 \in T
  <2>1. PICK g : Is(g, n)
    BY <1>2
  <2> DEFINE h == [s \in SUBSET (1 .. n + 1) |-> IF n + 1 \in s THEN Val(g, s) ELSE g[s]]
  <2>2. ASSUME NEW s \in SUBSET (1 .. n + 1)
        PROVE  h[s] = Val(h, s)
    <3>1. CASE s = {}
      BY <2>1, <3>1
    <3>2. CASE s # {}
      <4> DEFINE m == Max(s)
                 r == s \ {m}
      <4>1. m \in s /\ \A y \in s : y <= m
        BY <3>2, MaxOf, s \subseteq 0 .. n + 1, n + 1 \in Nat
      <4> HIDE DEF m
      <4>2. r \in SUBSET (1 .. n) /\ n + 1 \notin r
        BY <4>1
      <4>3. h[r] = g[r]
        BY <4>2
      <4>4. CASE n + 1 \in s
        BY <3>2, <4>3, <4>4 DEF m
      <4>5. CASE n + 1 \notin s
        <5>1. s \in SUBSET (1 .. n)
          BY <4>5
        <5>2. g[s] = Val(g, s)
          BY <2>1, <5>1
        <5> QED
          BY <3>2, <4>3, <4>5, <5>2 DEF m
      <4> QED
        BY <4>4, <4>5
    <3> QED
      BY <3>1, <3>2
  <2>3. Is(h, n + 1)
    <3> HIDE DEF Val
    <3> QED
      BY <2>2
  <2> HIDE DEF h, Is
  <2> QED
    BY <2>3
<1>3. Len(fs) \in T
  <2> HIDE DEF T
  <2> QED
    BY <1>1, <1>2, SetInduction
<1> DEFINE G == CHOOSE g : Is(g, Len(fs))
           p == [k \in 0 .. Len(fs) |-> G[1 .. k]]
<1>4. Is(G, Len(fs))
  BY <1>3
<1>5. Size(fs) = G[1 .. Len(fs)]
  <2>1. DOMAIN fs = 1 .. Len(fs)
    OBVIOUS
  <2>2. Size(fs) = (CHOOSE g : g = [s \in SUBSET DOMAIN fs |-> Val(g, s)])[DOMAIN fs]
    BY DEF Size, FoldLeft, MapThenFoldSet
  <2> HIDE DEF Val
  <2> QED
    BY <2>1, <2>2
<1> HIDE DEF G
<1>6. p[0] = 0
  BY <1>4
<1>7. ASSUME NEW k \in 1 .. Len(fs)
      PROVE  p[k] = p[k - 1] + fs[k].len
  <2>1. Max(1 .. k) = k /\ (1 .. k) \ {Max(1 .. k)} = 1 .. k - 1
    BY MaxOfInterval
  <2>2. G[1 .. k] = Val(G, 1 .. k)
    <3>1. 1 .. k \in SUBSET (1 .. Len(fs))
      OBVIOUS
    <3> HIDE DEF Val
    <3> QED
      BY <1>4, <3>1
  <2>3. 1 .. k # {} /\ k \in 0 .. Len(fs) /\ k - 1 \in 0 .. Len(fs)
    OBVIOUS
  <2>4. G[1 .. k] = G[1 .. k - 1] + fs[k].len
    BY <2>1, <2>2, <2>3
  <2> QED
    BY <2>3, <2>4
<1> HIDE DEF p
<1> DEFINE U == {k \in Nat : k <= Len(fs) => p[k] \in Nat}
<1>8. 0 \in U
  BY <1>6
<1>9. ASSUME NEW k \in Nat, k \in U
      PROVE  k + 1 \in U
  <2>1. CASE k + 1 <= Len(fs)
    <3>1. p[k + 1] = p[k] + fs[k + 1].len
      BY <1>7, <2>1
    <3>2. fs[k + 1].len \in Nat
      <4>1. fs[k + 1] \in Frag
        BY <2>1
      <4> QED
        BY <4>1 DEF Frag
    <3> QED
      BY <1>9, <2>1, <3>1, <3>2
  <2> QED
    BY <2>1
<1>10. Nat \subseteq U
  <2> HIDE DEF U
  <2> QED
    BY <1>8, <1>9, SetInduction
<1>11. p \in [0 .. Len(fs) -> Nat]
  <2>1. \A k \in 0 .. Len(fs) : p[k] \in Nat
    BY <1>10
  <2>2. DOMAIN p = 0 .. Len(fs) /\ p = [k \in 0 .. Len(fs) |-> p[k]]
    BY DEF p
  <2> QED
    BY <2>1, <2>2
<1>12. p[Len(fs)] = G[1 .. Len(fs)]
  BY DEF p
<1>13. IsSum(p, fs)
  BY <1>6, <1>7, <1>11 DEF IsSum
<1> QED
  BY <1>5, <1>12, <1>13

LEMMA SumUnique ==
  ASSUME NEW fs \in Seq(Frag), NEW p, NEW q, IsSum(p, fs), IsSum(q, fs)
  PROVE  \A k \in 0 .. Len(fs) : p[k] = q[k]
<1> DEFINE T == {k \in Nat : k <= Len(fs) => p[k] = q[k]}
<1>1. 0 \in T
  BY DEF IsSum
<1>2. ASSUME NEW k \in Nat, k \in T
      PROVE  k + 1 \in T
  BY <1>2 DEF IsSum
<1>3. Nat \subseteq T
  <2> HIDE DEF T
  <2> QED
    BY <1>1, <1>2, SetInduction
<1> QED
  BY <1>3

LEMMA SizeIs ==
  ASSUME NEW fs \in Seq(Frag), NEW p, IsSum(p, fs)
  PROVE  Size(fs) = p[Len(fs)]
<1>1. PICK q : IsSum(q, fs) /\ Size(fs) = q[Len(fs)]
  BY SumExists
<1>2. Len(fs) \in 0 .. Len(fs)
  OBVIOUS
<1> QED
  BY <1>1, <1>2, SumUnique

LEMMA SizeType ==
  ASSUME NEW fs \in Seq(Frag)
  PROVE  Size(fs) \in Nat
<1>1. Len(fs) \in 0 .. Len(fs)
  OBVIOUS
<1> QED
  BY <1>1, SumExists DEF IsSum

(* The size of two lists one after the other is the sum of their sizes. *)
LEMMA SizeConcat ==
  ASSUME NEW a \in Seq(Frag), NEW b \in Seq(Frag)
  PROVE  Size(a \o b) = Size(a) + Size(b)
<1>1. PICK p : IsSum(p, a) /\ Size(a) = p[Len(a)]
  BY SumExists
<1>2. PICK q : IsSum(q, b) /\ Size(b) = q[Len(b)]
  BY SumExists
<1> DEFINE c == a \o b
           r == [k \in 0 .. Len(c) |-> IF k <= Len(a) THEN p[k] ELSE Size(a) + q[k - Len(a)]]
<1>3. /\ c \in Seq(Frag) /\ Len(c) = Len(a) + Len(b)
      /\ \A k \in 1 .. Len(a) : c[k] = a[k]
      /\ \A k \in 1 .. Len(b) : c[Len(a) + k] = b[k]
  OBVIOUS
<1>4. Len(a) \in Nat /\ Len(b) \in Nat /\ Size(a) \in Nat
  BY SizeType
<1> HIDE DEF c
<1>5. ASSUME NEW k \in 0 .. Len(c)
      PROVE  r[k] \in Nat
  <2>1. CASE k <= Len(a)
    BY <1>1, <1>4, <2>1 DEF IsSum
  <2>2. CASE ~(k <= Len(a))
    <3>1. k - Len(a) \in 0 .. Len(b)
      BY <1>3, <1>4, <2>2
    <3> QED
      <4>1. q[k - Len(a)] \in Nat /\ r[k] = Size(a) + q[k - Len(a)]
        BY <1>2, <2>2, <3>1 DEF IsSum
      <4> QED
        BY <1>4, <4>1
  <2> QED
    BY <2>1, <2>2
<1>6. r[0] = 0
  BY <1>1, <1>3, <1>4 DEF IsSum
<1>7. ASSUME NEW k \in 1 .. Len(c)
      PROVE  r[k] = r[k - 1] + c[k].len
  <2>1. CASE k <= Len(a)
    <3>1. k \in 1 .. Len(a) /\ k - 1 \in 0 .. Len(c) /\ k - 1 <= Len(a)
      BY <1>4, <2>1
    <3>2. r[k] = p[k] /\ r[k - 1] = p[k - 1] /\ c[k] = a[k]
      BY <1>3, <2>1, <3>1
    <3> QED
      BY <1>1, <3>1, <3>2 DEF IsSum
  <2>2. CASE ~(k <= Len(a))
    <3>1. k - Len(a) \in 1 .. Len(b) /\ c[k] = b[k - Len(a)]
      <4>1. k - Len(a) \in 1 .. Len(b) /\ k = Len(a) + (k - Len(a))
        BY <1>3, <1>4, <2>2
      <4> QED
        BY <1>3, <4>1
    <3>2. q[k - Len(a)] = q[k - Len(a) - 1] + c[k].len
      BY <1>2, <3>1 DEF IsSum
    <3>3. r[k] = Size(a) + q[k - Len(a)]
      BY <2>2
    <3>4. r[k - 1] = Size(a) + q[k - Len(a) - 1]
      <4>1. CASE k - 1 <= Len(a)
        <5>1. k - 1 = Len(a)
          BY <1>4, <2>2, <4>1
        <5>2. k - Len(a) - 1 = 0
          BY <1>4, <5>1
        <5> QED
          BY <1>1, <1>2, <1>4, <5>1, <5>2 DEF IsSum
      <4>2. CASE ~(k - 1 <= Len(a))
        <5>1. (k - 1) - Len(a) = k - Len(a) - 1
          BY <1>4
        <5> QED
          BY <4>2, <5>1
      <4> QED
        BY <4>1, <4>2
    <3>5. q[k - Len(a) - 1] \in Nat /\ c[k].len \in Nat
      <4>1. c[k] \in Frag /\ k - Len(a) - 1 \in 0 .. Len(b)
        BY <1>3, <1>4, <3>1
      <4> QED
        BY <1>2, <4>1 DEF IsSum, Frag
    <3>6. Size(a) \in Nat
      BY SizeType
    <3> HIDE DEF r
    <3> QED
      BY <3>2, <3>3, <3>4, <3>5, <3>6
  <2> QED
    BY <2>1, <2>2
<1>8. IsSum(r, c)
  BY <1>5, <1>6, <1>7 DEF IsSum
<1>9. Size(c) = r[Len(c)]
  <2> HIDE DEF r
  <2> QED
    BY <1>3, <1>8, SizeIs
<1>10. r[Len(c)] = Size(a) + Size(b)
  <2>1. CASE Len(b) = 0
    BY <1>1, <1>2, <1>3, <1>4, <2>1 DEF IsSum
  <2>2. CASE Len(b) # 0
    <3>1. ~(Len(c) <= Len(a)) /\ Len(c) - Len(a) = Len(b) /\ Len(c) \in 0 .. Len(c)
      BY <1>3, <1>4, <2>2
    <3> QED
      BY <1>2, <3>1
  <2> QED
    BY <2>1, <2>2
<1> QED
  BY <1>9, <1>10 DEF c

LEMMA SizeEmpty == Size(<<>>) = 0
<1> DEFINE p == [k \in 0 .. 0 |-> 0]
<1>1. <<>> \in Seq(Frag) /\ Len(<<>>) = 0
  OBVIOUS
<1>2. IsSum(p, <<>>)
  BY <1>1 DEF IsSum
<1>3. p[0] = 0
  OBVIOUS
<1> HIDE DEF p
<1> QED
  BY <1>1, <1>2, <1>3, SizeIs

LEMMA SizeOfOne ==
  ASSUME NEW f \in Frag
  PROVE  Size(<<f>>) = f.len
<1> DEFINE p == [k \in 0 .. 1 |-> IF k = 0 THEN 0 ELSE f.len]
<1>1. <<f>> \in Seq(Frag) /\ Len(<<f>>) = 1 /\ <<f>>[1] = f
  OBVIOUS
<1>2. f.len \in Nat
  BY DEF Frag
<1>3. IsSum(p, <<f>>)
  BY <1>1, <1>2 DEF IsSum
<1>4. p[1] = f.len
  OBVIOUS
<1> HIDE DEF p
<1> QED
  BY <1>1, <1>3, <1>4, SizeIs

-----------------------------------------------------------------------------
(***************************************************************************)
(* The bytes of a list.                                                    *)
(***************************************************************************)

LEMMA BytesType ==
  ASSUME NEW f \in Frag
  PROVE  Bytes(f) \in Seq(Byte) /\ Len(Bytes(f)) = f.len
<1>1. f.buf \in Bufs /\ f.off \in Nat /\ f.len \in Nat
  BY DEF Frag
<1>2. Bytes(f) \in [1 .. f.len -> Byte]
  BY <1>1 DEF Bytes, Byte
<1> QED
  BY <1>1, <1>2

(* q[k] is the bytes of the first k fragments. *)
IsRun(q, fs) ==
  /\ q \in [0 .. Len(fs) -> Seq(Byte)]
  /\ q[0] = <<>>
  /\ \A k \in 1 .. Len(fs) : q[k] = q[k - 1] \o Bytes(fs[k])

LEMMA RunExists ==
  ASSUME NEW fs \in Seq(Frag)
  PROVE  \E q : IsRun(q, fs) /\ Flat(fs) = q[Len(fs)]
<1> DEFINE bs == [i \in DOMAIN fs |-> Bytes(fs[i])]
           Val(g, i) == IF i = 1 THEN bs[i] ELSE g[i - 1] \o bs[i]
           Is(g, n) == g = [i \in 1 .. n |-> Val(g, i)]
           T == {n \in Nat : \E g : Is(g, n)}
<1>1. 0 \in T
  <2> DEFINE g == [i \in 1 .. 0 |-> 0]
  <2>1. Is(g, 0)
    <3>1. \A i \in 1 .. 0 : FALSE
      OBVIOUS
    <3> HIDE DEF Val
    <3> QED
      BY <3>1
  <2> HIDE DEF g, Is
  <2> QED
    BY <2>1
<1>2. ASSUME NEW n \in Nat, n \in T
      PROVE  n + 1 \in T
  <2>1. PICK g : Is(g, n)
    BY <1>2
  <2> DEFINE h == [i \in 1 .. n + 1 |-> IF i = n + 1 THEN Val(g, i) ELSE g[i]]
  <2> HIDE DEF bs
  <2>2. ASSUME NEW i \in 1 .. n + 1
        PROVE  h[i] = Val(h, i)
    <3>1. CASE i = 1
      BY <2>1, <3>1
    <3>2. CASE i # 1
      <4>1. i - 1 \in 1 .. n + 1 /\ i - 1 # n + 1
        BY <3>2
      <4>2. h[i - 1] = g[i - 1]
        BY <4>1
      <4>3. CASE i = n + 1
        BY <3>2, <4>2, <4>3
      <4>4. CASE i # n + 1
        <5>1. i \in 1 .. n
          BY <4>4
        <5>2. g[i] = Val(g, i)
          BY <2>1, <5>1
        <5> QED
          BY <3>2, <4>2, <4>4, <5>2
      <4> QED
        BY <4>3, <4>4
    <3> QED
      BY <3>1, <3>2
  <2>3. Is(h, n + 1)
    <3> HIDE DEF Val
    <3> QED
      BY <2>2
  <2> HIDE DEF h, Is
  <2> QED
    BY <2>3
<1>3. Len(fs) \in T
  <2> HIDE DEF T
  <2> QED
    BY <1>1, <1>2, SetInduction
<1> DEFINE G == CHOOSE g : Is(g, Len(fs))
           q == [k \in 0 .. Len(fs) |-> IF k = 0 THEN <<>> ELSE G[k]]
<1>4. Is(G, Len(fs))
  BY <1>3
<1>5. DOMAIN fs = 1 .. Len(fs) /\ Len(fs) \in Nat
  OBVIOUS
<1>6. \A i \in 1 .. Len(fs) : bs[i] = Bytes(fs[i]) /\ bs[i] \in Seq(Byte)
  BY <1>5, BytesType
<1>7. bs \in Seq(Seq(Byte)) /\ Len(bs) = Len(fs)
  <2>1. bs \in [1 .. Len(fs) -> Seq(Byte)]
    BY <1>5, <1>6
  <2> HIDE DEF bs
  <2> QED
    BY <1>5, <2>1
<1>8. Flat(fs) = FlattenSeq(bs)
  BY DEF Flat, Bytes
<1>9. Flat(fs) = q[Len(fs)]
  <2>1. CASE Len(fs) = 0
    <3>1. FlattenSeq(bs) = bs
      BY <1>7, <2>1 DEF FlattenSeq
    <3>2. bs = <<>>
      <4> HIDE DEF bs
      <4> QED
        BY <1>7, <2>1
    <3> QED
      BY <1>8, <2>1, <3>1, <3>2
  <2>2. CASE Len(fs) # 0
    <3>1. FlattenSeq(bs) = (CHOOSE g : g = [i \in 1 .. Len(bs) |-> Val(g, i)])[Len(bs)]
      <4> HIDE DEF bs
      <4> QED
        BY <1>7, <2>2 DEF FlattenSeq
    <3>2. FlattenSeq(bs) = G[Len(fs)]
      <4> HIDE DEF bs
      <4> QED
        BY <1>7, <3>1
    <3> HIDE DEF G
    <3> QED
      BY <1>5, <1>8, <2>2, <3>2
  <2> QED
    BY <2>1, <2>2
<1> HIDE DEF G
<1>10. ASSUME NEW k \in 1 .. Len(fs)
       PROVE  q[k] = q[k - 1] \o Bytes(fs[k])
  <2>1. G[k] = Val(G, k)
    <3> HIDE DEF Val
    <3> QED
      BY <1>4
  <2>2. q[k] = G[k]
    OBVIOUS
  <2> HIDE DEF bs
  <2>3. CASE k = 1
    <3>1. q[k - 1] = <<>>
      BY <2>3
    <3>2. q[k] = bs[1] /\ bs[1] = Bytes(fs[k]) /\ bs[1] \in Seq(Byte)
      BY <1>6, <2>1, <2>2, <2>3
    <3>3. <<>> \o bs[1] = bs[1]
      BY <3>2, ConcatEmptySeq
    <3> QED
      BY <3>1, <3>2, <3>3
  <2>4. CASE k # 1
    <3>1. q[k - 1] = G[k - 1]
      BY <2>4
    <3> QED
      BY <1>6, <2>1, <2>2, <2>4, <3>1
  <2> QED
    BY <2>3, <2>4
<1>11. q[0] = <<>> /\ q = [k \in 0 .. Len(fs) |-> q[k]]
  OBVIOUS
<1> HIDE DEF q
<1> DEFINE U == {k \in Nat : k <= Len(fs) => q[k] \in Seq(Byte)}
<1>12. 0 \in U
  BY <1>11
<1>13. ASSUME NEW k \in Nat, k \in U
       PROVE  k + 1 \in U
  <2>1. ASSUME k + 1 <= Len(fs)
        PROVE  q[k + 1] \in Seq(Byte)
    <3>1. q[k + 1] = q[k] \o Bytes(fs[k + 1]) /\ fs[k + 1] \in Frag
      <4>1. k + 1 \in 1 .. Len(fs) /\ (k + 1) - 1 = k
        BY <2>1
      <4>2. q[k + 1] = q[(k + 1) - 1] \o Bytes(fs[k + 1])
        BY <1>10, <4>1
      <4>3. fs[k + 1] \in Frag
        BY <4>1
      <4> QED
        BY <4>1, <4>2, <4>3
    <3>2. q[k] \in Seq(Byte) /\ Bytes(fs[k + 1]) \in Seq(Byte)
      BY <1>13, <2>1, <3>1, BytesType
    <3> QED
      BY <3>1, <3>2
  <2> QED
    BY <2>1
<1>14. Nat \subseteq U
  <2> HIDE DEF U
  <2> QED
    BY <1>12, <1>13, SetInduction
<1>15. q \in [0 .. Len(fs) -> Seq(Byte)]
  <2>1. \A k \in 0 .. Len(fs) : q[k] \in Seq(Byte)
    BY <1>14
  <2> QED
    BY <1>11, <2>1
<1>16. IsRun(q, fs)
  BY <1>10, <1>11, <1>15 DEF IsRun
<1> QED
  BY <1>9, <1>16

LEMMA RunUnique ==
  ASSUME NEW fs \in Seq(Frag), NEW p, NEW q, IsRun(p, fs), IsRun(q, fs)
  PROVE  \A k \in 0 .. Len(fs) : p[k] = q[k]
<1> DEFINE T == {k \in Nat : k <= Len(fs) => p[k] = q[k]}
<1>1. 0 \in T
  BY DEF IsRun
<1>2. ASSUME NEW k \in Nat, k \in T
      PROVE  k + 1 \in T
  <2>1. ASSUME k + 1 <= Len(fs)
        PROVE  p[k + 1] = q[k + 1]
    <3>1. k + 1 \in 1 .. Len(fs) /\ (k + 1) - 1 = k /\ k <= Len(fs)
      BY <2>1
    <3>2. p[k + 1] = p[k] \o Bytes(fs[k + 1]) /\ q[k + 1] = q[k] \o Bytes(fs[k + 1])
      BY <3>1 DEF IsRun
    <3> QED
      BY <1>2, <3>1, <3>2
  <2> QED
    BY <2>1
<1>3. Nat \subseteq T
  <2> HIDE DEF T
  <2> QED
    BY <1>1, <1>2, SetInduction
<1> QED
  BY <1>3

LEMMA FlatIs ==
  ASSUME NEW fs \in Seq(Frag), NEW q, IsRun(q, fs)
  PROVE  Flat(fs) = q[Len(fs)]
<1>1. PICK p : IsRun(p, fs) /\ Flat(fs) = p[Len(fs)]
  BY RunExists
<1>2. Len(fs) \in 0 .. Len(fs)
  OBVIOUS
<1> QED
  BY <1>1, <1>2, RunUnique

LEMMA FlatType ==
  ASSUME NEW fs \in Seq(Frag)
  PROVE  Flat(fs) \in Seq(Byte)
<1>1. Len(fs) \in 0 .. Len(fs)
  OBVIOUS
<1>2. PICK q : IsRun(q, fs) /\ Flat(fs) = q[Len(fs)]
  BY RunExists
<1>3. q[Len(fs)] \in Seq(Byte)
  BY <1>1, <1>2 DEF IsRun
<1> QED
  BY <1>2, <1>3

(* msgFlat writes as many bytes as the sizes add up to. *)
LEMMA FlatLen ==
  ASSUME NEW fs \in Seq(Frag)
  PROVE  Len(Flat(fs)) = Size(fs)
<1>1. PICK p : IsSum(p, fs) /\ Size(fs) = p[Len(fs)]
  BY SumExists
<1>2. PICK q : IsRun(q, fs) /\ Flat(fs) = q[Len(fs)]
  BY RunExists
<1> DEFINE T == {k \in Nat : k <= Len(fs) => Len(q[k]) = p[k]}
<1>3. 0 \in T
  BY <1>1, <1>2 DEF IsSum, IsRun
<1>4. ASSUME NEW k \in Nat, k \in T
      PROVE  k + 1 \in T
  <2>1. ASSUME k + 1 <= Len(fs)
        PROVE  Len(q[k + 1]) = p[k + 1]
    <3>1. k + 1 \in 1 .. Len(fs) /\ (k + 1) - 1 = k /\ k <= Len(fs) /\ k \in 0 .. Len(fs)
      BY <2>1
    <3>2. /\ p[k + 1] = p[k] + fs[k + 1].len
          /\ q[k + 1] = q[k] \o Bytes(fs[k + 1]) /\ q[k] \in Seq(Byte)
      BY <1>1, <1>2, <3>1 DEF IsSum, IsRun
    <3>3. fs[k + 1] \in Frag
      BY <3>1
    <3>4. Bytes(fs[k + 1]) \in Seq(Byte) /\ Len(Bytes(fs[k + 1])) = fs[k + 1].len
      BY <3>3, BytesType
    <3>5. Len(q[k] \o Bytes(fs[k + 1])) = Len(q[k]) + Len(Bytes(fs[k + 1]))
      BY <3>2, <3>4, ConcatProperties
    <3> QED
      BY <1>4, <3>1, <3>2, <3>4, <3>5
  <2> QED
    BY <2>1
<1>5. Nat \subseteq T
  <2> HIDE DEF T
  <2> QED
    BY <1>3, <1>4, SetInduction
<1> QED
  BY <1>1, <1>2, <1>5

(* The provers do better with a name for concatenation. *)
Cat(s, t) == s \o t

LEMMA CatType ==
  ASSUME NEW w, NEW x, w \in Seq(Byte), x \in Seq(Byte)
  PROVE  Cat(w, x) \in Seq(Byte)
BY DEF Cat

LEMMA CatAssociative ==
  ASSUME NEW w, NEW x, NEW y, w \in Seq(Byte), x \in Seq(Byte), y \in Seq(Byte)
  PROVE  Cat(Cat(w, x), y) = Cat(w, Cat(x, y))
BY DEF Cat

(* Two lists one after the other hold the bytes of both, in order. *)
LEMMA FlatConcat ==
  ASSUME NEW a \in Seq(Frag), NEW b \in Seq(Frag)
  PROVE  Flat(a \o b) = Flat(a) \o Flat(b)
<1>1. PICK p : IsRun(p, a) /\ Flat(a) = p[Len(a)]
  BY RunExists
<1>2. PICK q : IsRun(q, b) /\ Flat(b) = q[Len(b)]
  BY RunExists
<1> DEFINE c == a \o b
           r == [k \in 0 .. Len(c) |-> IF k <= Len(a) THEN p[k] ELSE Flat(a) \o q[k - Len(a)]]
<1>3. /\ c \in Seq(Frag) /\ Len(c) = Len(a) + Len(b)
      /\ \A k \in 1 .. Len(a) : c[k] = a[k]
      /\ \A k \in 1 .. Len(b) : c[Len(a) + k] = b[k]
  OBVIOUS
<1>4. Len(a) \in Nat /\ Len(b) \in Nat /\ Flat(a) \in Seq(Byte)
  BY FlatType
<1> HIDE DEF c
<1>5. ASSUME NEW k \in 0 .. Len(c)
      PROVE  r[k] \in Seq(Byte)
  <2>1. CASE k <= Len(a)
    <3>1. k \in 0 .. Len(a) /\ r[k] = p[k]
      BY <1>4, <2>1
    <3>2. p[k] \in Seq(Byte)
      BY <1>1, <3>1 DEF IsRun
    <3> QED
      BY <3>1, <3>2, Zenon
  <2>2. CASE ~(k <= Len(a))
    <3>1. k - Len(a) \in 0 .. Len(b)
      BY <1>3, <1>4, <2>2
    <3>2. q[k - Len(a)] \in Seq(Byte) /\ r[k] = Flat(a) \o q[k - Len(a)]
      BY <1>2, <2>2, <3>1 DEF IsRun
    <3>3. Flat(a) \o q[k - Len(a)] \in Seq(Byte)
      BY <1>4, <3>2, ConcatProperties
    <3> HIDE DEF r
    <3> QED
      BY <3>2, <3>3
  <2> QED
    BY <2>1, <2>2
<1>6. r[0] = <<>>
  BY <1>1, <1>3, <1>4 DEF IsRun
<1>7. ASSUME NEW k \in 1 .. Len(c)
      PROVE  r[k] = r[k - 1] \o Bytes(c[k])
  <2>1. CASE k <= Len(a)
    <3>1. k \in 1 .. Len(a) /\ k - 1 \in 0 .. Len(c) /\ k - 1 <= Len(a)
      BY <1>4, <2>1
    <3>2. r[k] = p[k] /\ r[k - 1] = p[k - 1] /\ c[k] = a[k]
      BY <1>3, <2>1, <3>1
    <3> QED
      BY <1>1, <3>1, <3>2 DEF IsRun
  <2>2. CASE ~(k <= Len(a))
    <3>1. k - Len(a) \in 1 .. Len(b) /\ c[k] = b[k - Len(a)]
      <4>1. k - Len(a) \in 1 .. Len(b) /\ k = Len(a) + (k - Len(a))
        BY <1>3, <1>4, <2>2
      <4> QED
        BY <1>3, <4>1
    <3>2. q[k - Len(a)] = q[k - Len(a) - 1] \o Bytes(c[k])
      BY <1>2, <3>1 DEF IsRun
    <3>3. r[k] = Flat(a) \o q[k - Len(a)]
      BY <2>2
    <3>4. q[k - Len(a) - 1] \in Seq(Byte) /\ Bytes(c[k]) \in Seq(Byte)
      <4>1. c[k] \in Frag /\ k - Len(a) - 1 \in 0 .. Len(b)
        BY <1>3, <1>4, <3>1
      <4> QED
        BY <1>2, <4>1, BytesType DEF IsRun
    <3>5. r[k - 1] = Flat(a) \o q[k - Len(a) - 1]
      <4>1. CASE k - 1 <= Len(a)
        <5>1. k - 1 = Len(a)
          BY <1>4, <2>2, <4>1
        <5>2. k - Len(a) - 1 = 0 /\ q[0] = <<>> /\ r[k - 1] = Flat(a)
          BY <1>1, <1>2, <1>4, <5>1 DEF IsRun
        <5>3. Flat(a) \o <<>> = Flat(a)
          BY <1>4, ConcatEmptySeq
        <5> QED
          BY <5>2, <5>3
      <4>2. CASE ~(k - 1 <= Len(a))
        <5>1. (k - 1) - Len(a) = k - Len(a) - 1
          BY <1>4
        <5> QED
          BY <4>2, <5>1
      <4> QED
        BY <4>1, <4>2
    <3>6. Flat(a) \o (q[k - Len(a) - 1] \o Bytes(c[k]))
            = (Flat(a) \o q[k - Len(a) - 1]) \o Bytes(c[k])
      <4> DEFINE x == Flat(a)
                 y == q[k - Len(a) - 1]
                 z == Bytes(c[k])
      <4>1. x \in Seq(Byte) /\ y \in Seq(Byte) /\ z \in Seq(Byte)
        BY <1>4, <3>4
      <4> HIDE DEF x, y, z
      <4>2. Cat(Cat(x, y), z) = Cat(x, Cat(y, z))
        BY <4>1, CatAssociative
      <4> QED
        BY <4>2, Zenon DEF Cat, x, y, z
    <3> HIDE DEF r
    <3> QED
      BY <3>2, <3>3, <3>5, <3>6
  <2> QED
    BY <2>1, <2>2
<1>8. IsRun(r, c)
  BY <1>5, <1>6, <1>7 DEF IsRun
<1>9. Flat(c) = r[Len(c)]
  <2> HIDE DEF r
  <2> QED
    BY <1>3, <1>8, FlatIs
<1>10. r[Len(c)] = Flat(a) \o Flat(b)
  <2>1. CASE Len(b) = 0
    <3>1. Flat(b) = <<>> /\ r[Len(c)] = Flat(a)
      BY <1>1, <1>2, <1>3, <1>4, <2>1 DEF IsRun
    <3>2. Flat(a) \o <<>> = Flat(a)
      BY <1>4, ConcatEmptySeq
    <3> HIDE DEF r
    <3> QED
      BY <3>1, <3>2
  <2>2. CASE Len(b) # 0
    <3>1. ~(Len(c) <= Len(a)) /\ Len(c) - Len(a) = Len(b) /\ Len(c) \in 0 .. Len(c)
      BY <1>3, <1>4, <2>2
    <3> QED
      BY <1>2, <3>1
  <2> QED
    BY <2>1, <2>2
<1> QED
  BY <1>9, <1>10 DEF c

LEMMA FlatEmpty == Flat(<<>>) = <<>>
<1> DEFINE q == [k \in 0 .. 0 |-> <<>>]
<1>1. <<>> \in Seq(Frag) /\ Len(<<>>) = 0
  OBVIOUS
<1>2. IsRun(q, <<>>)
  BY <1>1 DEF IsRun
<1>3. q[0] = <<>>
  OBVIOUS
<1> HIDE DEF q
<1> QED
  BY <1>1, <1>2, <1>3, FlatIs

LEMMA FlatOfOne ==
  ASSUME NEW f \in Frag
  PROVE  Flat(<<f>>) = Bytes(f)
<1> DEFINE q == [k \in 0 .. 1 |-> IF k = 0 THEN <<>> ELSE Bytes(f)]
<1>1. <<f>> \in Seq(Frag) /\ Len(<<f>>) = 1 /\ <<f>>[1] = f
  OBVIOUS
<1>2. Bytes(f) \in Seq(Byte) /\ <<>> \o Bytes(f) = Bytes(f)
  BY BytesType, ConcatEmptySeq
<1>3. q \in [0 .. 1 -> Seq(Byte)] /\ q[0] = <<>> /\ q[1] = Bytes(f)
  BY <1>2
<1> HIDE DEF q
<1>4. ASSUME NEW k \in 1 .. 1
      PROVE  q[k] = q[k - 1] \o Bytes(<<f>>[k])
  BY <1>1, <1>2, <1>3
<1>5. IsRun(q, <<f>>)
  BY <1>1, <1>3, <1>4 DEF IsRun
<1> QED
  BY <1>1, <1>3, <1>5, FlatIs

(* A fragment cut in two holds its bytes in two parts. *)
LEMMA BytesCut ==
  ASSUME NEW f \in Frag, NEW r \in 0 .. f.len
  PROVE  /\ Keep(f, r) \in Frag /\ Keep(f, r).len = r
         /\ Drop(f, r) \in Frag /\ Drop(f, r).len = f.len - r
         /\ Bytes(f) = Bytes(Keep(f, r)) \o Bytes(Drop(f, r))
<1>1. f.buf \in Bufs /\ f.off \in Nat /\ f.len \in Nat
  BY DEF Frag
<1>2. Keep(f, r) \in Frag /\ Keep(f, r).len = r /\ Keep(f, r).off = f.off /\ Keep(f, r).buf = f.buf
  BY <1>1 DEF Keep, Frag
<1>3. /\ Drop(f, r) \in Frag /\ Drop(f, r).len = f.len - r /\ Drop(f, r).off = f.off + r
      /\ Drop(f, r).buf = f.buf
  <2>1. r \in Nat /\ f.off + r \in Nat /\ f.len - r \in Nat
    BY <1>1
  <2>2. Drop(f, r) \in Frag
    BY <1>1, <2>1 DEF Drop, Frag
  <2>3. Drop(f, r).len = f.len - r
    BY <2>1 DEF Drop, Frag
  <2>4. Drop(f, r).off = f.off + r
    BY <2>1 DEF Drop, Frag
  <2>5. Drop(f, r).buf = f.buf
    BY <2>1 DEF Drop, Frag
  <2> QED
    BY <2>2, <2>3, <2>4, <2>5
<1> DEFINE b == Bytes(f)
           k == Bytes(Keep(f, r))
           d == Bytes(Drop(f, r))
<1>4. /\ b \in Seq(Byte) /\ k \in Seq(Byte) /\ d \in Seq(Byte)
      /\ Len(b) = f.len /\ Len(k) = r /\ Len(d) = f.len - r
  BY <1>2, <1>3, BytesType
<1>5. /\ \A i \in 1 .. f.len : b[i] = <<f.buf, f.off + i>>
      /\ \A i \in 1 .. r : k[i] = <<f.buf, f.off + i>>
      /\ \A i \in 1 .. f.len - r : d[i] = <<f.buf, (f.off + r) + i>>
  BY <1>2, <1>3 DEF Bytes
<1> HIDE DEF b, k, d
<1>6. /\ k \o d \in Seq(Byte) /\ Len(k \o d) = f.len
      /\ \A i \in 1 .. f.len : (k \o d)[i] = IF i <= r THEN k[i] ELSE d[i - r]
  <2>1. r \in Nat /\ r + (f.len - r) = f.len
    BY <1>1
  <2>2. /\ k \o d \in Seq(Byte) /\ Len(k \o d) = Len(k) + Len(d)
        /\ \A i \in 1 .. Len(k) + Len(d) : (k \o d)[i] = IF i <= Len(k) THEN k[i] ELSE d[i - Len(k)]
    BY <1>4, ConcatProperties
  <2> QED
    BY <1>4, <2>1, <2>2
<1>7. ASSUME NEW i \in 1 .. f.len
      PROVE  (k \o d)[i] = b[i]
  <2>1. CASE i <= r
    <3>1. i \in 1 .. r
      BY <1>1, <2>1
    <3> QED
      BY <1>5, <1>6, <2>1, <3>1
  <2>2. CASE ~(i <= r)
    <3>1. i - r \in 1 .. f.len - r /\ (f.off + r) + (i - r) = f.off + i
      BY <1>1, <2>2
    <3>2. d[i - r] = <<f.buf, (f.off + r) + (i - r)>>
      BY <1>5, <3>1
    <3> QED
      BY <1>5, <1>6, <2>2, <3>1, <3>2
  <2> QED
    BY <2>1, <2>2
<1>8. b = k \o d
  BY <1>4, <1>6, <1>7, SeqEqual
<1> QED
  BY <1>2, <1>3, <1>8 DEF b, k, d

-----------------------------------------------------------------------------
(***************************************************************************)
(* Where a list is cut.                                                    *)
(***************************************************************************)

LEMMA ListOfThree ==
  ASSUME NEW fs \in Seq(Frag), NEW k \in 1 .. Len(fs)
  PROVE  LET a == SubSeq(fs, 1, k - 1)
             b == SubSeq(fs, k + 1, Len(fs))
         IN  /\ a \in Seq(Frag) /\ b \in Seq(Frag) /\ fs[k] \in Frag
             /\ SubSeq(fs, 1, k) \in Seq(Frag) /\ fs = SubSeq(fs, 1, k) \o b
             /\ SubSeq(fs, 1, k) = a \o <<fs[k]>>
             /\ SubSeq(fs, k, Len(fs)) = <<fs[k]>> \o b
<1> DEFINE a == SubSeq(fs, 1, k - 1)
           b == SubSeq(fs, k + 1, Len(fs))
<1>1. a \in Seq(Frag) /\ b \in Seq(Frag) /\ fs[k] \in Frag /\ SubSeq(fs, 1, k) \in Seq(Frag)
  OBVIOUS
<1>2. SubSeq(fs, 1, k) = a \o <<fs[k]>>
  BY SubSeqRecursiveSecond
<1>3. SubSeq(fs, k, Len(fs)) = <<fs[k]>> \o b
  BY SubSeqRecursiveFirst
<1>4. SubSeq(fs, 1, k) \o b = SubSeq(fs, 1, Len(fs))
  BY ConcatAdjacentSubSeq
<1>5. SubSeq(fs, 1, Len(fs)) = fs
  BY SubSeqFull
<1> QED
  BY <1>1, <1>2, <1>3, <1>4, <1>5

(* The loop of msgStripHdr stops in the fragment that holds the byte after *)
(* the first n, and takes less than the whole of it.                       *)
LEMMA FrontCut ==
  ASSUME NEW fs \in Seq(Frag), NEW n \in Nat
  PROVE  LET k == WholeInFront(fs, n)
             r == n - Size(SubSeq(fs, 1, k))
         IN  /\ FrontRunsOff(fs, n) => Size(fs) <= n
             /\ ~FrontRunsOff(fs, n) => k \in 0 .. Len(fs) - 1 /\ r \in 0 .. fs[k + 1].len - 1
<1> DEFINE S == {k \in 0 .. Len(fs) : Size(SubSeq(fs, 1, k)) <= n}
           k == Max(S)
<1>1. S # {} /\ S \subseteq 0 .. Len(fs) /\ Len(fs) \in Nat
  <2>1. SubSeq(fs, 1, 0) = <<>> /\ 0 \in 0 .. Len(fs) /\ Len(fs) \in Nat
    BY SubSeqEmpty
  <2>2. Size(SubSeq(fs, 1, 0)) <= n
    <3>1. Size(SubSeq(fs, 1, 0)) = Size(<<>>)
      BY <2>1, Zenon
    <3> QED
      BY <3>1, SizeEmpty
  <2>3. 0 \in S
    BY <2>1, <2>2
  <2> QED
    BY <2>1, <2>3
<1>2. k \in S /\ \A y \in S : y <= k
  <2> HIDE DEF S
  <2> QED
    BY <1>1, MaxOf
<1>3. k = WholeInFront(fs, n)
  BY DEF WholeInFront
<1> HIDE DEF k
<1>4. ASSUME k = Len(fs)
      PROVE  Size(fs) <= n
  BY <1>2, <1>4, SubSeqFull
<1>5. ASSUME k # Len(fs)
      PROVE  k \in 0 .. Len(fs) - 1 /\ n - Size(SubSeq(fs, 1, k)) \in 0 .. fs[k + 1].len - 1
  <2>1. k + 1 \in 1 .. Len(fs) /\ k + 1 \in 0 .. Len(fs) /\ k + 1 \notin S /\ (k + 1) - 1 = k
        /\ k \in 0 .. Len(fs) - 1
    BY <1>1, <1>2, <1>5
  <2>2. /\ SubSeq(fs, 1, k) \in Seq(Frag) /\ fs[k + 1] \in Frag
        /\ SubSeq(fs, 1, k + 1) = SubSeq(fs, 1, k) \o <<fs[k + 1]>>
    BY <2>1, ListOfThree
  <2>3. Size(SubSeq(fs, 1, k + 1)) = Size(SubSeq(fs, 1, k)) + fs[k + 1].len
    BY <2>2, SizeConcat, SizeOfOne, <<fs[k + 1]>> \in Seq(Frag)
  <2>4. Size(SubSeq(fs, 1, k)) <= n /\ ~(Size(SubSeq(fs, 1, k + 1)) <= n)
    BY <1>2, <2>1
  <2>5. Size(SubSeq(fs, 1, k)) \in Nat /\ fs[k + 1].len \in Nat
    BY <2>2, SizeType DEF Frag
  <2> QED
    BY <2>1, <2>3, <2>4, <2>5
<1> QED
  BY <1>3, <1>4, <1>5 DEF FrontRunsOff

(* That of msgSplit, from the back.                                        *)
LEMMA BackCut ==
  ASSUME NEW fs \in Seq(Frag), NEW n \in Nat
  PROVE  LET k == Len(fs) - WholeAtBack(fs, n)
             r == n - Size(SubSeq(fs, k + 1, Len(fs)))
         IN  /\ BackRunsOff(fs, n) => Size(fs) <= n
             /\ ~BackRunsOff(fs, n) => k \in 1 .. Len(fs) /\ r \in 0 .. fs[k].len - 1
<1> DEFINE S == {j \in 0 .. Len(fs) : Size(SubSeq(fs, Len(fs) - j + 1, Len(fs))) <= n}
           j == Max(S)
           k == Len(fs) - j
<1>1. S # {} /\ S \subseteq 0 .. Len(fs) /\ Len(fs) \in Nat
  <2>1. Len(fs) \in Nat /\ 0 \in 0 .. Len(fs) /\ Len(fs) - 0 + 1 \in Int /\ Len(fs) < Len(fs) - 0 + 1
    OBVIOUS
  <2>2. SubSeq(fs, Len(fs) - 0 + 1, Len(fs)) = <<>>
    BY <2>1, SubSeqEmpty
  <2>3. Size(SubSeq(fs, Len(fs) - 0 + 1, Len(fs))) <= n
    <3>1. Size(SubSeq(fs, Len(fs) - 0 + 1, Len(fs))) = Size(<<>>)
      BY <2>2, Zenon
    <3> QED
      BY <3>1, SizeEmpty
  <2>4. 0 \in S
    BY <2>1, <2>3
  <2> QED
    BY <2>1, <2>4
<1>2. j \in S /\ \A y \in S : y <= j
  <2> HIDE DEF S
  <2> QED
    BY <1>1, MaxOf
<1>3. j = WholeAtBack(fs, n)
  BY DEF WholeAtBack
<1> HIDE DEF j
<1>4. ASSUME j = Len(fs)
      PROVE  Size(fs) <= n
  <2>1. Len(fs) - j + 1 = 1 /\ SubSeq(fs, 1, Len(fs)) = fs
    BY <1>1, <1>4, SubSeqFull
  <2>2. Size(SubSeq(fs, Len(fs) - j + 1, Len(fs))) <= n
    BY <1>2
  <2> QED
    BY <2>1, <2>2
<1>5. ASSUME j # Len(fs)
      PROVE  k \in 1 .. Len(fs) /\ n - Size(SubSeq(fs, k + 1, Len(fs))) \in 0 .. fs[k].len - 1
  <2>1. /\ k \in 1 .. Len(fs) /\ j + 1 \in 0 .. Len(fs) /\ j + 1 \notin S
        /\ Len(fs) - (j + 1) + 1 = k
    BY <1>1, <1>2, <1>5
  <2>2. /\ SubSeq(fs, k + 1, Len(fs)) \in Seq(Frag) /\ fs[k] \in Frag
        /\ SubSeq(fs, k, Len(fs)) = <<fs[k]>> \o SubSeq(fs, k + 1, Len(fs))
    BY <2>1, ListOfThree
  <2>3. Size(SubSeq(fs, k, Len(fs))) = fs[k].len + Size(SubSeq(fs, k + 1, Len(fs)))
    BY <2>2, SizeConcat, SizeOfOne, <<fs[k]>> \in Seq(Frag)
  <2>4. Size(SubSeq(fs, k + 1, Len(fs))) <= n
    BY <1>2
  <2>5. ~(Size(SubSeq(fs, k, Len(fs))) <= n)
    BY <2>1
  <2>6. Size(SubSeq(fs, k + 1, Len(fs))) \in Nat /\ fs[k].len \in Nat
    BY <2>2, SizeType DEF Frag
  <2> HIDE DEF k
  <2>7. n - Size(SubSeq(fs, k + 1, Len(fs))) \in 0 .. fs[k].len - 1
    BY <2>3, <2>4, <2>5, <2>6
  <2> QED
    BY <2>1, <2>7
<1> QED
  BY <1>3, <1>4, <1>5 DEF BackRunsOff

(* Cutting a list in one of its fragments leaves its bytes in two lists.   *)
LEMMA CutAt ==
  ASSUME NEW fs \in Seq(Frag), NEW k \in 1 .. Len(fs), NEW u \in Frag, NEW v \in Frag,
         Bytes(fs[k]) = Bytes(u) \o Bytes(v), fs[k].len = u.len + v.len
  PROVE  LET front == SubSeq(fs, 1, k - 1) \o <<u>>
             back == <<v>> \o SubSeq(fs, k + 1, Len(fs))
         IN  /\ front \in Seq(Frag) /\ back \in Seq(Frag)
             /\ Flat(fs) = Flat(front) \o Flat(back)
             /\ Size(fs) = Size(front) + Size(back)
             /\ Size(front) = Size(SubSeq(fs, 1, k - 1)) + u.len
             /\ Size(back) = v.len + Size(SubSeq(fs, k + 1, Len(fs)))
<1>a. PICK a \in Seq(Frag), b \in Seq(Frag), f \in Frag, p \in Seq(Frag) :
        /\ a = SubSeq(fs, 1, k - 1) /\ b = SubSeq(fs, k + 1, Len(fs))
        /\ f = fs[k] /\ p = SubSeq(fs, 1, k)
        /\ p = a \o <<f>> /\ fs = p \o b
  <2>1. /\ SubSeq(fs, 1, k - 1) \in Seq(Frag) /\ SubSeq(fs, k + 1, Len(fs)) \in Seq(Frag)
        /\ fs[k] \in Frag /\ SubSeq(fs, 1, k) \in Seq(Frag)
        /\ SubSeq(fs, 1, k) = SubSeq(fs, 1, k - 1) \o <<fs[k]>>
        /\ fs = SubSeq(fs, 1, k) \o SubSeq(fs, k + 1, Len(fs))
    BY ListOfThree
  <2> QED
    BY <2>1, Zenon
<1>1. /\ <<f>> \in Seq(Frag) /\ <<u>> \in Seq(Frag) /\ <<v>> \in Seq(Frag)
      /\ a \o <<u>> \in Seq(Frag) /\ <<v>> \o b \in Seq(Frag)
  OBVIOUS
<1>2. Size(fs) = (Size(a) + Size(<<f>>)) + Size(b)
  <2>1. Size(fs) = Size(p) + Size(b)
    BY <1>a, SizeConcat
  <2>2. Size(p) = Size(a) + Size(<<f>>)
    <3>1. Size(a \o <<f>>) = Size(a) + Size(<<f>>)
      BY <1>1, SizeConcat
    <3> QED
      BY <1>a, <3>1, Zenon
  <2> QED
    BY <2>1, <2>2
<1>3. Size(a \o <<u>>) = Size(a) + Size(<<u>>) /\ Size(<<v>> \o b) = Size(<<v>>) + Size(b)
  BY <1>1, SizeConcat
<1>4. Size(<<f>>) = f.len /\ Size(<<u>>) = u.len /\ Size(<<v>>) = v.len
  BY SizeOfOne
<1>5. Size(a) \in Nat /\ Size(b) \in Nat /\ u.len \in Nat /\ v.len \in Nat
  BY SizeType DEF Frag
<1>6. Flat(fs) = Flat(p) \o Flat(b)
  BY <1>a, FlatConcat
<1>7. Flat(p) = Flat(a) \o Bytes(f)
  <2>1. Flat(a \o <<f>>) = Flat(a) \o Flat(<<f>>)
    BY <1>1, FlatConcat
  <2>2. Flat(p) = Flat(a) \o Flat(<<f>>)
    BY <1>a, <2>1, Zenon
  <2> QED
    BY <2>2, FlatOfOne, Zenon
<1>8. Flat(a \o <<u>>) = Flat(a) \o Bytes(u)
  <2>1. Flat(a \o <<u>>) = Flat(a) \o Flat(<<u>>)
    BY <1>1, FlatConcat
  <2> QED
    BY <2>1, FlatOfOne
<1>9. Flat(<<v>> \o b) = Bytes(v) \o Flat(b)
  <2>1. Flat(<<v>> \o b) = Flat(<<v>>) \o Flat(b)
    BY <1>1, FlatConcat
  <2> QED
    BY <2>1, FlatOfOne
<1>10. Flat(p) \o Flat(b) = Flat(a \o <<u>>) \o Flat(<<v>> \o b)
  <2>1. /\ Flat(a) \in Seq(Byte) /\ Flat(b) \in Seq(Byte)
        /\ Bytes(u) \in Seq(Byte) /\ Bytes(v) \in Seq(Byte)
    BY FlatType, BytesType
  <2>2. /\ Flat(p) = Cat(Flat(a), Cat(Bytes(u), Bytes(v)))
        /\ Flat(a \o <<u>>) = Cat(Flat(a), Bytes(u))
        /\ Flat(<<v>> \o b) = Cat(Bytes(v), Flat(b))
    BY <1>a, <1>7, <1>8, <1>9 DEF Cat
  <2>3. Flat(p) = Cat(Cat(Flat(a), Bytes(u)), Bytes(v))
    BY <2>1, <2>2, CatAssociative
  <2>4. Cat(Flat(a), Bytes(u)) \in Seq(Byte)
    BY <2>1, CatType, Zenon
  <2>5. Cat(Cat(Cat(Flat(a), Bytes(u)), Bytes(v)), Flat(b))
          = Cat(Cat(Flat(a), Bytes(u)), Cat(Bytes(v), Flat(b)))
    BY <2>1, <2>4, CatAssociative
  <2>6. Cat(Flat(p), Flat(b)) = Cat(Flat(a \o <<u>>), Flat(<<v>> \o b))
    BY <2>2, <2>3, <2>5, Zenon
  <2> QED
    BY <2>6, Zenon DEF Cat
<1>11. Size(fs) = Size(a \o <<u>>) + Size(<<v>> \o b)
  <2>1. f.len = u.len + v.len
    BY <1>a
  <2>2. Size(fs) = (Size(a) + f.len) + Size(b)
    BY <1>2, <1>4, Zenon
  <2>3. Size(a \o <<u>>) + Size(<<v>> \o b) = (Size(a) + u.len) + (v.len + Size(b))
    BY <1>3, <1>4, Zenon
  <2> QED
    BY <1>5, <2>1, <2>2, <2>3
<1> QED
  BY <1>a, <1>1, <1>3, <1>4, <1>6, <1>10, <1>11

LEMMA CutList ==
  ASSUME NEW fs \in Seq(Frag), NEW k \in 1 .. Len(fs), NEW r \in 0 .. fs[k].len
  PROVE  LET front == SubSeq(fs, 1, k - 1) \o <<Keep(fs[k], r)>>
             back == <<Drop(fs[k], r)>> \o SubSeq(fs, k + 1, Len(fs))
         IN  /\ front \in Seq(Frag) /\ back \in Seq(Frag)
             /\ Flat(fs) = Flat(front) \o Flat(back)
             /\ Size(fs) = Size(front) + Size(back)
             /\ Size(front) = Size(SubSeq(fs, 1, k - 1)) + r
             /\ Size(back) = (fs[k].len - r) + Size(SubSeq(fs, k + 1, Len(fs)))
<1>1. fs[k] \in Frag
  OBVIOUS
<1> DEFINE u == Keep(fs[k], r)
           v == Drop(fs[k], r)
<1>2. /\ u \in Frag /\ v \in Frag /\ u.len = r /\ v.len = fs[k].len - r
      /\ Bytes(fs[k]) = Bytes(u) \o Bytes(v)
  BY <1>1, BytesCut
<1>3. fs[k].len \in Nat /\ r \in Nat
  BY <1>1 DEF Frag
<1> HIDE DEF u, v
<1>4. fs[k].len = u.len + v.len
  BY <1>2, <1>3
<1>5. /\ SubSeq(fs, 1, k - 1) \o <<u>> \in Seq(Frag)
      /\ <<v>> \o SubSeq(fs, k + 1, Len(fs)) \in Seq(Frag)
      /\ Flat(fs) = Flat(SubSeq(fs, 1, k - 1) \o <<u>>) \o Flat(<<v>> \o SubSeq(fs, k + 1, Len(fs)))
      /\ Size(fs) = Size(SubSeq(fs, 1, k - 1) \o <<u>>) + Size(<<v>> \o SubSeq(fs, k + 1, Len(fs)))
      /\ Size(SubSeq(fs, 1, k - 1) \o <<u>>) = Size(SubSeq(fs, 1, k - 1)) + u.len
      /\ Size(<<v>> \o SubSeq(fs, k + 1, Len(fs))) = v.len + Size(SubSeq(fs, k + 1, Len(fs)))
  BY <1>2, <1>4, CutAt
<1> QED
  BY <1>2, <1>5 DEF u, v

LEMMA SplitConcat ==
  ASSUME NEW s \in Seq(Byte), NEW t \in Seq(Byte)
  PROVE  /\ SubSeq(s \o t, 1, Len(s)) = s
         /\ SubSeq(s \o t, Len(s) + 1, Len(s \o t)) = t
<1>1. /\ s \o t \in Seq(Byte) /\ Len(s \o t) = Len(s) + Len(t)
      /\ \A i \in 1 .. Len(s) : (s \o t)[i] = s[i]
      /\ \A i \in 1 .. Len(t) : (s \o t)[Len(s) + i] = t[i]
      /\ Len(s) \in Nat /\ Len(t) \in Nat
  OBVIOUS
<1> DEFINE c == s \o t
           x == SubSeq(c, 1, Len(s))
           y == SubSeq(c, Len(s) + 1, Len(c))
<1>2. x = s
  <2>1. x \in Seq(Byte) /\ Len(x) = Len(s) /\ \A i \in 1 .. Len(s) : x[i] = c[i]
    BY <1>1, SubSeqProperties
  <2>2. Len(x) = Len(s) /\ \A i \in 1 .. Len(x) : x[i] = s[i]
    BY <1>1, <2>1
  <2> QED
    BY <2>1, <2>2, SeqEqual
<1>3. y = t
  <2>1. y \in Seq(Byte) /\ Len(y) = Len(t) /\ \A i \in 1 .. Len(t) : y[i] = c[Len(s) + i]
    BY <1>1, SubSeqProperties
  <2>2. Len(y) = Len(t) /\ \A i \in 1 .. Len(y) : y[i] = t[i]
    BY <1>1, <2>1
  <2> QED
    BY <2>1, <2>2, SeqEqual
<1> QED
  BY <1>2, <1>3

-----------------------------------------------------------------------------
(***************************************************************************)
(* What the three results of a cut hold.                                   *)
(***************************************************************************)

(* Fragments that stay inside their buffers. *)
InBuf == {f \in Frag : f.off + f.len <= BufSize[f.buf]}

LEMMA SeqInBuf ==
  ASSUME NEW fs \in Seq(InBuf)
  PROVE  fs \in Seq(Frag) /\ Size(fs) \in Nat /\ Len(Flat(fs)) = Size(fs) /\ Flat(fs) \in Seq(Byte)
<1>1. fs \in Seq(Frag)
  BY DEF InBuf
<1> QED
  BY <1>1, SizeType, FlatType, FlatLen

LEMMA CutInBuf ==
  ASSUME NEW f \in InBuf, NEW r \in 0 .. f.len
  PROVE  Keep(f, r) \in InBuf /\ Drop(f, r) \in InBuf
<1>1. f \in Frag /\ f.off \in Nat /\ f.len \in Nat /\ f.off + f.len <= BufSize[f.buf]
  BY DEF InBuf, Frag
<1>2. Keep(f, r) \in Frag /\ Drop(f, r) \in Frag
  BY <1>1, BytesCut
<1>3. f.buf \in Bufs /\ BufSize[f.buf] \in Nat
  BY <1>1, MessageAssumption DEF Frag
<1>4. Keep(f, r) \in InBuf
  <2>1. Keep(f, r).off = f.off /\ Keep(f, r).len = r /\ Keep(f, r).buf = f.buf
    BY <1>1 DEF Keep, Frag
  <2> QED
    BY <1>1, <1>2, <1>3, <2>1 DEF InBuf
<1>5. Drop(f, r) \in InBuf
  <2>1. Drop(f, r).off = f.off + r
    BY <1>1 DEF Drop, Frag
  <2>2. Drop(f, r).len = f.len - r
    BY <1>1 DEF Drop, Frag
  <2>3. Drop(f, r).buf = f.buf
    BY <1>1 DEF Drop, Frag
  <2> QED
    BY <1>1, <1>2, <1>3, <2>1, <2>2, <2>3 DEF InBuf
<1> QED
  BY <1>4, <1>5

(* A strip that does not run off the list has the bytes it takes, and      *)
(* leaves the others.                                                      *)
LEMMA AfterFrontIs ==
  ASSUME NEW fs \in Seq(InBuf), NEW n \in Nat, ~FrontRunsOff(fs, n)
  PROVE  /\ AfterFront(fs, n) \in Seq(InBuf)
         /\ n < Size(fs) /\ Size(AfterFront(fs, n)) = Size(fs) - n
         /\ Flat(AfterFront(fs, n)) = SubSeq(Flat(fs), n + 1, Len(Flat(fs)))
<1> DEFINE k == WholeInFront(fs, n)
           r == n - Size(SubSeq(fs, 1, k))
<1>1. fs \in Seq(Frag)
  BY SeqInBuf
<1>2. k \in 0 .. Len(fs) - 1 /\ r \in 0 .. fs[k + 1].len - 1
  BY <1>1, FrontCut
<1>3. /\ k + 1 \in 1 .. Len(fs) /\ (k + 1) - 1 = k /\ (k + 1) + 1 = k + 2
      /\ fs[k + 1] \in InBuf /\ fs[k + 1].len \in Nat /\ r \in 0 .. fs[k + 1].len
  <2>1. Len(fs) \in Nat
    OBVIOUS
  <2>2. k + 1 \in 1 .. Len(fs) /\ (k + 1) - 1 = k /\ (k + 1) + 1 = k + 2
    <3> HIDE DEF k
    <3> QED
      BY <1>2, <2>1
  <2>3. fs[k + 1] \in InBuf
    <3> HIDE DEF k
    <3> QED
      BY <2>2
  <2>4. fs[k + 1].len \in Nat
    BY <2>3 DEF InBuf, Frag
  <2> QED
    BY <1>2, <2>2, <2>3, <2>4
<1> DEFINE front == SubSeq(fs, 1, k) \o <<Keep(fs[k + 1], r)>>
           back == <<Drop(fs[k + 1], r)>> \o SubSeq(fs, k + 2, Len(fs))
<1>4. AfterFront(fs, n) = back
  BY DEF AfterFront
<1>5. /\ front \in Seq(Frag) /\ back \in Seq(Frag)
      /\ Flat(fs) = Flat(front) \o Flat(back)
      /\ Size(fs) = Size(front) + Size(back)
      /\ Size(front) = Size(SubSeq(fs, 1, k)) + r
      /\ Size(back) = (fs[k + 1].len - r) + Size(SubSeq(fs, k + 2, Len(fs)))
  <2>2. /\ SubSeq(fs, 1, (k + 1) - 1) \o <<Keep(fs[k + 1], r)>> \in Seq(Frag)
        /\ <<Drop(fs[k + 1], r)>> \o SubSeq(fs, (k + 1) + 1, Len(fs)) \in Seq(Frag)
        /\ Flat(fs) = Flat(SubSeq(fs, 1, (k + 1) - 1) \o <<Keep(fs[k + 1], r)>>)
                        \o Flat(<<Drop(fs[k + 1], r)>> \o SubSeq(fs, (k + 1) + 1, Len(fs)))
        /\ Size(fs) = Size(SubSeq(fs, 1, (k + 1) - 1) \o <<Keep(fs[k + 1], r)>>)
                        + Size(<<Drop(fs[k + 1], r)>> \o SubSeq(fs, (k + 1) + 1, Len(fs)))
        /\ Size(SubSeq(fs, 1, (k + 1) - 1) \o <<Keep(fs[k + 1], r)>>)
             = Size(SubSeq(fs, 1, (k + 1) - 1)) + r
        /\ Size(<<Drop(fs[k + 1], r)>> \o SubSeq(fs, (k + 1) + 1, Len(fs)))
             = (fs[k + 1].len - r) + Size(SubSeq(fs, (k + 1) + 1, Len(fs)))
    <3> HIDE DEF k, r
    <3> QED
      BY <1>1, <1>3, CutList
  <2> QED
    BY <1>3, <2>2, Zenon
<1>6. Size(front) = n /\ Size(back) = Size(fs) - n /\ n < Size(fs)
  <2>1. SubSeq(fs, 1, k) \in Seq(Frag) /\ SubSeq(fs, k + 2, Len(fs)) \in Seq(Frag)
    <3> HIDE DEF k
    <3> QED
      BY <1>1, <1>2
  <2>2. Size(SubSeq(fs, 1, k)) \in Nat /\ Size(SubSeq(fs, k + 2, Len(fs))) \in Nat
    BY <2>1, SizeType
  <2>3. Size(SubSeq(fs, 1, k)) + r = n
    <3> HIDE DEF k
    <3> QED
      BY <2>2
  <2> HIDE DEF front, back, k, r
  <2>4. Size(front) = n
    BY <1>5, <2>3
  <2>5. Size(back) \in Nat \ {0}
    <3>1. fs[k + 1].len - r \in Nat \ {0}
      BY <1>2, <1>3
    <3>2. Size(back) = (fs[k + 1].len - r) + Size(SubSeq(fs, k + 2, Len(fs)))
      BY <1>5
    <3> QED
      BY <2>2, <3>1, <3>2
  <2> QED
    BY <1>5, <2>4, <2>5
<1>7. back \in Seq(InBuf)
  <2>1. Drop(fs[k + 1], r) \in InBuf
    BY <1>3, CutInBuf
  <2>2. SubSeq(fs, k + 2, Len(fs)) \in Seq(InBuf)
    <3> HIDE DEF k
    <3> QED
      BY <1>2
  <2> HIDE DEF k, r
  <2> QED
    BY <2>1, <2>2
<1>8. Flat(back) = SubSeq(Flat(fs), n + 1, Len(Flat(fs)))
  <2>1. Flat(front) \in Seq(Byte) /\ Flat(back) \in Seq(Byte) /\ Len(Flat(front)) = n
    BY <1>5, <1>6, FlatType, FlatLen
  <2> HIDE DEF front, back
  <2> QED
    BY <1>5, <2>1, SplitConcat
<1> HIDE DEF front, back
<1> QED
  BY <1>4, <1>6, <1>7, <1>8

(* A split that does not run off the list puts the last n bytes in one     *)
(* list and leaves those before in the other.                              *)
LEMMA BackIs ==
  ASSUME NEW fs \in Seq(InBuf), NEW n \in Nat, ~BackRunsOff(fs, n)
  PROVE  /\ BeforeBack(fs, n) \in Seq(InBuf) /\ Back(fs, n) \in Seq(InBuf)
         /\ n < Size(fs) /\ Size(BeforeBack(fs, n)) = Size(fs) - n /\ Size(Back(fs, n)) = n
         /\ Flat(BeforeBack(fs, n)) = SubSeq(Flat(fs), 1, Size(fs) - n)
         /\ Flat(Back(fs, n)) = SubSeq(Flat(fs), Size(fs) - n + 1, Len(Flat(fs)))
<1> DEFINE k == Len(fs) - WholeAtBack(fs, n)
           b == SubSeq(fs, k + 1, Len(fs))
           r == n - Size(b)
           front == SubSeq(fs, 1, k - 1) \o <<Keep(fs[k], fs[k].len - r)>>
           v == Drop(fs[k], fs[k].len - r)
           back == (IF r > 0 THEN <<v>> ELSE <<>>) \o b
<1>1. fs \in Seq(Frag) /\ Len(fs) \in Nat
  BY SeqInBuf
<1>2. k \in 1 .. Len(fs) /\ r \in 0 .. fs[k].len - 1
  BY <1>1, BackCut
<1>3. BeforeBack(fs, n) = front /\ Back(fs, n) = back
  BY DEF BeforeBack, Back
<1> HIDE DEF k
<1>4. fs[k] \in InBuf /\ b \in Seq(InBuf) /\ SubSeq(fs, 1, k - 1) \in Seq(InBuf)
  BY <1>1, <1>2
<1>5. b \in Seq(Frag) /\ Size(b) \in Nat /\ Size(b) + r = n /\ r \in Nat
  <2>1. b \in Seq(Frag) /\ Size(b) \in Nat
    BY <1>4, SeqInBuf
  <2> HIDE DEF b
  <2>2. Size(b) + r = n
    BY <2>1
  <2>3. r \in Nat
    <3> HIDE DEF r
    <3> QED
      BY <1>2
  <2> QED
    BY <2>1, <2>2, <2>3
<1> HIDE DEF b, r
<1>6. fs[k].len \in Nat /\ fs[k].len - r \in 0 .. fs[k].len /\ fs[k].len - (fs[k].len - r) = r
  <2>1. fs[k].len \in Nat
    BY <1>4 DEF InBuf, Frag
  <2> QED
    BY <1>2, <2>1
<1>7. /\ front \in Seq(Frag) /\ <<v>> \o b \in Seq(Frag)
      /\ Flat(fs) = Flat(front) \o Flat(<<v>> \o b)
      /\ Size(fs) = Size(front) + Size(<<v>> \o b)
      /\ Size(<<v>> \o b) = n
  <2>1. /\ front \in Seq(Frag) /\ <<v>> \o b \in Seq(Frag)
        /\ Flat(fs) = Flat(front) \o Flat(<<v>> \o b)
        /\ Size(fs) = Size(front) + Size(<<v>> \o b)
        /\ Size(<<v>> \o b) = (fs[k].len - (fs[k].len - r)) + Size(b)
    BY <1>1, <1>2, <1>6, CutList DEF b
  <2>2. Size(<<v>> \o b) = r + Size(b)
    BY <1>6, <2>1, Zenon
  <2>3. Size(<<v>> \o b) = n
    BY <1>5, <2>2
  <2> QED
    BY <2>1, <2>3
<1>8. v \in InBuf /\ front \in Seq(InBuf) /\ v \in Frag /\ v.len = r
  <2>1. v \in InBuf /\ Keep(fs[k], fs[k].len - r) \in InBuf
    BY <1>4, <1>6, CutInBuf
  <2>2. front \in Seq(InBuf)
    BY <1>4, <2>1
  <2>3. v \in Frag /\ v.len = fs[k].len - (fs[k].len - r)
    BY <1>4, <1>6, BytesCut DEF InBuf
  <2> QED
    BY <1>6, <2>1, <2>2, <2>3
<1> HIDE DEF front, v
<1>9. /\ back \in Seq(InBuf) /\ Size(back) = Size(<<v>> \o b)
      /\ Flat(back) = Flat(<<v>> \o b)
  <2>1. CASE r > 0
    BY <1>4, <1>8, <2>1
  <2>2. CASE r = 0
    <3>1. back = b
      BY <1>4, <2>2
    <3>2. Size(<<v>> \o b) = Size(b)
      BY <1>5, <1>7, <2>2
    <3>3. Bytes(v) = <<>>
      <4>1. Bytes(v) \in Seq(Byte) /\ Len(Bytes(v)) = 0
        BY <1>8, <2>2, BytesType
      <4> QED
        BY <4>1, EmptySeq
    <3>4. Flat(<<v>> \o b) = Flat(<<v>>) \o Flat(b)
      BY <1>5, <1>8, FlatConcat, <<v>> \in Seq(Frag)
    <3>5. Flat(<<v>>) = <<>>
      <4>1. Flat(<<v>>) = Bytes(v)
        BY <1>8, FlatOfOne
      <4> QED
        BY <4>1, <3>3
    <3>6. Flat(<<v>> \o b) = Flat(b)
      <4>1. Flat(b) \in Seq(Byte)
        BY <1>5, FlatType
      <4>2. <<>> \o Flat(b) = Flat(b)
        BY <4>1, ConcatEmptySeq
      <4> QED
        BY <3>4, <3>5, <4>2, Zenon
    <3> QED
      BY <1>4, <3>1, <3>2, <3>6
  <2> QED
    BY <1>5, <2>1, <2>2
<1> HIDE DEF back
<1>10. /\ Size(front) \in Nat /\ Size(front) = Size(fs) - n /\ n \in Nat
       /\ Len(Flat(front)) = Size(front) /\ Flat(front) \in Seq(Byte)
       /\ Flat(back) \in Seq(Byte) /\ Flat(fs) = Flat(front) \o Flat(back)
  <2>1. Size(front) \in Nat /\ Len(Flat(front)) = Size(front) /\ Flat(front) \in Seq(Byte)
    BY <1>8, SeqInBuf
  <2>2. Flat(back) \in Seq(Byte)
    BY <1>9, SeqInBuf
  <2> QED
    BY <1>7, <1>9, <2>1, <2>2
<1>11. /\ Flat(front) = SubSeq(Flat(fs), 1, Size(fs) - n)
       /\ Flat(back) = SubSeq(Flat(fs), Size(fs) - n + 1, Len(Flat(fs)))
  <2>1. /\ SubSeq(Flat(front) \o Flat(back), 1, Len(Flat(front))) = Flat(front)
        /\ SubSeq(Flat(front) \o Flat(back), Len(Flat(front)) + 1, Len(Flat(front) \o Flat(back)))
             = Flat(back)
    BY <1>10, SplitConcat
  <2>2. Len(Flat(front)) = Size(fs) - n
    BY <1>10, Zenon
  <2> QED
    BY <1>10, <2>1, <2>2, Zenon
<1>12. n < Size(fs)
  <2>1. Size(front) = Size(SubSeq(fs, 1, k - 1)) + (fs[k].len - r)
    BY <1>1, <1>2, <1>6, CutList DEF front
  <2>2. Size(SubSeq(fs, 1, k - 1)) \in Nat
    BY <1>4, SeqInBuf
  <2>3. fs[k].len - r \in Nat \ {0}
    BY <1>2, <1>6
  <2>4. Size(front) \in Nat \ {0}
    BY <2>1, <2>2, <2>3
  <2>5. Size(fs) \in Nat
    BY SeqInBuf
  <2> QED
    BY <1>10, <2>4, <2>5
<1> QED
  BY <1>3, <1>7, <1>8, <1>9, <1>10, <1>11, <1>12

-----------------------------------------------------------------------------
(***************************************************************************)
(* The invariant.                                                          *)
(***************************************************************************)

(* The lists hold fragments inside the buffers and at least as many bytes  *)
(* as the lengths say.  Strip and split need the second part to leave the  *)
(* lengths right, and the second part needs the first to speak of sizes.   *)
MsgInv ==
  /\ frags \in [Msgs -> Seq(InBuf)]
  /\ msglen \in [Msgs -> Nat]
  /\ undefined \in BOOLEAN
  /\ careful \in BOOLEAN
  /\ LenIsContent

(* A message whose list and length still go together, the others as they   *)
(* were.                                                                   *)
LEMMA OneChanged ==
  ASSUME MsgInv, NEW m \in Msgs, NEW fs \in Seq(InBuf), NEW l \in Nat,
         l <= Size(fs), careful => l = Size(fs),
         frags' = [frags EXCEPT ![m] = fs], msglen' = [msglen EXCEPT ![m] = l],
         undefined' \in BOOLEAN, careful' = careful
  PROVE  MsgInv'
<1>1. frags' \in [Msgs -> Seq(InBuf)] /\ msglen' \in [Msgs -> Nat]
  BY DEF MsgInv
<1>2. ASSUME NEW x \in Msgs
      PROVE  msglen'[x] <= Size(frags'[x]) /\ (careful => msglen'[x] = Size(frags'[x]))
  <2>1. CASE x = m
    <3>1. frags'[x] = fs /\ msglen'[x] = l
      BY <2>1 DEF MsgInv
    <3> QED
      BY <3>1
  <2>2. CASE x # m
    <3>1. frags'[x] = frags[x] /\ msglen'[x] = msglen[x]
      BY <2>2 DEF MsgInv
    <3> QED
      BY <3>1 DEF MsgInv, LenIsContent
  <2> QED
    BY <2>1, <2>2
<1> QED
  BY <1>1, <1>2 DEF MsgInv, LenIsContent

(* Two messages.                                                           *)
LEMMA TwoChanged ==
  ASSUME MsgInv, NEW m \in Msgs, NEW s \in Msgs \ {m},
         NEW fs \in Seq(InBuf), NEW l \in Nat, l <= Size(fs), careful => l = Size(fs),
         NEW gs \in Seq(InBuf), NEW k \in Nat, k <= Size(gs), careful => k = Size(gs),
         frags' = [frags EXCEPT ![m] = fs, ![s] = gs],
         msglen' = [msglen EXCEPT ![m] = l, ![s] = k],
         undefined' \in BOOLEAN, careful' = careful
  PROVE  MsgInv'
<1>1. frags' \in [Msgs -> Seq(InBuf)] /\ msglen' \in [Msgs -> Nat]
  BY DEF MsgInv
<1>2. ASSUME NEW x \in Msgs
      PROVE  msglen'[x] <= Size(frags'[x]) /\ (careful => msglen'[x] = Size(frags'[x]))
  <2>1. CASE x = m
    <3>1. frags'[x] = fs /\ msglen'[x] = l
      BY <2>1 DEF MsgInv
    <3> QED
      BY <3>1
  <2>2. CASE x = s
    <3>1. frags'[x] = gs /\ msglen'[x] = k
      BY <2>2 DEF MsgInv
    <3> QED
      BY <3>1
  <2>3. CASE x # m /\ x # s
    <3>1. frags'[x] = frags[x] /\ msglen'[x] = msglen[x]
      BY <2>3 DEF MsgInv
    <3> QED
      BY <3>1 DEF MsgInv, LenIsContent
  <2> QED
    BY <2>1, <2>2, <2>3
<1> QED
  BY <1>1, <1>2 DEF MsgInv, LenIsContent

LEMMA ListsOf ==
  ASSUME MsgInv, NEW m \in Msgs
  PROVE  /\ frags[m] \in Seq(InBuf) /\ frags[m] \in Seq(Frag)
         /\ msglen[m] \in Nat /\ Size(frags[m]) \in Nat
         /\ msglen[m] <= Size(frags[m]) /\ (careful => msglen[m] = Size(frags[m]))
<1>1. frags[m] \in Seq(InBuf) /\ msglen[m] \in Nat
  BY DEF MsgInv
<1>2. frags[m] \in Seq(Frag) /\ Size(frags[m]) \in Nat
  BY <1>1, SeqInBuf
<1> QED
  BY <1>1, <1>2 DEF MsgInv, LenIsContent

LEMMA ChunkIs ==
  ASSUME NEW b \in Bufs, NEW n \in 0 .. BufSize[b]
  PROVE  /\ n \in Nat /\ Chunk(b, n) \in InBuf /\ Chunk(b, n) \in Frag
         /\ <<Chunk(b, n)>> \in Seq(InBuf) /\ <<Chunk(b, n)>> \in Seq(Frag)
         /\ Size(<<Chunk(b, n)>>) = n
<1>1. BufSize[b] \in Nat /\ n \in Nat
  BY MessageAssumption
<1>2. Chunk(b, n) \in InBuf /\ Chunk(b, n) \in Frag /\ Chunk(b, n).len = n
  BY <1>1 DEF Chunk, InBuf, Frag
<1>3. Size(<<Chunk(b, n)>>) = n
  BY <1>2, SizeOfOne
<1> HIDE DEF Chunk
<1> QED
  BY <1>1, <1>2, <1>3

LEMMA ConcatInBuf ==
  ASSUME NEW a \in Seq(InBuf), NEW b \in Seq(InBuf)
  PROVE  a \o b \in Seq(InBuf) /\ Size(a \o b) = Size(a) + Size(b)
BY SeqInBuf, SizeConcat

LEMMA InitEstablishesMsgInv == Init => MsgInv
<1> SUFFICES ASSUME Init PROVE MsgInv
  OBVIOUS
<1>1. \A m \in Msgs : frags[m] = <<>> /\ msglen[m] = 0
  BY DEF Init
<1>2. <<>> \in Seq(InBuf) /\ Size(<<>>) = 0
  BY SizeEmpty
<1>3. LenIsContent
  <2>1. \A m \in Msgs : Size(frags[m]) = 0
    BY <1>1, <1>2
  <2> QED
    BY <1>1, <2>1 DEF LenIsContent
<1> QED
  BY <1>2, <1>3 DEF Init, MsgInv

LEMMA CreateKeeps ==
  ASSUME MsgInv, NEW m \in Msgs, NEW b \in Bufs, NEW n \in 0 .. BufSize[b],
         Create(m, b, n), careful' = careful
  PROVE  MsgInv'
<1> DEFINE fs == <<Chunk(b, n)>>
<1>1. fs \in Seq(InBuf) /\ n \in Nat /\ n = Size(fs)
  BY ChunkIs
<1>2. /\ frags' = [frags EXCEPT ![m] = fs] /\ msglen' = [msglen EXCEPT ![m] = n]
      /\ undefined' \in BOOLEAN
  BY DEF Create, MsgInv
<1> HIDE DEF fs
<1>3. n <= Size(fs)
  BY <1>1
<1> QED
  BY <1>1, <1>2, <1>3, OneChanged

LEMMA AddHdrKeeps ==
  ASSUME MsgInv, NEW m \in Msgs, NEW b \in Bufs, NEW n \in 0 .. BufSize[b],
         msgAddHdr(m, b, n), careful' = careful
  PROVE  MsgInv'
<1> DEFINE fs == <<Chunk(b, n)>> \o frags[m]
           l == msglen[m] + n
<1>1. fs \in Seq(InBuf) /\ Size(fs) = n + Size(frags[m])
  <2>1. /\ <<Chunk(b, n)>> \in Seq(InBuf) /\ frags[m] \in Seq(InBuf)
        /\ Size(<<Chunk(b, n)>>) = n
    BY ChunkIs, ListsOf
  <2> QED
    BY <2>1, ConcatInBuf
<1>2. l \in Nat /\ l <= Size(fs) /\ (careful => l = Size(fs))
  <2>1. n \in Nat
    BY ChunkIs
  <2> HIDE DEF fs
  <2> QED
    BY <1>1, <2>1, ListsOf
<1>3. /\ frags' = [frags EXCEPT ![m] = fs] /\ msglen' = [msglen EXCEPT ![m] = l]
      /\ undefined' \in BOOLEAN
  BY DEF msgAddHdr, MsgInv
<1> HIDE DEF fs, l
<1> QED
  BY <1>1, <1>2, <1>3, OneChanged

LEMMA NothingMoved ==
  ASSUME MsgInv, frags' = frags, msglen' = msglen, careful' = careful, undefined' \in BOOLEAN
  PROVE  MsgInv'
BY DEF MsgInv, LenIsContent

LEMMA StripKeeps ==
  ASSUME MsgInv, NEW m \in Msgs, NEW n \in Nat, msgStripHdr(m, n), careful' = careful
  PROVE  MsgInv'
<1>1. CASE Refuse \/ RunsOff
  <2>1. frags' = frags /\ msglen' = msglen /\ undefined' \in BOOLEAN
    BY <1>1 DEF Refuse, RunsOff, MsgInv
  <2> QED
    BY <2>1, NothingMoved
<1>2. CASE n \in 1 .. msglen[m] /\ ~FrontRunsOff(frags[m], n)
           /\ frags' = [frags EXCEPT ![m] = AfterFront(@, n)]
           /\ msglen' = [msglen EXCEPT ![m] = @ - n]
           /\ UNCHANGED undefined
  <2> DEFINE fs == AfterFront(frags[m], n)
             l == msglen[m] - n
  <2>1. fs \in Seq(InBuf) /\ Size(fs) = Size(frags[m]) - n
    BY <1>2, ListsOf, AfterFrontIs
  <2>2. /\ frags' = [frags EXCEPT ![m] = fs] /\ msglen' = [msglen EXCEPT ![m] = l]
        /\ undefined' \in BOOLEAN
    BY <1>2 DEF MsgInv
  <2>3. l \in Nat /\ l <= Size(fs) /\ (careful => l = Size(fs))
    <3> HIDE DEF fs
    <3> QED
      BY <1>2, <2>1, ListsOf
  <2> HIDE DEF fs, l
  <2> QED
    BY <2>1, <2>2, <2>3, OneChanged
<1> QED
  BY <1>1, <1>2 DEF msgStripHdr

LEMMA SplitKeeps ==
  ASSUME MsgInv, NEW m \in Msgs, NEW s \in Msgs \ {m}, NEW n \in Nat,
         msgSplit(m, s, n), careful' = careful
  PROVE  MsgInv'
<1> DEFINE rem == msglen[m] - n
<1>1. CASE Refuse \/ RunsOff
  <2>1. frags' = frags /\ msglen' = msglen /\ undefined' \in BOOLEAN
    BY <1>1 DEF Refuse, RunsOff, MsgInv
  <2> QED
    BY <2>1, NothingMoved
<1>2. CASE /\ n <= msglen[m] /\ (careful => n > 0 /\ msglen[s] = 0)
           /\ ~BackRunsOff(frags[m], rem)
           /\ frags' = [frags EXCEPT ![m] = BeforeBack(@, rem),
                                     ![s] = Back(frags[m], rem) \o @]
           /\ msglen' = [msglen EXCEPT ![m] = n, ![s] = rem]
           /\ UNCHANGED undefined
  <2> DEFINE fs == BeforeBack(frags[m], rem)
             gs == Back(frags[m], rem) \o frags[s]
  <2>1. rem \in Nat
    BY <1>2, ListsOf
  <2>2. /\ fs \in Seq(InBuf) /\ Size(fs) = Size(frags[m]) - rem
        /\ Back(frags[m], rem) \in Seq(InBuf) /\ Size(Back(frags[m], rem)) = rem
    <3> HIDE DEF rem
    <3> QED
      BY <1>2, <2>1, ListsOf, BackIs
  <2>3. gs \in Seq(InBuf) /\ Size(gs) = rem + Size(frags[s])
    <3>1. frags[s] \in Seq(InBuf)
      BY ListsOf
    <3> HIDE DEF rem
    <3> QED
      BY <2>2, <3>1, ConcatInBuf
  <2>4. frags' = [frags EXCEPT ![m] = fs, ![s] = gs]
    BY <1>2 DEF MsgInv
  <2>5. n <= Size(fs) /\ (careful => n = Size(fs))
    <3>1. /\ msglen[m] \in Nat /\ Size(frags[m]) \in Nat
          /\ msglen[m] <= Size(frags[m]) /\ (careful => msglen[m] = Size(frags[m]))
      BY ListsOf
    <3> HIDE DEF fs
    <3>2. Size(fs) = Size(frags[m]) - rem
      BY <2>2
    <3> QED
      BY <3>1, <3>2
  <2>6. rem <= Size(gs) /\ (careful => rem = Size(gs))
    <3> HIDE DEF gs
    <3>1. Size(frags[s]) \in Nat /\ (careful => msglen[s] = Size(frags[s]))
      BY ListsOf
    <3> QED
      BY <1>2, <2>1, <2>3, <3>1
  <2>7. undefined' \in BOOLEAN
    BY <1>2 DEF MsgInv
  <2> HIDE DEF fs, gs, rem
  <2> QED
    BY <1>2, <2>1, <2>2, <2>3, <2>4, <2>5, <2>6, <2>7, TwoChanged
<1> QED
  BY <1>1, <1>2 DEF msgSplit

LEMMA JoinKeeps ==
  ASSUME MsgInv, NEW m \in Msgs, NEW s \in Msgs, msgJoin(m, s), careful' = careful
  PROVE  MsgInv'
<1> DEFINE fs == frags[m] \o frags[s]
           l == msglen[m] + msglen[s]
<1>1. /\ frags[m] \in Seq(InBuf) /\ frags[s] \in Seq(InBuf)
      /\ msglen[m] \in Nat /\ msglen[s] \in Nat
      /\ Size(frags[m]) \in Nat /\ Size(frags[s]) \in Nat
      /\ msglen[m] <= Size(frags[m]) /\ (careful => msglen[m] = Size(frags[m]))
      /\ msglen[s] <= Size(frags[s]) /\ (careful => msglen[s] = Size(frags[s]))
  BY ListsOf
<1>2. fs \in Seq(InBuf) /\ Size(fs) = Size(frags[m]) + Size(frags[s])
  BY <1>1, ConcatInBuf
<1>3. l \in Nat /\ l <= Size(fs) /\ (careful => l = Size(fs))
  <2> HIDE DEF fs
  <2> QED
    BY <1>1, <1>2
<1>4. /\ frags' = [frags EXCEPT ![m] = fs] /\ msglen' = [msglen EXCEPT ![m] = l]
      /\ undefined' \in BOOLEAN
  BY DEF msgJoin, MsgInv
<1> HIDE DEF fs, l
<1> QED
  BY <1>2, <1>3, <1>4, OneChanged

(* The calls of a step, whoever makes them. *)
LEMMA CallsOf ==
  ASSUME Next
  PROVE  \E m \in Msgs :
           \/ \E b \in Bufs : \E n \in 0 .. BufSize[b] : Create(m, b, n) \/ msgAddHdr(m, b, n)
           \/ \E n \in 0 .. msglen[m] + 1 :
                msgStripHdr(m, n) \/ \E s \in Msgs \ {m} : msgSplit(m, s, n)
           \/ \E s \in Msgs \ {m} : msgJoin(m, s)
BY Zenon DEF Next

LEMMA NextKeepsMsgInv == MsgInv /\ [Next]_vars => MsgInv'
<1> SUFFICES ASSUME MsgInv, [Next]_vars PROVE MsgInv'
  OBVIOUS
<1>1. CASE UNCHANGED vars
  BY <1>1, NothingMoved DEF vars, MsgInv
<1>2. CASE Next
  <2>1. PICK m \in Msgs :
          \/ \E b \in Bufs : \E n \in 0 .. BufSize[b] : Create(m, b, n) \/ msgAddHdr(m, b, n)
          \/ \E n \in 0 .. msglen[m] + 1 :
               msgStripHdr(m, n) \/ \E s \in Msgs \ {m} : msgSplit(m, s, n)
          \/ \E s \in Msgs \ {m} : msgJoin(m, s)
    BY <1>2, CallsOf
  <2>2. careful' = careful
    BY <1>2 DEF Next
  <2>3. \A n \in 0 .. msglen[m] + 1 : n \in Nat
    OBVIOUS
  <2> QED
    BY <2>1, <2>2, <2>3, CreateKeeps, AddHdrKeeps, StripKeeps, SplitKeeps, JoinKeeps
<1> QED
  BY <1>1, <1>2

LEMMA MsgInvariant == Spec => []MsgInv
BY InitEstablishesMsgInv, NextKeepsMsgInv, PTL DEF Spec

(* No sequence of calls makes a pointer, with its size, reach past the     *)
(* buffer it came from, whatever the lengths of buffers and lists.         *)
THEOREM PointersStayInBuffers == Spec => []FragmentsInBounds
<1>1. MsgInv => FragmentsInBounds
  <2> SUFFICES ASSUME MsgInv, NEW m \in Msgs, NEW i \in DOMAIN frags[m]
               PROVE  LET f == frags[m][i]
                      IN  f.buf \in Bufs /\ f.off >= 0 /\ f.len >= 0 /\ f.off + f.len <= BufSize[f.buf]
    BY DEF FragmentsInBounds
  <2>1. frags[m][i] \in InBuf
    BY ListsOf
  <2> QED
    BY <2>1 DEF InBuf, Frag
<1> QED
  BY <1>1, MsgInvariant, PTL

(* A list never holds fewer bytes than the length says, and to careful     *)
(* callers msgFlat writes exactly msgLen bytes.                            *)
THEOREM LengthIsTrue == Spec => []LenIsContent
<1>1. MsgInv => LenIsContent
  BY DEF MsgInv
<1> QED
  BY <1>1, MsgInvariant, PTL

(* Where a call runs off its list.                                         *)
LEMMA StripRunsOff ==
  ASSUME MsgInv, NEW m \in Msgs, NEW n \in Nat, undefined = FALSE,
         msgStripHdr(m, n), undefined' = TRUE
  PROVE  ~careful /\ n = Size(frags[m]) /\ n \in 1 .. msglen[m]
<1>1. n \in 1 .. msglen[m] /\ (careful => n < msglen[m]) /\ FrontRunsOff(frags[m], n)
  BY DEF msgStripHdr, Refuse
<1>2. Size(frags[m]) <= n
  BY <1>1, ListsOf, FrontCut
<1> QED
  BY <1>1, <1>2, ListsOf

LEMMA SplitRunsOff ==
  ASSUME MsgInv, NEW m \in Msgs, NEW s \in Msgs \ {m}, NEW n \in Nat, undefined = FALSE,
         msgSplit(m, s, n), undefined' = TRUE
  PROVE  ~careful /\ n = 0 /\ Size(frags[m]) = msglen[m]
<1> DEFINE rem == msglen[m] - n
<1>1. n <= msglen[m] /\ (careful => n > 0) /\ BackRunsOff(frags[m], rem)
  BY DEF msgSplit, Refuse
<1>2. rem \in Nat
  BY <1>1, ListsOf
<1>3. Size(frags[m]) <= rem
  <2> HIDE DEF rem
  <2> QED
    BY <1>1, <1>2, ListsOf, BackCut
<1> QED
  BY <1>1, <1>3, ListsOf

(* A call runs off a list only if a careless caller asks for every byte of *)
(* it: a strip of them all or a split at 0.                                *)
THEOREM RunsOffOnlyWhenEmptied == Spec => UndefinedOnlyIfEmptied
<1> DEFINE Emptied ==
      \E m \in Msgs :
        \/ Size(frags[m]) \in 1 .. msglen[m] /\ msgStripHdr(m, Size(frags[m]))
        \/ \E s \in Msgs \ {m} : Size(frags[m]) = msglen[m] /\ msgSplit(m, s, 0)
<1>1. MsgInv /\ [Next]_vars => [undefined' => ~careful /\ Emptied]_vars
  <2> SUFFICES ASSUME MsgInv, Next, undefined' PROVE ~careful /\ Emptied
    OBVIOUS
  <2>1. undefined = FALSE /\ undefined' = TRUE
    <3>1. undefined = FALSE
      BY DEF Next, MsgInv
    <3>2. undefined' \in BOOLEAN
      BY NextKeepsMsgInv DEF MsgInv
    <3> QED
      BY <3>1, <3>2
  <2>2. PICK m \in Msgs :
          \/ \E b \in Bufs : \E n \in 0 .. BufSize[b] : Create(m, b, n) \/ msgAddHdr(m, b, n)
          \/ \E n \in 0 .. msglen[m] + 1 :
               msgStripHdr(m, n) \/ \E s \in Msgs \ {m} : msgSplit(m, s, n)
          \/ \E s \in Msgs \ {m} : msgJoin(m, s)
    BY CallsOf
  <2>3. PICK n \in 0 .. msglen[m] + 1 :
          msgStripHdr(m, n) \/ \E s \in Msgs \ {m} : msgSplit(m, s, n)
    BY <2>1, <2>2 DEF Create, msgAddHdr, msgJoin
  <2>4. n \in Nat
    OBVIOUS
  <2>5. CASE msgStripHdr(m, n)
    <3>1. ~careful /\ n = Size(frags[m]) /\ n \in 1 .. msglen[m]
      BY <2>1, <2>4, <2>5, StripRunsOff
    <3> QED
      BY <2>5, <3>1
  <2>6. CASE \E s \in Msgs \ {m} : msgSplit(m, s, n)
    <3>1. PICK s \in Msgs \ {m} : msgSplit(m, s, n)
      BY <2>6
    <3>2. ~careful /\ n = 0 /\ Size(frags[m]) = msglen[m]
      BY <2>1, <2>4, <3>1, SplitRunsOff
    <3> QED
      BY <3>1, <3>2
  <2> QED
    BY <2>3, <2>5, <2>6
<1> QED
  BY <1>1, MsgInvariant, PTL DEF Spec, UndefinedOnlyIfEmptied

-----------------------------------------------------------------------------
(***************************************************************************)
(* A message is a sequence of bytes.                                       *)
(***************************************************************************)

(* What the bytes of m are to the users. *)
Content == [m \in Msgs |-> IF careful /\ m \notin spent THEN Flat(frags[m]) ELSE <<>>]

Seen == IF careful THEN answer ELSE Silent

LEMMA ContentOf ==
  ASSUME MsgInv, careful, NEW m \in Msgs, m \notin spent
  PROVE  /\ Content[m] = Flat(frags[m]) /\ Content[m] \in Seq(Byte)
         /\ Len(Content[m]) = msglen[m] /\ Size(frags[m]) = msglen[m] /\ msglen[m] \in Nat
<1>1. frags[m] \in Seq(InBuf) /\ Size(frags[m]) = msglen[m] /\ msglen[m] \in Nat
  BY ListsOf
<1>2. Flat(frags[m]) \in Seq(Byte) /\ Len(Flat(frags[m])) = Size(frags[m])
  BY <1>1, SeqInBuf
<1> QED
  BY <1>1, <1>2 DEF Content

(* The content after a call that changes one list, or two. *)
LEMMA ContentOne ==
  ASSUME MsgInv, careful, careful' = careful, NEW m \in Msgs, NEW fs,
         frags' = [frags EXCEPT ![m] = fs],
         \A x \in Msgs : x \in spent' <=> x \in spent /\ x # m
  PROVE  Content' = [Content EXCEPT ![m] = Flat(fs)]
<1>1. \A x \in Msgs : frags'[x] = IF x = m THEN fs ELSE frags[x]
  BY DEF MsgInv
<1>2. Content' = [x \in Msgs |-> IF x \notin spent' THEN Flat(frags'[x]) ELSE <<>>]
  BY DEF Content
<1>3. \A x \in Msgs : (IF x \notin spent' THEN Flat(frags'[x]) ELSE <<>>)
                       = IF x = m THEN Flat(fs) ELSE Content[x]
  BY <1>1 DEF Content
<1>4. [Content EXCEPT ![m] = Flat(fs)] = [x \in Msgs |-> IF x = m THEN Flat(fs) ELSE Content[x]]
  BY DEF Content
<1> QED
  BY <1>2, <1>3, <1>4

Changed(m, x, s, y) == [Content EXCEPT ![m] = x, ![s] = y]

LEMMA ContentTwo ==
  ASSUME MsgInv, careful, careful' = careful, NEW m \in Msgs, NEW s \in Msgs \ {m},
         m \notin spent, NEW fs, NEW gs, NEW c,
         \A x \in Msgs : frags'[x] = IF x = s THEN gs ELSE IF x = m THEN fs ELSE frags[x],
         \/ spent' = spent /\ s \notin spent /\ c = Flat(gs)
         \/ spent' = spent \cup {s} /\ c = <<>>
  PROVE  Content' = Changed(m, Flat(fs), s, c)
<1> DEFINE new == [x \in Msgs |-> IF x = s THEN c ELSE IF x = m THEN Flat(fs) ELSE Content[x]]
<1>1. Content' = [x \in Msgs |-> IF x \notin spent' THEN Flat(frags'[x]) ELSE <<>>]
  BY DEF Content
<1>2. ASSUME NEW x \in Msgs
      PROVE  (IF x \notin spent' THEN Flat(frags'[x]) ELSE <<>>) = new[x]
  <2>1. CASE x = s
    <3>1. frags'[x] = gs
      BY <2>1
    <3> QED
      BY <2>1, <3>1
  <2>2. CASE x = m
    <3>1. frags'[x] = fs /\ x \notin spent'
      BY <2>2
    <3> QED
      BY <2>2, <3>1
  <2>3. CASE x # m /\ x # s
    <3>1. frags'[x] = frags[x] /\ (x \in spent' <=> x \in spent)
      BY <2>3
    <3>2. Content[x] = IF x \notin spent THEN Flat(frags[x]) ELSE <<>>
      BY DEF Content
    <3> QED
      BY <2>3, <3>1, <3>2
  <2> QED
    BY <2>1, <2>2, <2>3
<1>3. Content' = new
  BY <1>1, <1>2
<1>4. DOMAIN Content = Msgs
  BY DEF Content
<1>5. new = [Content EXCEPT ![m] = Flat(fs), ![s] = c]
  BY <1>4
<1> QED
  BY <1>3, <1>5, Zenon DEF Changed

(* The bytes the users pass in. *)
Given == UNION {{Flat(<<Chunk(b, n)>>) : n \in 0 .. BufSize[b]} : b \in Bufs}

LEMMA PromiseInit == Init => Promise!Init
<1> SUFFICES ASSUME Init PROVE Promise!Init
  OBVIOUS
<1>1. Content = [m \in Msgs |-> <<>>]
  BY FlatEmpty DEF Init, Content
<1>2. Seen = Silent
  BY DEF Init, Seen
<1> QED
  BY <1>1, <1>2 DEF Promise!Init, Promise!Silent, Content, Seen, Silent

LEMMA PromiseCreate ==
  ASSUME MsgInv, careful, careful' = careful,
         NEW m \in Msgs, NEW b \in Bufs, NEW n \in 0 .. BufSize[b], Create(m, b, n),
         spent' = spent \ {m}
  PROVE  Promise!Create(m, Flat(<<Chunk(b, n)>>))
<1> DEFINE fs == <<Chunk(b, n)>>
<1>1. frags' = [frags EXCEPT ![m] = fs] /\ Seen' = Silent
  BY DEF Create, Seen, Silent
<1> HIDE DEF fs
<1>2. Content' = [Content EXCEPT ![m] = Flat(fs)]
  BY <1>1, ContentOne
<1> QED
  BY <1>1, <1>2 DEF Promise!Create, Promise!Silent, Content, Seen, Silent, fs

LEMMA PromiseAddHdr ==
  ASSUME MsgInv, careful, careful' = careful,
         NEW m \in Msgs, NEW b \in Bufs, NEW n \in 0 .. BufSize[b], msgAddHdr(m, b, n),
         m \notin spent, spent' = spent
  PROVE  Promise!AddHdr(m, Flat(<<Chunk(b, n)>>))
<1> DEFINE fs == <<Chunk(b, n)>> \o frags[m]
<1>1. frags' = [frags EXCEPT ![m] = fs] /\ Seen' = Silent
  BY DEF msgAddHdr, Seen, Silent, MsgInv
<1>2. Flat(fs) = Flat(<<Chunk(b, n)>>) \o Content[m]
  <2>1. <<Chunk(b, n)>> \in Seq(Frag) /\ frags[m] \in Seq(Frag)
    BY ChunkIs, ListsOf
  <2>2. Flat(fs) = Flat(<<Chunk(b, n)>>) \o Flat(frags[m])
    BY <2>1, FlatConcat
  <2> QED
    BY <2>2, ContentOf
<1> HIDE DEF fs
<1>3. Content' = [Content EXCEPT ![m] = Flat(<<Chunk(b, n)>>) \o Content[m]]
  <2>1. Content' = [Content EXCEPT ![m] = Flat(fs)]
    BY <1>1, ContentOne
  <2> QED
    BY <1>2, <2>1, Zenon
<1> QED
  BY <1>1, <1>3 DEF Promise!AddHdr, Promise!Silent, Content, Seen, Silent

LEMMA PromiseRefuse ==
  ASSUME careful, careful' = careful, spent' = spent, Refuse
  PROVE  Seen' = Refused /\ Content' = Content
BY DEF Refuse, Seen, Content

LEMMA PromiseStrip ==
  ASSUME MsgInv, careful, careful' = careful, NEW m \in Msgs, NEW n \in Nat, msgStripHdr(m, n),
         m \notin spent, spent' = spent
  PROVE  Promise!Strip(m, n)
<1>1. CASE (n = 0 \/ n > msglen[m]) /\ Refuse
  <2>1. n \notin 1 .. Len(Content[m])
    BY <1>1, ContentOf
  <2>2. Seen' = Refused /\ Content' = Content
    BY <1>1, PromiseRefuse
  <2> QED
    BY <2>1, <2>2 DEF Promise!Strip, Promise!Refused, Content, Seen, Refused
<1>2. CASE n \in 1 .. msglen[m] /\ n < msglen[m] /\ FrontRunsOff(frags[m], n)
  <2>1. Size(frags[m]) <= n
    BY <1>2, ListsOf, FrontCut
  <2> QED
    BY <1>2, <2>1, ContentOf
<1>3. CASE /\ n \in 1 .. msglen[m] /\ ~FrontRunsOff(frags[m], n)
           /\ answer' = [ok |-> TRUE, bytes |-> SubSeq(Flat(frags[m]), 1, n)]
           /\ frags' = [frags EXCEPT ![m] = AfterFront(@, n)]
  <2> DEFINE fs == AfterFront(frags[m], n)
  <2>1. Flat(fs) = SubSeq(Content[m], n + 1, Len(Content[m]))
    <3>1. Flat(fs) = SubSeq(Flat(frags[m]), n + 1, Len(Flat(frags[m])))
      BY <1>3, ListsOf, AfterFrontIs
    <3>2. Content[m] = Flat(frags[m])
      BY ContentOf
    <3> QED
      BY <3>1, <3>2, Zenon
  <2>2. frags' = [frags EXCEPT ![m] = fs]
    BY <1>3 DEF MsgInv
  <2> HIDE DEF fs
  <2>3. Content' = [Content EXCEPT ![m] = SubSeq(Content[m], n + 1, Len(Content[m]))]
    <3>1. Content' = [Content EXCEPT ![m] = Flat(fs)]
      BY <2>2, ContentOne
    <3> QED
      BY <2>1, <3>1, Zenon
  <2>4. n \in 1 .. Len(Content[m]) /\ Seen' = [ok |-> TRUE, bytes |-> SubSeq(Content[m], 1, n)]
    BY <1>3, ContentOf DEF Seen
  <2> QED
    BY <2>3, <2>4 DEF Promise!Strip, Content, Seen, Silent
<1> QED
  BY <1>1, <1>2, <1>3 DEF msgStripHdr

LEMMA PromiseSplit ==
  ASSUME MsgInv, careful, careful' = careful, NEW m \in Msgs, NEW s \in Msgs \ {m}, NEW n \in Nat,
         msgSplit(m, s, n), m \notin spent, s \notin spent, spent' = spent
  PROVE  Promise!Split(m, s, n)
<1> DEFINE rem == msglen[m] - n
<1>1. CASE n > msglen[m] /\ Refuse
  <2>1. n > Len(Content[m])
    BY <1>1, ContentOf
  <2>2. Seen' = Refused /\ Content' = Content
    BY <1>1, PromiseRefuse
  <2> QED
    BY <2>1, <2>2 DEF Promise!Split, Promise!Refused, Content, Seen, Refused
<1>2. ASSUME n <= msglen[m]
      PROVE  rem \in Nat
  BY <1>2, ListsOf
<1>3. CASE n <= msglen[m] /\ n > 0 /\ BackRunsOff(frags[m], rem)
  <2>1. Size(frags[m]) <= rem
    <3> HIDE DEF rem
    <3> QED
      BY <1>2, <1>3, ListsOf, BackCut
  <2> QED
    BY <1>3, <2>1, ContentOf
<1>4. CASE /\ n <= msglen[m] /\ msglen[s] = 0 /\ ~BackRunsOff(frags[m], rem)
           /\ answer' = Silent
           /\ frags' = [frags EXCEPT ![m] = BeforeBack(@, rem),
                                     ![s] = Back(frags[m], rem) \o @]
  <2> DEFINE fs == BeforeBack(frags[m], rem)
             gs == Back(frags[m], rem) \o frags[s]
  <2>1. rem \in Nat /\ Size(frags[m]) - rem = n
    <3>1. msglen[m] \in Nat /\ Size(frags[m]) = msglen[m]
      BY ContentOf
    <3> QED
      BY <1>4, <3>1
  <2>2. /\ Flat(fs) = SubSeq(Flat(frags[m]), 1, Size(frags[m]) - rem)
        /\ Flat(Back(frags[m], rem))
             = SubSeq(Flat(frags[m]), Size(frags[m]) - rem + 1, Len(Flat(frags[m])))
        /\ Back(frags[m], rem) \in Seq(InBuf)
    <3> HIDE DEF rem
    <3> QED
      BY <1>4, <2>1, ListsOf, BackIs
  <2>3. Flat(fs) = SubSeq(Content[m], 1, n)
    BY <2>1, <2>2, ContentOf
  <2>4. Content[s] = <<>> /\ Flat(frags[s]) = <<>>
    <3>1. Content[s] \in Seq(Byte) /\ Len(Content[s]) = 0 /\ Content[s] = Flat(frags[s])
      BY <1>4, ContentOf
    <3> QED
      BY <3>1, EmptySeq
  <2>5. Flat(gs) = SubSeq(Content[m], n + 1, Len(Content[m]))
    <3>1. Back(frags[m], rem) \in Seq(Frag) /\ Flat(Back(frags[m], rem)) \in Seq(Byte)
      BY <2>2, SeqInBuf
    <3>2. frags[s] \in Seq(Frag)
      BY ListsOf
    <3>3. Flat(gs) = Flat(Back(frags[m], rem)) \o Flat(frags[s])
      BY <3>1, <3>2, FlatConcat
    <3>4. Flat(gs) = Flat(Back(frags[m], rem))
      BY <2>4, <3>1, <3>3, ConcatEmptySeq
    <3>5. Content[m] = Flat(frags[m])
      BY ContentOf
    <3> QED
      BY <2>1, <2>2, <3>4, <3>5, Zenon
  <2>6. frags' = [frags EXCEPT ![m] = fs, ![s] = gs]
    BY <1>4 DEF MsgInv
  <2>9. fs \in Seq(InBuf) /\ gs \in Seq(InBuf)
    <3>1. frags[s] \in Seq(InBuf)
      BY ListsOf
    <3>2. fs \in Seq(InBuf) /\ Back(frags[m], rem) \in Seq(InBuf)
      <4> HIDE DEF rem
      <4> QED
        BY <1>4, <2>1, ListsOf, BackIs
    <3> QED
      BY <3>1, <3>2, ConcatInBuf
  <2> HIDE DEF fs, gs, rem
  <2>7. Content' = [Content EXCEPT ![m] = SubSeq(Content[m], 1, n),
                                   ![s] = SubSeq(Content[m], n + 1, Len(Content[m]))]
    <3>1. Content' = Changed(m, Flat(fs), s, Flat(gs))
      <4>1. \A x \in Msgs : frags'[x] = IF x = s THEN gs ELSE IF x = m THEN fs ELSE frags[x]
        BY <2>6 DEF MsgInv
      <4> QED
        BY <4>1, ContentTwo
    <3>2. Content' = [Content EXCEPT ![m] = Flat(fs), ![s] = Flat(gs)]
      BY <3>1, Zenon DEF Changed
    <3> QED
      BY <2>3, <2>5, <3>2, Zenon
  <2>8. n <= Len(Content[m]) /\ Seen' = Silent
    BY <1>4, ContentOf DEF Seen, Silent
  <2> QED
    BY <2>4, <2>7, <2>8 DEF Promise!Split, Promise!Silent, Content, Seen, Silent
<1> QED
  BY <1>1, <1>3, <1>4 DEF msgSplit

LEMMA PromiseJoin ==
  ASSUME MsgInv, careful, careful' = careful, NEW m \in Msgs, NEW s \in Msgs \ {m}, msgJoin(m, s),
         m \notin spent, s \notin spent, spent' = spent \cup {s}
  PROVE  Promise!Join(m, s)
<1> DEFINE fs == frags[m] \o frags[s]
<1>1. frags' = [frags EXCEPT ![m] = fs] /\ Seen' = Silent
  BY DEF msgJoin, Seen, Silent, MsgInv
<1>2. Flat(fs) = Content[m] \o Content[s]
  <2>1. frags[m] \in Seq(Frag) /\ frags[s] \in Seq(Frag)
    BY ListsOf
  <2>2. Flat(fs) = Flat(frags[m]) \o Flat(frags[s])
    BY <2>1, FlatConcat
  <2> QED
    BY <2>2, ContentOf
<1> HIDE DEF fs
<1>3. Content' = [Content EXCEPT ![m] = Content[m] \o Content[s], ![s] = <<>>]
  <2>1. \A x \in Msgs : frags'[x] = IF x = s THEN frags[s] ELSE IF x = m THEN fs ELSE frags[x]
    BY <1>1 DEF MsgInv
  <2>2. Content' = Changed(m, Flat(fs), s, <<>>)
    BY <2>1, ContentTwo
  <2> QED
    BY <1>2, <2>2, Zenon DEF Changed
<1> QED
  BY <1>1, <1>3 DEF Promise!Join, Promise!Silent, Content, Seen, Silent

(* Every call is one of the operations on byte sequences.                  *)
LEMMA PromiseNext == MsgInv /\ [Next]_vars => [Promise!Next]_(Promise!vars)
<1> SUFFICES ASSUME MsgInv, [Next]_vars PROVE Promise!Next \/ Promise!vars' = Promise!vars
  OBVIOUS
<1>1. CASE UNCHANGED vars
  <2>1. Content' = Content /\ Seen' = Seen
    BY <1>1 DEF vars, Content, Seen, Silent
  <2> QED
    BY <2>1 DEF Promise!vars, Content, Seen, Silent
<1>2. CASE Next /\ ~careful
  <2>1. careful' = careful
    BY <1>2 DEF Next
  <2>2. Content' = Content /\ Seen' = Seen
    BY <1>2, <2>1 DEF Content, Seen, Silent
  <2> QED
    BY <2>2 DEF Promise!vars, Content, Seen, Silent
<1>3. CASE Next /\ careful
  <2>2. careful' = careful
    BY <1>3 DEF Next
  <2>3. CASE \E m \in Msgs, b \in Bufs : \E n \in 0 .. BufSize[b] :
               Create(m, b, n) /\ spent' = spent \ {m}
    <3>1. PICK m \in Msgs, b \in Bufs : \E n \in 0 .. BufSize[b] :
               Create(m, b, n) /\ spent' = spent \ {m}
      BY <2>3
    <3>2. PICK n \in 0 .. BufSize[b] : Create(m, b, n) /\ spent' = spent \ {m}
      BY <3>1
    <3>3. Promise!Create(m, Flat(<<Chunk(b, n)>>))
      BY <1>3, <2>2, <3>2, PromiseCreate
    <3>4. \E c \in Given : Promise!Create(m, c)
      BY <3>3 DEF Given
    <3> QED
      BY <3>4 DEF Promise!Next, Given
  <2>4. ASSUME NEW m \in Msgs \ spent, NEW b \in Bufs, NEW n \in 0 .. BufSize[b],
               msgAddHdr(m, b, n), spent' = spent
        PROVE  Promise!Next
    <3>1. Promise!AddHdr(m, Flat(<<Chunk(b, n)>>))
      BY <1>3, <2>2, <2>4, PromiseAddHdr
    <3>2. \E c \in Given : Promise!AddHdr(m, c)
      BY <3>1 DEF Given
    <3> QED
      BY <3>2 DEF Promise!Next, Given
  <2>5. ASSUME NEW m \in Msgs \ spent, NEW n \in 0 .. msglen[m] + 1,
               msgStripHdr(m, n) \/ \E s \in Msgs \ (spent \cup {m}) : msgSplit(m, s, n),
               spent' = spent
        PROVE  Promise!Next
    <3>1. n \in Nat /\ n \in 0 .. Len(Content[m]) + 1
      BY <1>3, ContentOf
    <3>2. Promise!Strip(m, n) \/ \E s \in Msgs \ {m} : Promise!Split(m, s, n)
      <4>1. CASE msgStripHdr(m, n)
        BY <1>3, <2>2, <2>5, <3>1, <4>1, PromiseStrip
      <4>2. CASE \E s \in Msgs \ (spent \cup {m}) : msgSplit(m, s, n)
        <5>1. PICK s \in Msgs \ (spent \cup {m}) : msgSplit(m, s, n)
          BY <4>2
        <5>2. Promise!Split(m, s, n)
          BY <1>3, <2>2, <2>5, <3>1, <5>1, PromiseSplit
        <5> QED
          BY <5>2
      <4> QED
        BY <2>5, <4>1, <4>2
    <3> QED
      BY <3>1, <3>2 DEF Promise!Next, Content
  <2>6. ASSUME NEW m \in Msgs \ spent, NEW s \in Msgs \ (spent \cup {m}), msgJoin(m, s),
               spent' = IF careful THEN spent \cup {s} ELSE spent
        PROVE  Promise!Next
    <3>1. spent' = spent \cup {s}
      BY <1>3, <2>6
    <3>2. Promise!Join(m, s)
      BY <1>3, <2>2, <2>6, <3>1, PromiseJoin
    <3> QED
      BY <3>2 DEF Promise!Next
  <2> QED
    BY <1>3, <2>3, <2>4, <2>5, <2>6, Zenon DEF Next
<1> QED
  BY <1>1, <1>2, <1>3

(* To careful callers a message is the sequence of bytes of MessageSeq:    *)
(* headers, splits and joins do to the lists of pointers what the same     *)
(* calls would do to the bytes.                                            *)
THEOREM MessageIsASequence == Spec => ImplementsMessageSeq
<1>1. Init => Promise!Init
  BY PromiseInit
<1>2. MsgInv /\ [Next]_vars => [Promise!Next]_(Promise!vars)
  BY PromiseNext
<1> QED
  BY <1>1, <1>2, MsgInvariant, PTL DEF Spec, ImplementsMessageSeq, Promise!Spec
=============================================================================
