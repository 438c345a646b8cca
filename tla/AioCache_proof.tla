--------------------------- MODULE AioCache_proof ---------------------------
(* Theorems about the caches of an aio, for every size of the buffers,      *)
(* every number of bytes and however they come in pieces.                   *)
EXTENDS AioCache, Occurrences

-----------------------------------------------------------------------------
(***************************************************************************)
(* Flattening.  FlattenSeq is a recursive function; that there is one, and *)
(* what it computes, is shown by induction over its steps.                 *)
(***************************************************************************)
Steps(ss, k, g) == g = [i \in 1 .. k |-> IF i = 1 THEN ss[i] ELSE g[i - 1] \o ss[i]]

LEMMA StepsExist ==
  ASSUME NEW ss, NEW k \in Nat
  PROVE  \E g : Steps(ss, k, g)
<1> DEFINE N == {n \in Nat : \E g : Steps(ss, n, g)}
<1>1. 0 \in N
  <2> DEFINE g == [i \in 1 .. 0 |-> ss[i]]
  <2>1. Steps(ss, 0, g)
    BY DEF Steps
  <2> QED BY <2>1
<1>2. ASSUME NEW n \in Nat, n \in N PROVE n + 1 \in N
  <2>1. PICK g : Steps(ss, n, g)
    BY <1>2
  <2> DEFINE h == [i \in 1 .. n + 1 |-> IF i <= n THEN g[i] ELSE IF i = 1 THEN ss[i] ELSE g[i - 1] \o ss[i]]
  <2>2. \A i \in 1 .. n : g[i] = IF i = 1 THEN ss[i] ELSE g[i - 1] \o ss[i]
    BY <2>1 DEF Steps
  <2>3. ASSUME NEW i \in 1 .. n + 1 PROVE h[i] = IF i = 1 THEN ss[i] ELSE h[i - 1] \o ss[i]
    <3>1. i # 1 => i - 1 \in 1 .. n + 1 /\ i - 1 <= n
      OBVIOUS
    <3>2. i # 1 => h[i - 1] = g[i - 1]
      BY <3>1
    <3>3. h[i] = IF i <= n THEN g[i] ELSE IF i = 1 THEN ss[i] ELSE g[i - 1] \o ss[i]
      OBVIOUS
    <3>4. i <= n => g[i] = IF i = 1 THEN ss[i] ELSE g[i - 1] \o ss[i]
      BY <2>2
    <3> HIDE DEF h
    <3> QED BY <3>2, <3>3, <3>4
  <2>4. h = [i \in 1 .. n + 1 |-> h[i]]
    OBVIOUS
  <2> HIDE DEF h
  <2>5. Steps(ss, n + 1, h)
    BY <2>3, <2>4 DEF Steps
  <2> QED BY <2>5
<1> HIDE DEF N
<1>3. Nat \subseteq N
  BY <1>1, <1>2, SetInduction
<1> QED BY <1>3 DEF N

(* What its steps compute.                                                  *)
Flattened(ss, k, g) ==
    /\ k > 0 => g[1] = ss[1]
    /\ \A i \in 1 .. k - 1 : g[i + 1] = g[i] \o ss[i + 1]

LEMMA StepsFlattened ==
  ASSUME NEW ss, NEW k \in Nat, NEW g, Steps(ss, k, g)
  PROVE  Flattened(ss, k, g)
<1>1. k > 0 => g[1] = ss[1]
  BY DEF Steps
<1>2. ASSUME NEW i \in 1 .. k - 1 PROVE g[i + 1] = g[i] \o ss[i + 1]
  <2>1. i + 1 \in 1 .. k /\ i + 1 # 1 /\ (i + 1) - 1 = i
    OBVIOUS
  <2>2. g[i + 1] = IF i + 1 = 1 THEN ss[i + 1] ELSE g[(i + 1) - 1] \o ss[i + 1]
    BY <2>1 DEF Steps
  <2> QED BY <2>1, <2>2
<1> QED BY <1>1, <1>2 DEF Flattened

LEMMA FlattenSteps ==
  ASSUME NEW ss, Len(ss) \in Nat \ {0}
  PROVE  \E g : Flattened(ss, Len(ss), g) /\ FlattenSeq(ss) = g[Len(ss)]
<1> DEFINE f == CHOOSE g : Steps(ss, Len(ss), g)
<1>1. Steps(ss, Len(ss), f)
  BY StepsExist
<1>2. FlattenSeq(ss) = f[Len(ss)]
  BY DEF FlattenSeq, Steps
<1> HIDE DEF f
<1>3. Flattened(ss, Len(ss), f)
  BY <1>1, StepsFlattened
<1> QED BY <1>2, <1>3

LEMMA FlattenedAgree ==
  ASSUME NEW ss, NEW tt, NEW k \in Nat, NEW l \in Nat, NEW g, NEW h, k <= l,
         Flattened(ss, k, g), Flattened(tt, l, h), \A i \in 1 .. k : ss[i] = tt[i]
  PROVE  \A i \in 1 .. k : g[i] = h[i]
<1> DEFINE N == {n \in Nat : n + 1 \in 1 .. k => g[n + 1] = h[n + 1]}
<1>3. 0 \in N
  BY DEF Flattened
<1>4. ASSUME NEW n \in Nat, n \in N PROVE n + 1 \in N
  <2> SUFFICES ASSUME (n + 1) + 1 \in 1 .. k PROVE g[(n + 1) + 1] = h[(n + 1) + 1]
    OBVIOUS
  <2>1. n + 1 \in 1 .. k - 1 /\ n + 1 \in 1 .. l - 1 /\ n + 1 \in 1 .. k
    OBVIOUS
  <2>2. g[n + 1] = h[n + 1]
    BY <1>4, <2>1
  <2>3. g[(n + 1) + 1] = g[n + 1] \o ss[(n + 1) + 1]
    BY <2>1 DEF Flattened
  <2>4. h[(n + 1) + 1] = h[n + 1] \o tt[(n + 1) + 1]
    BY <2>1 DEF Flattened
  <2> QED BY <2>2, <2>3, <2>4
<1> HIDE DEF N
<1>5. Nat \subseteq N
  BY <1>3, <1>4, SetInduction
<1>6. ASSUME NEW i \in 1 .. k PROVE g[i] = h[i]
  <2>1. i - 1 \in Nat /\ (i - 1) + 1 = i
    OBVIOUS
  <2>2. i - 1 \in N
    BY <1>5, <2>1
  <2> QED BY <2>1, <2>2 DEF N
<1> QED BY <1>6

LEMMA FlattenOne ==
  ASSUME NEW t
  PROVE  FlattenSeq(<<t>>) = t /\ FlattenSeq(<<>>) = <<>>
<1>1. FlattenSeq(<<>>) = <<>>
  BY DEF FlattenSeq
<1> DEFINE tt == <<t>>
<1>2. Len(tt) = 1 /\ Len(tt) \in Nat \ {0} /\ tt[1] = t
  OBVIOUS
<1> HIDE DEF tt
<1>3. PICK g : Flattened(tt, 1, g) /\ FlattenSeq(tt) = g[1]
  BY <1>2, FlattenSteps
<1>4. g[1] = tt[1]
  BY <1>3 DEF Flattened
<1> QED BY <1>1, <1>2, <1>3, <1>4 DEF tt

LEMMA FlattenAppend ==
  ASSUME NEW S, NEW ss \in Seq(S), NEW t \in S, Len(ss) # 0
  PROVE  FlattenSeq(Append(ss, t)) = FlattenSeq(ss) \o t
<1> DEFINE tt == Append(ss, t)
           k == Len(ss)
<1>1. k \in Nat \ {0} /\ Len(tt) = k + 1 /\ (\A i \in 1 .. k : ss[i] = tt[i]) /\ tt[k + 1] = t
  OBVIOUS
<1> HIDE DEF tt, k
<1>2. PICK g : Flattened(ss, k, g) /\ FlattenSeq(ss) = g[k]
  BY <1>1, FlattenSteps DEF k
<1>3. PICK h : Flattened(tt, k + 1, h) /\ FlattenSeq(tt) = h[k + 1]
  BY <1>1, FlattenSteps
<1>4. g[k] = h[k]
  BY <1>1, <1>2, <1>3, FlattenedAgree
<1>5. h[k + 1] = h[k] \o tt[k + 1]
  <2>1. k \in 1 .. (k + 1) - 1
    BY <1>1
  <2> QED BY <1>3, <2>1 DEF Flattened
<1> QED BY <1>1, <1>2, <1>3, <1>4, <1>5 DEF tt

LEMMA FlattenMore ==
  ASSUME NEW S, NEW ss \in Seq(Seq(S)), NEW t \in Seq(S)
  PROVE  FlattenSeq(Append(ss, t)) = FlattenSeq(ss) \o t
<1>1. CASE Len(ss) = 0
  <2>1. ss = <<>>
    BY <1>1, EmptySeq
  <2>2. Append(<<>>, t) = <<t>>
    OBVIOUS
  <2>3. FlattenSeq(Append(ss, t)) = t /\ FlattenSeq(ss) = <<>>
    BY <2>1, <2>2, FlattenOne
  <2> QED BY <2>3, ConcatEmptySeq
<1>2. CASE Len(ss) # 0
  BY <1>2, FlattenAppend
<1> QED BY <1>1, <1>2

LEMMA FlattenType ==
  ASSUME NEW S, NEW ss \in Seq(Seq(S))
  PROVE  FlattenSeq(ss) \in Seq(S)
<1> DEFINE N == {n \in Nat : \A u \in Seq(Seq(S)) : Len(u) = n => FlattenSeq(u) \in Seq(S)}
<1>1. 0 \in N
  <2> SUFFICES ASSUME NEW u \in Seq(Seq(S)), Len(u) = 0 PROVE FlattenSeq(u) \in Seq(S)
    OBVIOUS
  <2>1. u = <<>>
    BY EmptySeq
  <2> QED BY <2>1, FlattenOne, EmptySeq
<1>2. ASSUME NEW n \in Nat, n \in N PROVE n + 1 \in N
  <2> SUFFICES ASSUME NEW u \in Seq(Seq(S)), Len(u) = n + 1 PROVE FlattenSeq(u) \in Seq(S)
    OBVIOUS
  <2>1. u # <<>>
    BY EmptySeq
  <2>2. PICK v \in Seq(Seq(S)), e \in Seq(S) : u = Append(v, e)
    BY <2>1, SequenceEmptyOrAppend
  <2>3. Len(v) = n
    BY <2>2
  <2>4. FlattenSeq(v) \in Seq(S)
    BY <1>2, <2>3
  <2>5. FlattenSeq(u) = FlattenSeq(v) \o e
    BY <2>2, FlattenMore
  <2> QED BY <2>4, <2>5, ConcatProperties
<1> HIDE DEF N
<1>3. Nat \subseteq N
  BY <1>1, <1>2, SetInduction
<1>4. Len(ss) \in Nat
  OBVIOUS
<1> QED BY <1>3, <1>4 DEF N

Grouped(s, t, u) == (s \o t) \o u = s \o (t \o u)

LEMMA Regroup ==
  ASSUME NEW S, NEW s \in Seq(S), NEW t \in Seq(S), NEW u \in Seq(S)
  PROVE  Grouped(s, t, u)
<1> USE DEF Grouped
<1>1. s \o t \in Seq(S) /\ t \o u \in Seq(S) /\ Len(s \o t) = Len(s) + Len(t) /\ Len(t \o u) = Len(t) + Len(u)
  BY ConcatProperties
<1>2. /\ (s \o t) \o u \in Seq(S) /\ s \o (t \o u) \in Seq(S)
      /\ Len((s \o t) \o u) = Len(s) + Len(t) + Len(u) /\ Len(s \o (t \o u)) = Len(s) + Len(t) + Len(u)
  BY <1>1, ConcatProperties
<1>3. ASSUME NEW i \in 1 .. Len((s \o t) \o u) PROVE ((s \o t) \o u)[i] = (s \o (t \o u))[i]
  BY <1>1, <1>2
<1> QED BY <1>2, <1>3, SeqEqual

Regrouped(a, t, u, r) == (a \o (t \o u)) \o r = (a \o t) \o (u \o r)

LEMMA RegroupFour ==
  ASSUME NEW S, NEW a \in Seq(S), NEW t \in Seq(S), NEW u \in Seq(S), NEW r \in Seq(S)
  PROVE  Regrouped(a, t, u, r)
<1>1. t \o u \in Seq(S) /\ u \o r \in Seq(S)
  BY ConcatProperties
<1>2. PICK v \in Seq(S), w \in Seq(S) : v = t \o u /\ w = u \o r
  BY <1>1, Zenon
<1>3. Grouped(a, v, r) /\ Grouped(t, u, r) /\ Grouped(a, t, w)
  BY Regroup
<1> QED BY <1>2, <1>3, Zenon DEF Grouped, Regrouped

LEMMA FlattenConcat ==
  ASSUME NEW S, NEW ss \in Seq(Seq(S)), NEW tt \in Seq(Seq(S))
  PROVE  FlattenSeq(ss \o tt) = FlattenSeq(ss) \o FlattenSeq(tt)
<1> DEFINE N == {n \in Nat : \A u \in Seq(Seq(S)) : Len(u) = n =>
                                FlattenSeq(ss \o u) = FlattenSeq(ss) \o FlattenSeq(u)}
<1>0. FlattenSeq(ss) \in Seq(S)
  BY FlattenType
<1>1. 0 \in N
  <2> SUFFICES ASSUME NEW u \in Seq(Seq(S)), Len(u) = 0
               PROVE  FlattenSeq(ss \o u) = FlattenSeq(ss) \o FlattenSeq(u)
    OBVIOUS
  <2>1. u = <<>>
    BY EmptySeq
  <2>2. ss \o u = ss
    BY <2>1, ConcatEmptySeq
  <2>3. FlattenSeq(u) = <<>>
    BY <2>1, FlattenOne
  <2> QED BY <1>0, <2>2, <2>3, ConcatEmptySeq
<1>2. ASSUME NEW n \in Nat, n \in N PROVE n + 1 \in N
  <2> SUFFICES ASSUME NEW u \in Seq(Seq(S)), Len(u) = n + 1
               PROVE  FlattenSeq(ss \o u) = FlattenSeq(ss) \o FlattenSeq(u)
    OBVIOUS
  <2>1. u # <<>>
    BY EmptySeq
  <2>2. PICK v \in Seq(Seq(S)), e \in Seq(S) : u = Append(v, e)
    BY <2>1, SequenceEmptyOrAppend
  <2>3. Len(v) = n /\ FlattenSeq(v) \in Seq(S)
    BY <2>2, FlattenType
  <2>4. FlattenSeq(ss \o v) = FlattenSeq(ss) \o FlattenSeq(v)
    BY <1>2, <2>3
  <2>5. ss \o u = Append(ss \o v, e) /\ ss \o v \in Seq(Seq(S))
    BY <2>2
  <2>6. FlattenSeq(ss \o u) = (FlattenSeq(ss) \o FlattenSeq(v)) \o e
    BY <2>4, <2>5, FlattenMore
  <2>7. FlattenSeq(u) = FlattenSeq(v) \o e
    BY <2>2, FlattenMore
  <2> HIDE DEF N
  <2>8. (FlattenSeq(ss) \o FlattenSeq(v)) \o e = FlattenSeq(ss) \o (FlattenSeq(v) \o e)
    <3>1. PICK a \in Seq(S), b \in Seq(S) : a = FlattenSeq(ss) /\ b = FlattenSeq(v)
      BY <1>0, <2>3
    <3>2. Grouped(a, b, e)
      BY Regroup
    <3> QED BY <3>1, <3>2, Zenon DEF Grouped
  <2>9. FlattenSeq(ss \o u) = FlattenSeq(ss) \o FlattenSeq(u)
    BY <2>6, <2>7, <2>8
  <2> QED BY <2>9
<1> HIDE DEF N
<1>3. Nat \subseteq N
  BY <1>1, <1>2, SetInduction
<1>4. Len(tt) \in Nat
  OBVIOUS
<1> QED BY <1>3, <1>4 DEF N

-----------------------------------------------------------------------------
(***************************************************************************)
(* The buffers of a chain without long ones: p1 .. p2 is never empty, and  *)
(* within the buffer.                                                      *)
(***************************************************************************)
Buf == {b \in [long : {FALSE}, p1 : Nat, p2 : Nat, data : Seq(Nat)] :
           b.p1 <= b.p2 /\ b.p2 < Size /\ Len(b.data) = b.p2 + 1}

(* A part of a sequence.                                                    *)
LEMMA Part ==
  ASSUME NEW S, NEW s \in Seq(S), NEW m \in Nat, NEW n \in Nat, m <= n, n <= Len(s)
  PROVE  /\ SubSeq(s, m + 1, n) \in Seq(S) /\ Len(SubSeq(s, m + 1, n)) = n - m
         /\ \A i \in 1 .. n - m : SubSeq(s, m + 1, n)[i] = s[m + i]
<1>1. PICK a \in Int, b \in Int : a = m + 1 /\ b = n
  OBVIOUS
<1>2. \A i \in a .. b : s[i] \in S
  BY <1>1
<1>3. /\ SubSeq(s, a, b) \in Seq(S)
      /\ Len(SubSeq(s, a, b)) = IF a <= b THEN b - a + 1 ELSE 0
      /\ \A i \in 1 .. b - a + 1 : SubSeq(s, a, b)[i] = s[a + i - 1]
  BY <1>2, SubSeqProperties
<1>4. Len(SubSeq(s, a, b)) = n - m
  BY <1>1, <1>3
<1>5. ASSUME NEW i \in 1 .. n - m PROVE SubSeq(s, a, b)[i] = s[m + i]
  <2>1. i \in 1 .. b - a + 1 /\ a + i - 1 = m + i
    BY <1>1
  <2> QED BY <1>3, <2>1
<1> QED BY <1>1, <1>3, <1>4, <1>5

LEMMA HeldPart ==
  ASSUME NEW b \in Buf
  PROVE  /\ Held(b) \in Seq(Nat) /\ Len(Held(b)) = b.p2 - b.p1 + 1 /\ Len(Held(b)) \in Nat \ {0}
         /\ \A i \in 1 .. Len(Held(b)) : Held(b)[i] = b.data[b.p1 + i]
<1>1. PICK d \in Seq(Nat), m \in Nat, n \in Nat :
        d = b.data /\ m = b.p1 /\ n = b.p2 + 1 /\ m < n /\ n = Len(d) /\ b.p2 = n - 1
  BY DEF Buf
<1>2. Held(b) = SubSeq(d, m + 1, n)
  BY <1>1 DEF Held
<1>3. m <= n /\ n <= Len(d) /\ m < n
  BY <1>1
<1>4. /\ SubSeq(d, m + 1, n) \in Seq(Nat) /\ Len(SubSeq(d, m + 1, n)) = n - m
      /\ \A i \in 1 .. n - m : SubSeq(d, m + 1, n)[i] = d[m + i]
  BY <1>3, Part
<1>5. PICK l : l = Len(Held(b))
  OBVIOUS
<1>6. l = n - m
  BY <1>2, <1>4, <1>5
<1>7. n - m \in Nat \ {0} /\ n - m = (n - 1) - m + 1
  BY <1>3
<1>8. l = b.p2 - b.p1 + 1 /\ l \in Nat \ {0}
  BY <1>1, <1>6, <1>7
<1> QED BY <1>1, <1>2, <1>4, <1>5, <1>6, <1>8

Pieces(c) == [i \in DOMAIN c |-> Held(c[i])]

LEMMA PiecesType ==
  ASSUME NEW c \in Seq(Buf)
  PROVE  /\ Pieces(c) \in Seq(Seq(Nat)) /\ Len(Pieces(c)) = Len(c)
         /\ \A i \in 1 .. Len(c) : Pieces(c)[i] = Held(c[i])
         /\ Content(c) = FlattenSeq(Pieces(c)) /\ Content(c) \in Seq(Nat)
<1>1. DOMAIN c = 1 .. Len(c) /\ Len(c) \in Nat /\ \A i \in 1 .. Len(c) : c[i] \in Buf
  OBVIOUS
<1>2. \A i \in 1 .. Len(c) : Held(c[i]) \in Seq(Nat)
  BY <1>1, HeldPart
<1>3. Pieces(c) = [i \in 1 .. Len(c) |-> Held(c[i])]
  BY <1>1 DEF Pieces
<1>4. Pieces(c) \in Seq(Seq(Nat)) /\ Len(Pieces(c)) = Len(c)
  BY <1>1, <1>2, <1>3
<1>5. Content(c) = FlattenSeq(Pieces(c))
  BY DEF Content, Pieces
<1>6. Content(c) \in Seq(Nat)
  BY <1>4, <1>5, FlattenType
<1> QED BY <1>3, <1>4, <1>5, <1>6

LEMMA ContentOne ==
  ASSUME NEW b \in Buf
  PROVE  Content(<<b>>) = Held(b) /\ Content(<<>>) = <<>>
<1>0. <<b>> \in Seq(Buf) /\ <<>> \in Seq(Buf)
  OBVIOUS
<1>1. PICK c : c \in Seq(Buf) /\ c = <<b>>
  BY <1>0
<1>2. Len(c) = 1 /\ c[1] = b /\ c \in Seq(Buf)
  BY <1>1
<1>a. Pieces(c) \in Seq(Seq(Nat)) /\ Len(Pieces(c)) = 1 /\ Pieces(c)[1] = Held(b)
  <2>1. /\ Pieces(c) \in Seq(Seq(Nat)) /\ Len(Pieces(c)) = Len(c)
        /\ \A i \in 1 .. Len(c) : Pieces(c)[i] = Held(c[i])
    BY <1>2, PiecesType
  <2> QED BY <1>2, <2>1
<1>3. PICK p : p \in Seq(Seq(Nat)) /\ p = Pieces(c) /\ Len(p) = 1 /\ p[1] = Held(b)
  BY <1>a
<1>4. p = <<Held(b)>>
  BY <1>3, HeldPart
<1>5. Content(c) = Held(b)
  BY <1>1, <1>3, <1>4, PiecesType, FlattenOne
<1>6. PICK d : d \in Seq(Buf) /\ d = <<>>
  BY <1>0
<1>7. Pieces(d) \in Seq(Seq(Nat)) /\ Len(Pieces(d)) = 0 /\ Content(d) = FlattenSeq(Pieces(d))
  BY <1>6, PiecesType
<1>8. Pieces(d) = <<>>
  BY <1>7, EmptySeq
<1> QED BY <1>1, <1>5, <1>6, <1>7, <1>8, FlattenOne

LEMMA ContentConcat ==
  ASSUME NEW c \in Seq(Buf), NEW d \in Seq(Buf)
  PROVE  Content(c \o d) = Content(c) \o Content(d)
<1>0. c \o d \in Seq(Buf)
  BY ConcatProperties
<1>1. PICK e : e \in Seq(Buf) /\ e = c \o d
  BY <1>0
<1>2. /\ Len(e) = Len(c) + Len(d) /\ Len(c) \in Nat /\ Len(d) \in Nat
      /\ \A i \in 1 .. Len(c) + Len(d) : e[i] = IF i <= Len(c) THEN c[i] ELSE d[i - Len(c)]
  BY <1>1
<1>3. PICK p \in Seq(Seq(Nat)) : /\ p = Pieces(c) /\ Len(p) = Len(c) /\ Content(c) = FlattenSeq(p)
                                 /\ \A i \in 1 .. Len(c) : p[i] = Held(c[i])
  BY PiecesType
<1>4. PICK q \in Seq(Seq(Nat)) : /\ q = Pieces(d) /\ Len(q) = Len(d) /\ Content(d) = FlattenSeq(q)
                                 /\ \A i \in 1 .. Len(d) : q[i] = Held(d[i])
  BY PiecesType
<1>5. PICK r \in Seq(Seq(Nat)) : /\ r = Pieces(e) /\ Len(r) = Len(e) /\ Content(e) = FlattenSeq(r)
                                 /\ \A i \in 1 .. Len(e) : r[i] = Held(e[i])
  BY <1>1, PiecesType
<1>6. /\ p \o q \in Seq(Seq(Nat)) /\ Len(p \o q) = Len(p) + Len(q)
      /\ \A i \in 1 .. Len(p) + Len(q) : (p \o q)[i] = IF i <= Len(p) THEN p[i] ELSE q[i - Len(p)]
  BY ConcatProperties
<1>7. ASSUME NEW i \in 1 .. Len(r) PROVE r[i] = (p \o q)[i]
  <2>1. i \in 1 .. Len(c) + Len(d) /\ r[i] = Held(e[i])
    BY <1>2, <1>5
  <2>2. CASE i <= Len(c)
    <3>1. i \in 1 .. Len(c) /\ e[i] = c[i] /\ (p \o q)[i] = p[i]
      BY <1>2, <1>3, <1>4, <1>6, <2>1, <2>2
    <3> QED BY <1>3, <2>1, <3>1
  <2>3. CASE ~(i <= Len(c))
    <3>1. PICK j \in 1 .. Len(d) : j = i - Len(c)
      BY <1>2, <2>1, <2>3
    <3>2. e[i] = d[j] /\ (p \o q)[i] = q[j]
      BY <1>2, <1>3, <1>4, <1>6, <2>1, <2>3, <3>1
    <3> QED BY <1>4, <2>1, <3>2
  <2> QED BY <2>2, <2>3
<1>8. Len(r) = Len(p \o q)
  BY <1>2, <1>3, <1>4, <1>5, <1>6
<1>9. r = p \o q
  BY <1>6, <1>7, <1>8, SeqEqual
<1>10. FlattenSeq(p \o q) = FlattenSeq(p) \o FlattenSeq(q)
  BY FlattenConcat
<1> QED BY <1>1, <1>3, <1>4, <1>5, <1>9, <1>10

(* What is left of a sequence without its first n elements.                 *)
Drop(s, n) == SubSeq(s, n + 1, Len(s))

LEMMA DropPart ==
  ASSUME NEW S, NEW s \in Seq(S), NEW n \in 0 .. Len(s)
  PROVE  /\ Drop(s, n) \in Seq(S) /\ Len(Drop(s, n)) = Len(s) - n
         /\ \A i \in 1 .. Len(s) - n : Drop(s, n)[i] = s[n + i]
         /\ SubSeq(s, 1, n) \in Seq(S) /\ Len(SubSeq(s, 1, n)) = n
         /\ s = SubSeq(s, 1, n) \o Drop(s, n)
<1>1. n \in Nat /\ Len(s) \in Nat /\ n <= Len(s) /\ Len(s) <= Len(s)
  OBVIOUS
<1>2. /\ Drop(s, n) \in Seq(S) /\ Len(Drop(s, n)) = Len(s) - n
      /\ \A i \in 1 .. Len(s) - n : Drop(s, n)[i] = s[n + i]
  BY <1>1, Part DEF Drop
<1>3. 0 + 1 = 1 /\ n - 0 = n /\ \A i \in 1 .. n : 0 + i = i
  BY <1>1
<1>4. /\ SubSeq(s, 0 + 1, n) \in Seq(S) /\ Len(SubSeq(s, 0 + 1, n)) = n - 0
      /\ \A i \in 1 .. n - 0 : SubSeq(s, 0 + 1, n)[i] = s[0 + i]
  BY <1>1, Part
<1>5. SubSeq(s, 1, n) \in Seq(S) /\ Len(SubSeq(s, 1, n)) = n
  BY <1>3, <1>4
<1>6. SubSeq(s, 1, n) \o SubSeq(s, n + 1, Len(s)) = SubSeq(s, 1, Len(s))
  <2>1. 1 \in 1 .. Len(s) + 1 /\ n \in 1 - 1 .. Len(s) /\ Len(s) \in n .. Len(s)
    BY <1>1
  <2> QED BY <2>1, ConcatAdjacentSubSeq
<1>7. s = SubSeq(s, 1, n) \o Drop(s, n)
  BY <1>6, SubSeqFull DEF Drop
<1> QED BY <1>2, <1>5, <1>7

(* Taking from two sequences in a row: the first is used up, or not.        *)
LEMMA DropConcat ==
  ASSUME NEW S, NEW a \in Seq(S), NEW b \in Seq(S), NEW n \in 0 .. Len(a) + Len(b)
  PROVE  /\ n <= Len(a) => Drop(a \o b, n) = Drop(a, n) \o b
         /\ n >= Len(a) => Drop(a \o b, n) = Drop(b, n - Len(a))
<1>0. Len(a) \in Nat /\ Len(b) \in Nat /\ n \in Nat
  OBVIOUS
<1>1. /\ a \o b \in Seq(S) /\ Len(a \o b) = Len(a) + Len(b)
      /\ \A i \in 1 .. Len(a) + Len(b) : (a \o b)[i] = IF i <= Len(a) THEN a[i] ELSE b[i - Len(a)]
  BY ConcatProperties
<1>2. PICK e : /\ e \in Seq(S) /\ e = a \o b /\ Len(e) = Len(a) + Len(b)
               /\ \A i \in 1 .. Len(a) + Len(b) : e[i] = IF i <= Len(a) THEN a[i] ELSE b[i - Len(a)]
  BY ONLY <1>1
<1>3. n \in 0 .. Len(e) /\ e \in Seq(S)
  BY <1>2
<1>4. /\ Drop(e, n) \in Seq(S) /\ Len(Drop(e, n)) = Len(e) - n
      /\ \A i \in 1 .. Len(e) - n : Drop(e, n)[i] = e[n + i]
  BY <1>3, DropPart
<1>5. PICK f : /\ f \in Seq(S) /\ f = Drop(e, n) /\ Len(f) = Len(e) - n
               /\ \A i \in 1 .. Len(e) - n : f[i] = e[n + i]
  BY ONLY <1>4
<1>6. ASSUME n <= Len(a) PROVE f = Drop(a, n) \o b
  <2>1. n \in 0 .. Len(a)
    BY <1>0, <1>6
  <2>2. /\ Drop(a, n) \in Seq(S) /\ Len(Drop(a, n)) = Len(a) - n
        /\ \A i \in 1 .. Len(a) - n : Drop(a, n)[i] = a[n + i]
    BY <2>1, DropPart
  <2>3. PICK g : /\ g \in Seq(S) /\ g = Drop(a, n) /\ Len(g) = Len(a) - n
                 /\ \A i \in 1 .. Len(a) - n : g[i] = a[n + i]
    BY ONLY <2>2
  <2>4. /\ g \o b \in Seq(S) /\ Len(g \o b) = Len(g) + Len(b)
        /\ \A i \in 1 .. Len(g) + Len(b) : (g \o b)[i] = IF i <= Len(g) THEN g[i] ELSE b[i - Len(g)]
    BY <2>3, ConcatProperties
  <2>5. PICK h : /\ h \in Seq(S) /\ h = g \o b /\ Len(h) = Len(g) + Len(b)
                 /\ \A i \in 1 .. Len(g) + Len(b) : h[i] = IF i <= Len(g) THEN g[i] ELSE b[i - Len(g)]
    BY ONLY <2>4
  <2>6. Len(f) = Len(h) /\ Len(f) \in Nat
    BY <1>0, <1>2, <1>5, <2>3, <2>5
  <2>7. ASSUME NEW i \in 1 .. Len(f) PROVE f[i] = h[i]
    <3>1. f[i] = e[n + i]
      BY <1>5
    <3>2. CASE n + i <= Len(a)
      <4>1. e[n + i] = a[n + i] /\ i \in 1 .. Len(a) - n /\ i <= Len(g) /\ i \in 1 .. Len(g) + Len(b)
        BY <1>0, <1>2, <1>5, <2>3, <3>2
      <4> QED BY <2>3, <2>5, <3>1, <4>1
    <3>3. CASE ~(n + i <= Len(a))
      <4>1. /\ e[n + i] = b[(n + i) - Len(a)] /\ ~(i <= Len(g)) /\ i \in 1 .. Len(g) + Len(b)
            /\ (n + i) - Len(a) = i - Len(g)
        BY <1>0, <1>2, <1>5, <2>3, <3>3
      <4> QED BY <2>5, <3>1, <4>1
    <3> QED BY <3>2, <3>3
  <2>8. f = h
    BY <1>5, <2>5, <2>6, <2>7, SeqEqual
  <2> QED BY <2>3, <2>5, <2>8
<1>7. ASSUME n >= Len(a) PROVE f = Drop(b, n - Len(a))
  <2>0. n - Len(a) \in 0 .. Len(b)
    BY <1>0, <1>7
  <2>1. PICK m \in 0 .. Len(b) : m = n - Len(a)
    BY <2>0
  <2>2. /\ Drop(b, m) \in Seq(S) /\ Len(Drop(b, m)) = Len(b) - m
        /\ \A i \in 1 .. Len(b) - m : Drop(b, m)[i] = b[m + i]
    BY DropPart
  <2>3. PICK g : /\ g \in Seq(S) /\ g = Drop(b, m) /\ Len(g) = Len(b) - m
                 /\ \A i \in 1 .. Len(b) - m : g[i] = b[m + i]
    BY ONLY <2>2
  <2>4. Len(f) = Len(g) /\ Len(f) \in Nat
    BY <1>0, <1>2, <1>5, <2>1, <2>3
  <2>5. ASSUME NEW i \in 1 .. Len(f) PROVE f[i] = g[i]
    <3>1. f[i] = e[n + i] /\ i \in 1 .. Len(b) - m /\ (n + i) - Len(a) = m + i
      BY <1>0, <1>2, <1>5, <2>1, <2>3, <2>4
    <3>2. e[n + i] = b[(n + i) - Len(a)]
      BY <1>0, <1>2, <1>5, <1>7
    <3> QED BY <2>3, <3>1, <3>2
  <2>6. f = g
    BY <1>5, <2>3, <2>4, <2>5, SeqEqual
  <2> QED BY <2>1, <2>3, <2>6
<1> QED BY <1>2, <1>5, <1>6, <1>7

-----------------------------------------------------------------------------
(***************************************************************************)
(* New buffers: as many as the bytes need, each but the last one full.     *)
(***************************************************************************)
LEMMA Needed ==
  ASSUME NEW m \in Nat
  PROVE  LET n == (m + Size - 1) \div Size
         IN  n \in Nat /\ m <= n * Size /\ \A i \in Nat : i < n => i * Size < m
<1>1. PICK z \in Nat \ {0} : z = Size
  BY CacheAssumption
<1>2. PICK x \in Nat : x = m + z - 1
  OBVIOUS
<1>3. PICK n : n = x \div z
  OBVIOUS
<1>4. n \in Nat /\ n * z <= x /\ x < n * z + z
  BY <1>3
<1>5. m <= n * z
  <2>1. PICK w \in Nat : w = n * z
    BY <1>4
  <2> QED BY <1>2, <1>4, <2>1
<1>6. ASSUME NEW i \in Nat, i < n PROVE i * z < m
  <2>1. PICK d \in Nat : n = i + 1 + d
    <3>1. n - (i + 1) \in Nat /\ n = i + 1 + (n - (i + 1))
      BY <1>4, <1>6
    <3> QED BY <3>1
  <2>2. n * z = i * z + z + d * z
    BY <2>1
  <2>3. PICK u \in Nat, v \in Nat, w \in Nat : u = i * z /\ v = d * z /\ w = n * z
    BY <1>4
  <2> QED BY <1>2, <1>4, <2>2, <2>3
<1> QED BY <1>1, <1>2, <1>3, <1>4, <1>5, <1>6

LEMMA BufferHolds ==
  ASSUME NEW t \in Seq(Nat), Len(t) > 0, Len(t) <= Size
  PROVE  Buffer(t) \in Buf /\ Held(Buffer(t)) = t
<1>1. Len(t) - 1 \in Nat /\ 0 <= Len(t) - 1 /\ Len(t) - 1 < Size /\ (Len(t) - 1) + 1 = Len(t) /\ 0 + 1 = 1
  BY CacheAssumption
<1>2. PICK b : b = Buffer(t)
  OBVIOUS
<1>3. b = [long |-> FALSE, p1 |-> 0, p2 |-> Len(t) - 1, data |-> t]
  BY <1>2 DEF Buffer
<1>4. b.p1 = 0 /\ b.p2 = Len(t) - 1 /\ b.data = t
  BY <1>3
<1>5. b \in [long : {FALSE}, p1 : Nat, p2 : Nat, data : Seq(Nat)]
  BY <1>1, <1>3
<1>6. b \in Buf
  BY <1>1, <1>4, <1>5 DEF Buf
<1>7. Held(b) = SubSeq(t, 1, Len(t))
  BY <1>1, <1>4 DEF Held
<1>8. SubSeq(t, 1, Len(t)) = t
  BY SubSeqFull
<1> QED BY <1>2, <1>6, <1>7, <1>8

LEMMA BuffersHold ==
  ASSUME NEW s \in Seq(Nat)
  PROVE  Buffers(s) \in Seq(Buf) /\ Content(Buffers(s)) = s
<1>0. PICK m \in Nat : m = Len(s)
  OBVIOUS
<1>a. PICK z \in Nat \ {0} : z = Size
  BY CacheAssumption
<1>1. PICK n \in Nat : n = (m + Size - 1) \div Size /\ m <= n * z /\ \A i \in Nat : i < n => i * z < m
  BY <1>a, Needed
<1>2. \A i \in Nat : i * z \in Nat /\ Lesser(i * z, m) \in Nat
  BY DEF Lesser
<1>3. PICK e : e = [i \in 0 .. n |-> Lesser(i * z, m)]
  OBVIOUS
<1>4. e[0] = 0 /\ e[n] = m
  <2>1. 0 * z = 0 /\ 0 \in 0 .. n /\ n \in 0 .. n
    OBVIOUS
  <2>2. Lesser(0, m) = 0
    BY DEF Lesser
  <2>3. Lesser(n * z, m) = m
    BY <1>1, <1>2 DEF Lesser
  <2> QED BY <1>3, <2>1, <2>2, <2>3
<1>5. ASSUME NEW i \in 0 .. n - 1
      PROVE  /\ e[i] = i * z /\ e[i] \in Nat /\ e[i + 1] \in Nat /\ e[i] < e[i + 1]
             /\ e[i + 1] <= e[i] + z /\ e[i + 1] <= m /\ e[i + 1] = Lesser((i + 1) * z, m)
  <2>1. i \in Nat /\ i < n /\ i \in 0 .. n /\ i + 1 \in 0 .. n
    OBVIOUS
  <2>2. PICK u \in Nat : u = i * z
    BY <1>2, <2>1
  <2>3. (i + 1) * z = u + z /\ u < m
    BY <1>1, <2>1, <2>2
  <2>4. e[i] = Lesser(u, m) /\ e[i + 1] = Lesser(u + z, m)
    BY <1>3, <2>1, <2>2, <2>3
  <2>5. e[i] = u
    BY <2>3, <2>4 DEF Lesser
  <2>6. (e[i + 1] = u + z /\ u + z < m) \/ e[i + 1] = m
    BY <2>4 DEF Lesser
  <2>7. e[i + 1] \in Nat /\ u < e[i + 1] /\ e[i + 1] <= u + z /\ e[i + 1] <= m
    <3>1. u + z \in Nat /\ u < u + z /\ u + z <= u + z /\ (u + z < m => u + z <= m)
      OBVIOUS
    <3>2. CASE e[i + 1] = u + z /\ u + z < m
      BY <3>1, <3>2
    <3>3. CASE e[i + 1] = m
      <4>1. m <= u + z
        BY <2>3, <2>4, <3>1, <3>3 DEF Lesser
      <4> QED BY <2>3, <3>3, <4>1
    <3> QED BY <2>6, <3>2, <3>3
  <2>8. e[i + 1] = Lesser((i + 1) * z, m)
    BY <2>3, <2>4
  <2> QED BY <2>2, <2>5, <2>7, <2>8
<1>6. PICK B : B = Buffers(s)
  OBVIOUS
<1>7. B = [i \in 1 .. n |-> Buffer(SubSeq(s, (i - 1) * z + 1, Lesser(i * z, m)))]
  BY <1>0, <1>a, <1>1, <1>6 DEF Buffers
<1>8. ASSUME NEW i \in 0 .. n - 1
      PROVE  /\ B[i + 1] \in Buf /\ Held(B[i + 1]) = SubSeq(s, e[i] + 1, e[i + 1])
             /\ SubSeq(s, e[i] + 1, e[i + 1]) \in Seq(Nat)
  <2>1. i + 1 \in 1 .. n /\ (i + 1) - 1 = i
    OBVIOUS
  <2>2. PICK l \in Nat, h \in Nat : l = e[i] /\ h = e[i + 1] /\ l < h /\ h <= l + z /\ h <= Len(s)
    BY <1>0, <1>5
  <2>3. B[i + 1] = Buffer(SubSeq(s, l + 1, h))
    BY <1>5, <1>7, <2>1, <2>2
  <2>4. SubSeq(s, l + 1, h) \in Seq(Nat) /\ Len(SubSeq(s, l + 1, h)) = h - l
    <3>1. l <= h /\ h <= Len(s)
      BY <2>2
    <3> QED BY <3>1, Part
  <2>5. h - l > 0 /\ h - l <= Size
    BY <1>a, <2>2
  <2>6. PICK t : t \in Seq(Nat) /\ t = SubSeq(s, l + 1, h) /\ Len(t) > 0 /\ Len(t) <= Size
    BY <2>4, <2>5
  <2>7. Buffer(t) \in Buf /\ Held(Buffer(t)) = t
    BY <2>6, BufferHolds
  <2> QED BY <2>2, <2>3, <2>6, <2>7
<1>9. B \in Seq(Buf) /\ Len(B) = n
  <2>1. ASSUME NEW i \in 1 .. n PROVE B[i] \in Buf
    <3>1. PICK j \in 0 .. n - 1 : i = j + 1
      <4>1. i - 1 \in 0 .. n - 1 /\ i = (i - 1) + 1
        OBVIOUS
      <4> QED BY <4>1
    <3> QED BY <1>8, <3>1
  <2>2. B = [i \in 1 .. n |-> B[i]]
    BY <1>7
  <2>3. B \in [1 .. n -> Buf]
    BY <2>1, <2>2, Zenon
  <2> QED BY <2>3
<1> DEFINE N == {i \in Nat : i <= n => Content(SubSeq(B, 1, i)) = SubSeq(s, 1, e[i])}
<1>10. 0 \in N
  <2>1. SubSeq(B, 1, 0) = <<>> /\ SubSeq(s, 1, 0) = <<>>
    BY SubSeqEmpty
  <2>2. Content(<<>>) = <<>>
    BY DEF Content, FlattenSeq
  <2> QED BY <1>4, <2>1, <2>2
<1>11. ASSUME NEW i \in Nat, i \in N PROVE i + 1 \in N
  <2> SUFFICES ASSUME i + 1 <= n PROVE Content(SubSeq(B, 1, i + 1)) = SubSeq(s, 1, e[i + 1])
    OBVIOUS
  <2>1. i \in 0 .. n - 1 /\ i <= n /\ i <= Len(B) /\ i + 1 \in 1 .. Len(B) /\ 1 \in 1 .. Len(B)
        /\ (i + 1) - 1 = i /\ i \in 0 .. Len(B)
    BY <1>9
  <2>2. Content(SubSeq(B, 1, i)) = SubSeq(s, 1, e[i])
    BY <1>11, <2>1
  <2> HIDE DEF N
  <2>3. SubSeq(B, 1, i + 1) = SubSeq(B, 1, i) \o <<B[i + 1]>>
    BY <1>9, <2>1, SubSeqRecursiveSecond
  <2>4. PICK c : c = SubSeq(B, 1, i) /\ c \in Seq(Buf)
    BY <1>9, <2>1, DropPart
  <2>5. PICK b : b = B[i + 1] /\ b \in Buf /\ Held(b) = SubSeq(s, e[i] + 1, e[i + 1])
    BY <1>8, <2>1
  <2>6. <<b>> \in Seq(Buf)
    BY <2>5
  <2>7. Content(c \o <<b>>) = Content(c) \o Held(b)
    BY <2>4, <2>5, <2>6, ContentConcat, ContentOne
  <2>8. SubSeq(s, 1, e[i]) \o SubSeq(s, e[i] + 1, e[i + 1]) = SubSeq(s, 1, e[i + 1])
    <3>1. PICK l \in Nat, h \in Nat : l = e[i] /\ h = e[i + 1] /\ l < h /\ h <= Len(s)
      BY <1>0, <1>5, <2>1
    <3>2. 1 \in 1 .. Len(s) + 1 /\ l \in 1 - 1 .. Len(s) /\ h \in l .. Len(s)
      BY <3>1
    <3>3. SubSeq(s, 1, l) \o SubSeq(s, l + 1, h) = SubSeq(s, 1, h)
      BY <3>2, ConcatAdjacentSubSeq
    <3> QED BY <3>1, <3>3
  <2> QED BY <2>2, <2>3, <2>4, <2>5, <2>7, <2>8
<1> HIDE DEF N
<1>12. Nat \subseteq N
  BY <1>10, <1>11, SetInduction
<1>13. Content(SubSeq(B, 1, n)) = SubSeq(s, 1, m)
  BY <1>4, <1>12 DEF N
<1>14. SubSeq(B, 1, n) = B /\ SubSeq(s, 1, m) = s
  BY <1>0, <1>9, SubSeqFull
<1> QED BY <1>6, <1>9, <1>13, <1>14

-----------------------------------------------------------------------------
(***************************************************************************)
(* Appending: the tail is filled, new buffers take the rest.               *)
(***************************************************************************)
LEMMA FilledHolds ==
  ASSUME NEW t \in Buf, NEW s \in Seq(Nat), NEW k \in 0 .. Len(s), k <= Size - 1 - t.p2
  PROVE  Filled(t, s, k) \in Buf /\ Held(Filled(t, s, k)) = Held(t) \o SubSeq(s, 1, k)
<1>1. /\ t \in [long : {FALSE}, p1 : Nat, p2 : Nat, data : Seq(Nat)] /\ t.p1 \in Nat /\ t.p2 \in Nat
      /\ t.data \in Seq(Nat) /\ t.p1 <= t.p2 /\ t.p2 < Size /\ Len(t.data) = t.p2 + 1
  BY DEF Buf
<1>2. PICK d : d = t.data /\ d \in Seq(Nat)
  BY <1>1
<1>3. PICK p \in Nat, q \in Nat : p = t.p1 /\ q = t.p2 /\ p <= q /\ q < Size /\ Len(d) = q + 1
  BY <1>1, <1>2
<1>4. PICK e : e = SubSeq(s, 1, k) /\ e \in Seq(Nat) /\ Len(e) = k
  BY DropPart
<1>5. SubSeq(d, 1, q + 1) = d
  BY <1>2, <1>3, SubSeqFull
<1>6. /\ d \o e \in Seq(Nat) /\ Len(d \o e) = q + 1 + k
      /\ \A i \in 1 .. Len(d) + Len(e) : (d \o e)[i] = IF i <= Len(d) THEN d[i] ELSE e[i - Len(d)]
  <2>1. /\ d \o e \in Seq(Nat) /\ Len(d \o e) = Len(d) + Len(e)
        /\ \A i \in 1 .. Len(d) + Len(e) : (d \o e)[i] = IF i <= Len(d) THEN d[i] ELSE e[i - Len(d)]
    BY <1>2, <1>4, ConcatProperties
  <2>2. Len(d) + Len(e) = q + 1 + k
    BY <1>3, <1>4
  <2> QED BY <2>1, <2>2
<1>7. PICK f : f = Filled(t, s, k)
  OBVIOUS
<1>8. f = [t EXCEPT !.p2 = q + k, !.data = d \o e]
  BY <1>2, <1>3, <1>4, <1>5, <1>7 DEF Filled
<1>9. f.p1 = p /\ f.p2 = q + k /\ f.data = d \o e
  BY <1>1, <1>3, <1>8
<1>10. q + k \in Nat /\ p <= q + k /\ q + k < Size /\ q + 1 + k = (q + k) + 1
  <2>1. PICK z \in Nat : z = Size /\ k <= z - 1 - q /\ p <= q
    BY <1>3, CacheAssumption
  <2> QED BY <2>1
<1>11. f \in [long : {FALSE}, p1 : Nat, p2 : Nat, data : Seq(Nat)]
  BY <1>1, <1>6, <1>8, <1>10
<1>12. f \in Buf
  BY <1>6, <1>9, <1>10, <1>11 DEF Buf
<1>13. Held(t) = Drop(d, p) /\ Held(f) = Drop(d \o e, p)
  BY <1>2, <1>3, <1>6, <1>9, <1>10 DEF Held, Drop
<1>14. Drop(d \o e, p) = Drop(d, p) \o e
  <2>1. p \in 0 .. Len(d) + Len(e) /\ p <= Len(d)
    BY <1>3, <1>4
  <2> QED BY <1>2, <1>4, <2>1, DropConcat
<1> QED BY <1>4, <1>7, <1>12, <1>13, <1>14

LEMMA AppendedHolds ==
  ASSUME NEW c \in Seq(Buf), NEW s \in Seq(Nat)
  PROVE  Appended(c, s) \in Seq(Buf) /\ Content(Appended(c, s)) = Content(c) \o s
<1>1. CASE c = <<>>
  <2>1. Content(c) = <<>>
    BY <1>1 DEF Content, FlattenSeq
  <2>2. Appended(c, s) = Buffers(s)
    BY <1>1 DEF Appended
  <2> QED BY <2>1, <2>2, BuffersHold, ConcatEmptySeq
<1>2. CASE c # <<>>
  <2>1. PICK t : t = c[Len(c)]
    OBVIOUS
  <2>2. PICK k : k = Lesser(Size - 1 - t.p2, Len(s))
    OBVIOUS
  <2>3. Appended(c, s) = Front(c) \o <<Filled(t, s, k)>> \o Buffers(SubSeq(s, k + 1, Len(s)))
    BY <1>2, <2>1, <2>2 DEF Appended
  <2>4. Len(c) \in Nat \ {0} /\ Len(c) \in 1 .. Len(c) /\ Len(c) - 1 \in 0 .. Len(c) /\ 1 \in 1 .. Len(c)
    BY <1>2, EmptySeq
  <2>5. t \in Buf /\ t.p2 \in Nat /\ t.p2 < Size
    <3>1. t \in Buf
      BY <2>1, <2>4
    <3> QED BY <3>1 DEF Buf
  <2>6. k \in 0 .. Len(s) /\ k <= Size - 1 - t.p2
    BY <2>2, <2>5, CacheAssumption DEF Lesser
  <2>7. PICK b : b = Filled(t, s, k) /\ b \in Buf /\ Held(b) = Held(t) \o SubSeq(s, 1, k)
    BY <2>5, <2>6, FilledHolds
  <2>8. PICK a : a = Front(c) /\ a \in Seq(Buf) /\ c = a \o <<t>>
    <3>1. SubSeq(c, 1, Len(c) - 1) \in Seq(Buf)
      BY <2>4, DropPart
    <3>2. SubSeq(c, 1, Len(c)) = SubSeq(c, 1, Len(c) - 1) \o <<c[Len(c)]>>
      BY <2>4, SubSeqRecursiveSecond
    <3>3. SubSeq(c, 1, Len(c)) = c
      BY SubSeqFull
    <3> QED BY <2>1, <3>1, <3>2, <3>3 DEF Front
  <2>9. /\ Drop(s, k) \in Seq(Nat) /\ SubSeq(s, 1, k) \in Seq(Nat) /\ s = SubSeq(s, 1, k) \o Drop(s, k)
    BY <2>6, DropPart
  <2>10. PICK u, r : /\ u \in Seq(Nat) /\ r \in Seq(Nat) /\ u = SubSeq(s, 1, k) /\ r = Drop(s, k) /\ s = u \o r
    BY ONLY <2>9
  <2>11. PICK d : d = Buffers(r) /\ d \in Seq(Buf) /\ Content(d) = r
    BY <2>10, BuffersHold
  <2>12. Appended(c, s) = a \o <<b>> \o d
    BY <2>3, <2>7, <2>8, <2>10, <2>11 DEF Drop
  <2>13. <<b>> \in Seq(Buf) /\ <<t>> \in Seq(Buf) /\ a \o <<b>> \in Seq(Buf)
    BY <2>5, <2>7, <2>8
  <2>14. a \o <<b>> \o d \in Seq(Buf)
    BY <2>11, <2>13, ConcatProperties
  <2>15. PICK A, T : /\ A = Content(a) /\ T = Held(t) /\ A \in Seq(Nat) /\ T \in Seq(Nat)
    BY <2>5, <2>8, PiecesType, HeldPart
  <2>16. Content(c) = A \o T
    BY <2>5, <2>8, <2>13, <2>15, ContentConcat, ContentOne
  <2>17. Content(a \o <<b>>) = A \o (T \o u)
    <3>1. Content(<<b>>) = T \o u
      BY <2>7, <2>10, <2>15, ContentOne
    <3>2. Content(a \o <<b>>) = Content(a) \o Content(<<b>>)
      BY <2>8, <2>13, ContentConcat
    <3> QED BY <2>15, <3>1, <3>2
  <2>18. Content(a \o <<b>> \o d) = (A \o (T \o u)) \o r
    BY <2>11, <2>13, <2>17, ContentConcat
  <2>19. A \in Seq(Nat) /\ T \in Seq(Nat) /\ u \in Seq(Nat) /\ r \in Seq(Nat)
    BY <2>10, <2>15
  <2>20. Regrouped(A, T, u, r)
    BY <2>19, RegroupFour
  <2>21. Content(a \o <<b>> \o d) = Content(c) \o s
    BY <2>10, <2>16, <2>18, <2>20 DEF Regrouped
  <2> QED BY <2>12, <2>14, <2>21
<1> QED BY <1>1, <1>2

-----------------------------------------------------------------------------
(***************************************************************************)
(* Taking: buffers that are used up go, the next one loses the rest.       *)
(***************************************************************************)
LEMMA CutHolds ==
  ASSUME NEW h \in Buf, NEW d \in 0 .. Len(Held(h)) - 1
  PROVE  [h EXCEPT !.p1 = @ + d] \in Buf /\ Held([h EXCEPT !.p1 = @ + d]) = Drop(Held(h), d)
<1>1. /\ h \in [long : {FALSE}, p1 : Nat, p2 : Nat, data : Seq(Nat)] /\ h.p1 \in Nat /\ h.p2 \in Nat
      /\ h.data \in Seq(Nat) /\ h.p1 <= h.p2 /\ h.p2 < Size /\ Len(h.data) = h.p2 + 1
  BY DEF Buf
<1>2. PICK t \in Seq(Nat), p \in Nat, q \in Nat :
                     /\ t = h.data /\ t \in Seq(Nat) /\ p = h.p1 /\ q = h.p2 /\ p \in Nat /\ q \in Nat
                     /\ p <= q /\ Len(t) = q + 1
  BY <1>1
<1>3. Len(Held(h)) = q - p + 1
  BY <1>2, HeldPart
<1>4. p + d \in Nat /\ p + d <= q
  BY <1>2, <1>3
<1>5. PICK g : g = [h EXCEPT !.p1 = @ + d]
  OBVIOUS
<1>6. g.p1 = p + d /\ g.p2 = q /\ g.data = t
  BY <1>1, <1>2, <1>5
<1>7. g \in [long : {FALSE}, p1 : Nat, p2 : Nat, data : Seq(Nat)]
  BY <1>1, <1>2, <1>4, <1>5
<1>8. g \in Buf
  BY <1>1, <1>2, <1>4, <1>6, <1>7 DEF Buf
<1>9. Held(h) = Drop(t, p) /\ Held(g) = Drop(t, p + d)
  BY <1>2, <1>6 DEF Held, Drop
<1>10. PICK a, b : /\ a = SubSeq(t, 1, p) /\ b = Drop(t, p) /\ a \in Seq(Nat) /\ b \in Seq(Nat)
                   /\ Len(a) = p /\ Len(b) = q + 1 - p /\ t = a \o b
  <2>1. p \in 0 .. Len(t)
    BY <1>2
  <2>2. /\ SubSeq(t, 1, p) \in Seq(Nat) /\ Drop(t, p) \in Seq(Nat) /\ Len(SubSeq(t, 1, p)) = p
        /\ Len(Drop(t, p)) = Len(t) - p /\ t = SubSeq(t, 1, p) \o Drop(t, p)
    <3>1. t \in Seq(Nat)
      BY <1>2
    <3> QED BY <2>1, <3>1, DropPart
  <2>3. Len(t) = q + 1
    BY <1>2
  <2>4. Len(t) - p = q + 1 - p
    BY <2>3
  <2> QED BY ONLY <2>2, <2>4
<1>11. p + d \in 0 .. Len(a) + Len(b) /\ p + d >= Len(a) /\ (p + d) - Len(a) = d
  <2>1. Len(a) = p /\ Len(b) = q + 1 - p /\ p \in Nat /\ q \in Nat
    BY <1>2, <1>10
  <2>2. p + d \in 0 .. p + (q + 1 - p) /\ p + d >= p /\ (p + d) - p = d
    BY <1>4, <2>1
  <2> QED BY <2>1, <2>2
<1>12. Drop(a \o b, p + d) = Drop(b, (p + d) - Len(a))
  <2>1. a \in Seq(Nat) /\ b \in Seq(Nat)
    BY <1>10
  <2> QED BY <1>11, <2>1, DropConcat
<1> QED BY <1>5, <1>8, <1>9, <1>10, <1>11, <1>12

LEMMA ShiftedHolds ==
  ASSUME NEW c \in Seq(Buf), NEW n \in 1 .. Len(Content(c))
  PROVE  Shifted(c, n) \in Seq(Buf) /\ Content(Shifted(c, n)) = Drop(Content(c), n)
<1>0. Content(c) \in Seq(Nat) /\ Len(Content(c)) \in Nat /\ Len(c) \in Nat
  BY PiecesType
<1>1. c # <<>>
  <2>1. Content(<<>>) = <<>>
    BY DEF Content, FlattenSeq
  <2> QED BY <1>0, <2>1
<1>2. c[1] \in Buf /\ ~c[1].long
  <2>1. c[1] \in Buf
    BY <1>1, EmptySeq
  <2> QED BY <2>1 DEF Buf
<1> DEFINE upto == [i \in 0 .. Len(c) |-> Len(Content(SubSeq(c, 1, i)))]
           gone == CHOOSE i \in 0 .. Len(c) : upto[i] <= n /\ (i = Len(c) \/ upto[i + 1] > n)
           rest == SubSeq(c, gone + 1, Len(c))
<1> HIDE DEF upto, gone, rest
<1>6. Shifted(c, n) = IF rest = <<>> THEN rest ELSE [rest EXCEPT ![1].p1 = @ + (n - upto[gone])]
  BY <1>2 DEF Shifted, rest, gone, upto
<1>7. ASSUME NEW i \in 0 .. Len(c)
      PROVE  /\ SubSeq(c, 1, i) \in Seq(Buf) /\ Content(SubSeq(c, 1, i)) \in Seq(Nat)
             /\ upto[i] = Len(Content(SubSeq(c, 1, i))) /\ upto[i] \in Nat
  <2>1. PICK d : d = SubSeq(c, 1, i) /\ d \in Seq(Buf)
    BY DropPart
  <2>2. Content(d) \in Seq(Nat)
    BY <2>1, PiecesType
  <2> QED BY <2>1, <2>2 DEF upto
<1>8. gone \in 0 .. Len(c) /\ upto[gone] <= n /\ (gone = Len(c) \/ upto[gone + 1] > n)
  <2> SUFFICES ASSUME ~(\E i \in 0 .. Len(c) : upto[i] <= n /\ (i = Len(c) \/ upto[i + 1] > n))
               PROVE  FALSE
    BY DEF gone
  <2> DEFINE N == {i \in Nat : i <= Len(c) => upto[i] <= n}
  <2>1. 0 \in N
    <3>1. SubSeq(c, 1, 0) = <<>> /\ Content(<<>>) = <<>> /\ Len(<<>>) = 0
      BY SubSeqEmpty DEF Content, FlattenSeq
    <3>2. upto[0] = 0
      <4>1. upto[0] = Len(Content(SubSeq(c, 1, 0)))
        BY <1>0, <1>7
      <4> QED BY <3>1, <4>1
    <3> QED BY <3>2
  <2>2. ASSUME NEW i \in Nat, i \in N PROVE i + 1 \in N
    <3> SUFFICES ASSUME i + 1 <= Len(c) PROVE upto[i + 1] <= n
      OBVIOUS
    <3>1. i \in 0 .. Len(c) /\ i + 1 \in 0 .. Len(c) /\ i # Len(c) /\ i <= Len(c)
      BY <1>0
    <3>2. upto[i] <= n
      BY <2>2, <3>1
    <3>3. ~(upto[i + 1] > n)
      BY <3>1, <3>2
    <3> QED BY <1>7, <3>1, <3>3
  <2> HIDE DEF N
  <2>3. Nat \subseteq N
    BY <2>1, <2>2, SetInduction
  <2>4. upto[Len(c)] <= n /\ Len(c) \in 0 .. Len(c)
    BY <1>0, <2>3 DEF N
  <2> QED BY <2>4
<1>9. PICK P : P = Content(SubSeq(c, 1, gone)) /\ P \in Seq(Nat) /\ Len(P) = upto[gone]
  BY <1>7, <1>8
<1>10. SubSeq(c, 1, gone) \in Seq(Buf) /\ rest \in Seq(Buf) /\ c = SubSeq(c, 1, gone) \o rest /\ Len(rest) = Len(c) - gone
  <2>1. /\ SubSeq(c, 1, gone) \in Seq(Buf) /\ Drop(c, gone) \in Seq(Buf)
        /\ c = SubSeq(c, 1, gone) \o Drop(c, gone) /\ Len(Drop(c, gone)) = Len(c) - gone
    BY <1>8, DropPart
  <2>2. rest = Drop(c, gone)
    BY DEF rest, Drop
  <2> QED BY <2>1, <2>2
<1>11. PICK R : R = Content(rest) /\ R \in Seq(Nat)
  BY <1>10, PiecesType
<1>12. Content(c) = P \o R
  <2>1. PICK a : a = SubSeq(c, 1, gone) /\ a \in Seq(Buf) /\ c = a \o rest /\ rest \in Seq(Buf)
    BY <1>10
  <2>2. Content(a \o rest) = Content(a) \o Content(rest)
    BY <2>1, ContentConcat
  <2> QED BY <1>9, <1>11, <2>1, <2>2
<1>13. Len(Content(c)) = Len(P) + Len(R) /\ Len(P) \in Nat /\ Len(R) \in Nat /\ Len(P) <= n
  BY <1>8, <1>9, <1>11, <1>12, ConcatProperties
<1>14. PICK k : k = n - Len(P) /\ k \in Nat /\ k <= Len(R)
  <2>1. n - Len(P) \in Nat /\ n - Len(P) <= Len(R)
    BY <1>13
  <2> QED BY <2>1
<1>15. Drop(Content(c), n) = Drop(R, k)
  <2>1. n \in 0 .. Len(P) + Len(R) /\ n >= Len(P)
    BY <1>13
  <2>2. P \in Seq(Nat) /\ R \in Seq(Nat)
    BY <1>9, <1>11
  <2>3. Drop(P \o R, n) = Drop(R, n - Len(P))
    BY <2>1, <2>2, DropConcat
  <2> QED BY <1>12, <1>14, <2>3
<1>16. CASE rest = <<>>
  <2>1. R = <<>> /\ Len(R) = 0
    BY <1>11, <1>16 DEF Content, FlattenSeq
  <2>2. Drop(R, k) = <<>>
    <3>1. k = 0
      BY <1>14, <2>1
    <3>2. SubSeq(R, 0 + 1, 0) = <<>>
      BY SubSeqEmpty
    <3> QED BY <2>1, <3>1, <3>2 DEF Drop
  <2> QED BY <1>6, <1>10, <1>11, <1>15, <1>16, <2>1, <2>2
<1>17. CASE rest # <<>>
  <2>1. Len(rest) \in Nat \ {0} /\ 1 \in 1 .. Len(rest) /\ 1 \in 0 .. Len(rest)
    BY <1>10, <1>17, EmptySeq
  <2>2. PICK h : h = rest[1] /\ h \in Buf
    BY <1>10, <2>1
  <2>3. PICK t : t = Drop(rest, 1) /\ t \in Seq(Buf) /\ Len(t) = Len(rest) - 1 /\ rest = <<h>> \o t
    <3>1. /\ Drop(rest, 1) \in Seq(Buf) /\ Len(Drop(rest, 1)) = Len(rest) - 1
          /\ rest = SubSeq(rest, 1, 1) \o Drop(rest, 1)
      BY <1>10, <2>1, DropPart
    <3>2. SubSeq(rest, 1, 1) = <<h>>
      <4>1. SubSeq(rest, 1, 1) = <<rest[1]>> \o SubSeq(rest, 1 + 1, 1)
        BY <1>10, <2>1, SubSeqRecursiveFirst
      <4>2. SubSeq(rest, 1 + 1, 1) = <<>>
        BY SubSeqEmpty
      <4>3. <<h>> \in Seq(Buf)
        BY <2>2
      <4>4. <<h>> \o <<>> = <<h>>
        BY <4>3, ConcatEmptySeq
      <4> QED BY <2>2, <4>1, <4>2, <4>4
    <3> QED BY <3>1, <3>2
  <2>4. <<h>> \in Seq(Buf)
    BY <2>2
  <2>5. PICK H, T : H = Held(h) /\ T = Content(t) /\ H \in Seq(Nat) /\ T \in Seq(Nat) /\ Len(H) \in Nat
    BY <2>2, <2>3, HeldPart, PiecesType
  <2>6. R = H \o T
    <3>1. Content(<<h>> \o t) = Content(<<h>>) \o Content(t)
      BY <2>3, <2>4, ContentConcat
    <3> QED BY <1>11, <2>2, <2>3, <2>5, <3>1, ContentOne
  <2>7. Len(P) + Len(H) > n
    <3>1. gone \in Nat /\ gone < Len(c) /\ gone # Len(c) /\ gone + 1 \in 0 .. Len(c) /\ gone + 1 \in 1 .. Len(c)
          /\ 1 \in 1 .. Len(c) /\ gone + 1 \in 1 .. Len(c) /\ (gone + 1) - 1 = gone
      BY <1>0, <1>8, <1>10, <2>1
    <3>2. upto[gone + 1] > n
      BY <1>8, <3>1
    <3>3. SubSeq(c, 1, gone + 1) = SubSeq(c, 1, gone) \o <<c[gone + 1]>>
      BY <3>1, SubSeqRecursiveSecond
    <3>4. c[gone + 1] = h
      <4>1. \A i \in 1 .. Len(c) - gone : Drop(c, gone)[i] = c[gone + i]
        BY <1>8, DropPart
      <4>2. 1 \in 1 .. Len(c) - gone
        BY <1>10, <2>1
      <4> QED BY <2>2, <4>1, <4>2 DEF rest, Drop
    <3>5. PICK a : a = SubSeq(c, 1, gone) /\ a \in Seq(Buf)
      BY <1>10
    <3>6. Content(a \o <<h>>) = P \o H
      <4>1. Content(a \o <<h>>) = Content(a) \o Content(<<h>>)
        BY <2>4, <3>5, ContentConcat
      <4> QED BY <1>9, <2>2, <2>5, <3>5, <4>1, ContentOne
    <3>7. upto[gone + 1] = Len(P \o H)
      BY <1>7, <3>1, <3>3, <3>4, <3>5, <3>6
    <3>8. Len(P \o H) = Len(P) + Len(H)
      BY <1>9, <2>5, ConcatProperties
    <3> QED BY <3>2, <3>7, <3>8
  <2>8. k \in 0 .. Len(H) - 1
    BY <1>13, <1>14, <2>5, <2>7
  <2>9. PICK g : g = [h EXCEPT !.p1 = @ + k] /\ g \in Buf /\ Held(g) = Drop(H, k)
    BY <2>2, <2>5, <2>8, CutHolds
  <2>10. Shifted(c, n) = [rest EXCEPT ![1] = g]
    BY <1>6, <1>9, <1>10, <1>14, <1>17, <2>1, <2>2, <2>9
  <2>11. [rest EXCEPT ![1] = g] = <<g>> \o t
    <3>1. PICK x : x = [rest EXCEPT ![1] = g]
      OBVIOUS
    <3>2. x \in Seq(Buf) /\ Len(x) = Len(rest) /\ x[1] = g /\ \A i \in 2 .. Len(rest) : x[i] = rest[i]
      BY <1>10, <2>1, <2>9, <3>1
    <3>3. <<g>> \in Seq(Buf)
      BY <2>9
    <3>4. PICK y : y = <<g>> \o t /\ y \in Seq(Buf)
      BY <2>3, <3>3, ConcatProperties
    <3>a. t \in Seq(Buf) /\ Len(t) \in Nat /\ Len(t) = Len(rest) - 1 /\ Len(rest) \in Nat
      BY <2>1, <2>3
    <3>5. Len(y) = 1 + Len(t) /\ y[1] = g /\ \A i \in 2 .. 1 + Len(t) : y[i] = t[i - 1]
      BY <3>4, <3>a
    <3>6. \A i \in 2 .. 1 + Len(t) : rest[i] = t[i - 1]
      BY <2>2, <2>3
    <3>7. Len(x) = Len(y) /\ Len(x) \in Nat
      <4>1. 1 + (Len(rest) - 1) = Len(rest)
        BY <3>a
      <4> QED BY <3>2, <3>5, <3>a, <4>1
    <3>8. ASSUME NEW i \in 1 .. Len(x) PROVE x[i] = y[i]
      <4>1. CASE i = 1
        BY <3>2, <3>5, <4>1
      <4>2. CASE i # 1
        <5>1. i \in 2 .. Len(rest) /\ i \in 2 .. 1 + Len(t)
          BY <3>2, <3>a, <4>2
        <5> QED BY <3>2, <3>5, <3>6, <5>1
      <4> QED BY <4>1, <4>2
    <3>9. x = y
      BY <3>2, <3>4, <3>7, <3>8, SeqEqual
    <3> QED BY <3>1, <3>4, <3>9
  <2>12. <<g>> \in Seq(Buf) /\ <<g>> \o t \in Seq(Buf)
    <3>1. <<g>> \in Seq(Buf)
      BY <2>9
    <3> QED BY <2>3, <3>1, ConcatProperties
  <2>13. Content(<<g>> \o t) = Drop(H, k) \o T
    <3>1. Content(<<g>> \o t) = Content(<<g>>) \o Content(t)
      BY <2>3, <2>12, ContentConcat
    <3> QED BY <2>5, <2>9, <3>1, ContentOne
  <2>14. Drop(H \o T, k) = Drop(H, k) \o T
    <3>1. k \in 0 .. Len(H) + Len(T) /\ k <= Len(H)
      BY <2>5, <2>8
    <3>2. H \in Seq(Nat) /\ T \in Seq(Nat)
      BY <2>5
    <3> QED BY <3>1, <3>2, DropConcat
  <2> QED BY <1>15, <2>6, <2>10, <2>11, <2>12, <2>13, <2>14
<1> QED BY <1>16, <1>17

-----------------------------------------------------------------------------
(***************************************************************************)
(* The invariant.  The length is that of the content, although it is kept  *)
(* by counting; what has left and what is there are the bytes that came,   *)
(* in order; while a line is waited for, what is cached has been looked    *)
(* through: it has no delimiter, and is shorter than the line may be.      *)
(***************************************************************************)
Upto(n) == [i \in 1 .. n |-> i]

ReadKinds == {"line", "any", "n", "cint"}

CacheTyped ==
    /\ side \in {"read", "write"} /\ chain \in Seq(Buf) /\ came \in Nat /\ taken \in Seq(Nat)
    /\ op \in [kind : ReadKinds \cup {"none", "flush"}, want : Nat, checked : BOOLEAN]

Counted == length = Len(Content(chain))

InOrder == taken \o Content(chain) = Upto(came)

Waiting ==
    /\ op.kind \in ReadKinds => side = "read" /\ op.want > 0
    /\ op.checked => op.kind \in ReadKinds
    /\ op.kind = "line" /\ op.checked =>
         /\ \A i \in DOMAIN Content(chain) : Content(chain)[i] \notin Final
         /\ length < op.want

CacheInv == CacheTyped /\ Counted /\ InOrder /\ Waiting

LEMMA UptoType ==
  ASSUME NEW n \in Nat
  PROVE  Upto(n) \in Seq(Nat) /\ Len(Upto(n)) = n /\ \A i \in 1 .. n : Upto(n)[i] = i
<1>1. ASSUME NEW i \in 1 .. n PROVE i \in Nat
  OBVIOUS
<1> QED BY <1>1 DEF Upto

LEMMA ComingType ==
  ASSUME came \in Nat, NEW n \in Nat
  PROVE  /\ Coming(n) \in Seq(Nat) /\ Len(Coming(n)) = n
         /\ \A i \in 1 .. n : Coming(n)[i] = came + i
<1>1. ASSUME NEW i \in 1 .. n PROVE came + i \in Nat
  OBVIOUS
<1> QED BY <1>1 DEF Coming

LEMMA UptoMore ==
  ASSUME came \in Nat, NEW n \in Nat
  PROVE  Upto(came) \o Coming(n) = Upto(came + n)
<1>1. PICK k \in Nat : k = came
  OBVIOUS
<1>2. PICK a : a = Upto(k) /\ a \in Seq(Nat) /\ Len(a) = k /\ \A i \in 1 .. k : a[i] = i
  BY UptoType
<1>3. PICK b : b = Coming(n) /\ b \in Seq(Nat) /\ Len(b) = n /\ \A i \in 1 .. n : b[i] = k + i
  BY <1>1, ComingType
<1>4. k + n \in Nat
  OBVIOUS
<1>5. PICK c : c = Upto(k + n) /\ c \in Seq(Nat) /\ Len(c) = k + n /\ \A i \in 1 .. k + n : c[i] = i
  BY <1>4, UptoType
<1>6. /\ a \o b \in Seq(Nat) /\ Len(a \o b) = Len(a) + Len(b)
      /\ \A i \in 1 .. Len(a) + Len(b) : (a \o b)[i] = IF i <= Len(a) THEN a[i] ELSE b[i - Len(a)]
  BY <1>2, <1>3, ConcatProperties
<1>7. Len(a \o b) = k + n /\ \A i \in 1 .. k + n : (a \o b)[i] = IF i <= k THEN a[i] ELSE b[i - k]
  BY <1>2, <1>3, <1>6
<1>8. ASSUME NEW i \in 1 .. k + n PROVE (a \o b)[i] = c[i]
  <2>1. CASE i <= k
    <3>1. i \in 1 .. k
      BY <2>1
    <3> QED BY <1>2, <1>5, <1>7, <2>1, <3>1
  <2>2. CASE ~(i <= k)
    <3>1. i - k \in 1 .. n /\ k + (i - k) = i
      BY <2>2
    <3> QED BY <1>3, <1>5, <1>7, <2>2, <3>1
  <2> QED BY <2>1, <2>2
<1>9. a \o b = c
  BY <1>5, <1>6, <1>7, <1>8, SeqEqual
<1> QED BY <1>1, <1>2, <1>3, <1>5, <1>9

(* Ending finds the first one, if there is one.                             *)
LEMMA EndingFirst ==
  ASSUME NEW s \in Seq(Nat)
  PROVE  \/ Ending(s) = 0 /\ \A i \in 1 .. Len(s) : s[i] \notin Final
         \/ /\ Ending(s) \in 1 .. Len(s) /\ s[Ending(s)] \in Final
            /\ \A i \in 1 .. Ending(s) - 1 : s[i] \notin Final
<1> DEFINE E == {i \in DOMAIN s : s[i] \in Final}
           R == OpToRel(<, Nat)
<1>0. DOMAIN s = 1 .. Len(s) /\ Len(s) \in Nat
  OBVIOUS
<1>1. Ending(s) = IF E = {} THEN 0 ELSE CHOOSE i \in E : \A j \in E : i <= j
  BY DEF Ending
<1>2. CASE E = {}
  BY <1>0, <1>1, <1>2
<1>3. CASE E # {}
  <2>1. IsWellFoundedOn(R, Nat)
    BY NatLessThanWellFounded
  <2>2. E \subseteq Nat
    BY <1>0
  <2> HIDE DEF R, E
  <2>3. PICK x \in E : \A y \in E : ~(<<y, x>> \in R)
    BY <1>3, <2>1, <2>2, WFMin
  <2>4. ASSUME NEW y \in E PROVE x <= y
    <3>1. x \in Nat /\ y \in Nat /\ ~(<<y, x>> \in R)
      BY <2>2, <2>3
    <3>2. ~(y < x)
      BY <3>1 DEF R, OpToRel
    <3> QED BY <3>1, <3>2
  <2>5. Ending(s) \in E /\ \A j \in E : Ending(s) <= j
    BY <1>1, <1>3, <2>3, <2>4
  <2>6. PICK e : e = Ending(s)
    OBVIOUS
  <2>7. e \in 1 .. Len(s) /\ s[e] \in Final /\ \A j \in 1 .. Len(s) : s[j] \in Final => e <= j
    BY <1>0, <2>5, <2>6 DEF E
  <2>8. \A i \in 1 .. e - 1 : s[i] \notin Final
    BY <1>0, <2>7
  <2> QED BY <2>6, <2>7, <2>8
<1> QED BY <1>2, <1>3

-----------------------------------------------------------------------------
(* What Put and Take do to the bytes.                                       *)

LEMMA PutHolds ==
  ASSUME CacheInv, NEW n \in 1 .. MaxChunk, Put(n), taken' = taken
  PROVE  /\ chain' \in Seq(Buf) /\ came' \in Nat /\ Counted' /\ InOrder'
         /\ Content(chain') = Content(chain) \o Coming(n)
         /\ length' = Len(Content(chain)) + n /\ length \in Nat
<1>0. n \in Nat
  BY CacheAssumption
<1>1. chain \in Seq(Buf) /\ came \in Nat /\ length = Len(Content(chain)) /\ taken \in Seq(Nat)
  BY DEF CacheInv, CacheTyped, Counted
<1>2. PICK s : s = Coming(n) /\ s \in Seq(Nat) /\ Len(s) = n
  BY <1>0, <1>1, ComingType
<1>3. chain' = Appended(chain, s) /\ length' = length + n /\ came' = came + n
  BY <1>2 DEF Put
<1>4. chain' \in Seq(Buf) /\ Content(chain') = Content(chain) \o s
  BY <1>1, <1>2, <1>3, AppendedHolds
<1>5. PICK C : C = Content(chain) /\ C \in Seq(Nat) /\ Len(C) \in Nat
  BY <1>1, PiecesType
<1>6. Len(C \o s) = Len(C) + n
  BY <1>2, <1>5, ConcatProperties
<1>7. Counted'
  BY <1>1, <1>2, <1>3, <1>4, <1>5, <1>6 DEF Counted
<1>8. came' \in Nat
  BY <1>0, <1>1, <1>3
<1>9. InOrder'
  <2>1. taken \o C = Upto(came)
    BY <1>5 DEF CacheInv, InOrder
  <2>2. taken \in Seq(Nat) /\ C \in Seq(Nat) /\ s \in Seq(Nat)
    BY <1>1, <1>2, <1>5
  <2>3. Grouped(taken, C, s)
    BY <2>2, Regroup
  <2>4. (taken \o C) \o s = taken \o (C \o s)
    BY <2>3, Zenon DEF Grouped
  <2>5. Upto(came) \o s = Upto(came + n)
    BY <1>0, <1>1, <1>2, UptoMore
  <2> QED BY <1>3, <1>4, <1>5, <2>1, <2>4, <2>5 DEF InOrder
<1> QED BY <1>1, <1>2, <1>3, <1>4, <1>5, <1>7, <1>8, <1>9

LEMMA TakeHolds ==
  ASSUME CacheInv, NEW n \in 1 .. Len(Content(chain)), Take(n), came' = came
  PROVE  /\ chain' \in Seq(Buf) /\ taken' \in Seq(Nat) /\ Counted' /\ InOrder'
         /\ Content(chain') = Drop(Content(chain), n)
<1>1. chain \in Seq(Buf) /\ came \in Nat /\ length = Len(Content(chain)) /\ taken \in Seq(Nat)
  BY DEF CacheInv, CacheTyped, Counted
<1>2. /\ chain' = Shifted(chain, n) /\ length' = length - n
      /\ taken' = taken \o SubSeq(Content(chain), 1, n)
  BY DEF Take
<1>3. chain' \in Seq(Buf) /\ Content(chain') = Drop(Content(chain), n)
  BY <1>1, <1>2, ShiftedHolds
<1>4. PICK C : C = Content(chain) /\ C \in Seq(Nat) /\ n \in 0 .. Len(C)
  BY <1>1, PiecesType
<1>5. /\ Drop(C, n) \in Seq(Nat) /\ Len(Drop(C, n)) = Len(C) - n /\ SubSeq(C, 1, n) \in Seq(Nat)
      /\ C = SubSeq(C, 1, n) \o Drop(C, n)
  <2>1. C \in Seq(Nat) /\ n \in 0 .. Len(C)
    BY <1>4
  <2> QED BY <2>1, DropPart
<1>6. PICK a, b : /\ a = SubSeq(C, 1, n) /\ b = Drop(C, n) /\ a \in Seq(Nat) /\ b \in Seq(Nat)
                  /\ Len(b) = Len(C) - n /\ C = a \o b
  BY ONLY <1>5
<1>7. taken' \in Seq(Nat)
  BY <1>1, <1>2, <1>4, <1>6, ConcatProperties
<1>8. Counted'
  BY <1>1, <1>2, <1>3, <1>4, <1>6 DEF Counted
<1>9. InOrder'
  <2>1. taken \o C = Upto(came)
    BY <1>4 DEF CacheInv, InOrder
  <2>2. taken \in Seq(Nat) /\ a \in Seq(Nat) /\ b \in Seq(Nat)
    BY <1>1, <1>6
  <2>3. Grouped(taken, a, b)
    BY <2>2, Regroup
  <2>4. (taken \o a) \o b = taken \o (a \o b)
    BY <2>3, Zenon DEF Grouped
  <2> QED BY <1>2, <1>3, <1>4, <1>6, <2>1, <2>4 DEF InOrder
<1> QED BY <1>3, <1>7, <1>8, <1>9

-----------------------------------------------------------------------------
(***************************************************************************)
(* One step: it keeps the invariant, and is a step of the byte queue or    *)
(* none; it ends a flush only when everything has left; it ends a read     *)
(* with the right result.                                                  *)
(***************************************************************************)
FifoStep == [Fifo!Next]_<<Content(chain), came, taken>>

FlushStep == op.kind = "flush" /\ op' = Idle => taken = Upto(came)

ReadStep ==
    op # Idle /\ op' = Idle /\ result' > 0 =>
      LET C == Content(chain')
          H == SubSeq(taken', Len(taken) + 1, Len(taken'))
      IN  CASE op.kind = "line" ->
                 /\ result' <= Len(C)
                 /\ result' = op.want \/ C[result'] \in Final
                 /\ \A i \in 1 .. result' - 1 : C[i] \notin Final
            [] op.kind = "any" -> result' = Lesser(op.want, Len(C)) /\ result' > 0
            [] op.kind = "n" -> result' = op.want /\ result' <= Len(C)
            [] op.kind = "cint" ->
                 /\ result' = Len(H) /\ H[Len(H)] \in Final
                 /\ \A i \in 1 .. Len(H) - 1 : H[i] \notin Final
            [] OTHER -> TRUE

GoodStep == CacheInv' /\ FifoStep /\ FlushStep /\ ReadStep

LEMMA IdleType == Idle \in [kind : ReadKinds \cup {"none", "flush"}, want : Nat, checked : BOOLEAN]
                  /\ Idle.kind = "none" /\ ~Idle.checked
BY DEF Idle

(* A step that moves no byte.                                               *)
LEMMA StillKeeps ==
  ASSUME CacheInv, UNCHANGED <<side, chain, length, came, taken>>,
         op' \in [kind : ReadKinds \cup {"none", "flush"}, want : Nat, checked : BOOLEAN],
         Waiting'
  PROVE  CacheInv' /\ FifoStep
<1>1. UNCHANGED <<side, chain, length, came, taken>>
  OBVIOUS
<1>2. CacheTyped'
  BY DEF CacheInv, CacheTyped
<1>3. Counted'
  BY <1>1 DEF CacheInv, Counted
<1>4. InOrder'
  BY <1>1 DEF CacheInv, InOrder
<1>5. FifoStep
  BY <1>1 DEF FifoStep
<1> QED BY <1>2, <1>3, <1>4, <1>5 DEF CacheInv

LEMMA PutIsStep ==
  ASSUME CacheInv, NEW n \in 1 .. MaxChunk, Put(n), taken' = taken
  PROVE  FifoStep
<1>1. Content(chain') = Content(chain) \o Coming(n) /\ came' = came + n
  BY PutHolds DEF Put
<1>2. Fifo!Put(n)
  BY <1>1 DEF Fifo!Put, Coming
<1> QED BY <1>2 DEF FifoStep, Fifo!Next

LEMMA TakeIsStep ==
  ASSUME CacheInv, NEW n \in 1 .. Len(Content(chain)), Take(n), came' = came
  PROVE  FifoStep
<1>1. Content(chain') = Drop(Content(chain), n) /\ taken' = taken \o SubSeq(Content(chain), 1, n)
  BY TakeHolds DEF Take
<1>2. Fifo!Get(n)
  BY <1>1 DEF Fifo!Get, Drop
<1> QED BY <1>2 DEF FifoStep, Fifo!Next

LEMMA CacheWriteKeeps ==
  ASSUME CacheInv, NEW n, CacheWrite(n)
  PROVE  GoodStep
<1>1. /\ n \in 1 .. MaxChunk /\ Put(n) /\ UNCHANGED <<side, taken, op, result>> /\ side = "write"
  BY DEF CacheWrite, Chunk
<1>2. chain' \in Seq(Buf) /\ came' \in Nat /\ Counted' /\ InOrder'
  BY <1>1, PutHolds
<1>3. CacheTyped'
  BY <1>1, <1>2 DEF CacheInv, CacheTyped
<1>4. op.kind \notin ReadKinds /\ op.kind # "line"
  BY <1>1 DEF CacheInv, Waiting, ReadKinds
<1>5. Waiting'
  BY <1>1, <1>4 DEF CacheInv, Waiting
<1>6. FifoStep
  BY <1>1, PutIsStep
<1>7. FlushStep /\ ReadStep
  BY <1>1, IdleType DEF FlushStep, ReadStep
<1> QED BY <1>2, <1>3, <1>5, <1>6, <1>7 DEF CacheInv, GoodStep

LEMMA FlushKeeps ==
  ASSUME CacheInv, CacheFlush
  PROVE  GoodStep
<1>1. /\ side = "write" /\ op = Idle /\ op' = [Idle EXCEPT !.kind = "flush"]
      /\ UNCHANGED <<side, chain, length, came, taken, result>>
  BY DEF CacheFlush
<1>2. op' \in [kind : ReadKinds \cup {"none", "flush"}, want : Nat, checked : BOOLEAN]
  BY <1>1 DEF Idle
<1>3. op'.kind = "flush" /\ ~op'.checked
  BY <1>1 DEF Idle
<1>4. Waiting'
  BY <1>3 DEF Waiting, ReadKinds
<1>5. FlushStep /\ ReadStep
  BY <1>1, IdleType DEF FlushStep, ReadStep
<1> QED BY <1>1, <1>2, <1>4, <1>5, StillKeeps DEF GoodStep

(* The first buffer holds part of the content.                              *)
LEMMA FirstPart ==
  ASSUME CacheInv
  PROVE  /\ FirstLine(chain) = 0 => chain = <<>>
         /\ \A n \in 1 .. FirstLine(chain) : n \in 1 .. Len(Content(chain))
<1>1. chain \in Seq(Buf)
  BY DEF CacheInv, CacheTyped
<1>2. CASE chain = <<>>
  BY <1>2 DEF FirstLine
<1>3. CASE chain # <<>>
  <2>1. Len(chain) \in Nat /\ 1 \in 1 .. Len(chain) /\ 1 \in 0 .. Len(chain)
    BY <1>1, <1>3, EmptySeq
  <2>2. PICK h : h = chain[1] /\ h \in Buf
    BY <1>1, <2>1
  <2>3. FirstLine(chain) = Len(Held(h)) /\ Held(h) \in Seq(Nat) /\ Len(Held(h)) \in Nat \ {0}
    BY <1>3, <2>2, HeldPart DEF FirstLine
  <2>4. PICK t : t = Drop(chain, 1) /\ t \in Seq(Buf) /\ chain = SubSeq(chain, 1, 1) \o t
    BY <1>1, <2>1, DropPart
  <2>5. SubSeq(chain, 1, 1) = <<h>> /\ <<h>> \in Seq(Buf)
    <3>1. SubSeq(chain, 1, 1) = <<chain[1]>> \o SubSeq(chain, 1 + 1, 1)
      BY <1>1, <2>1, SubSeqRecursiveFirst
    <3>2. SubSeq(chain, 1 + 1, 1) = <<>>
      BY SubSeqEmpty
    <3>3. <<h>> \in Seq(Buf)
      BY <2>2
    <3>4. <<h>> \o <<>> = <<h>>
      BY <3>3, ConcatEmptySeq
    <3> QED BY <2>2, <3>1, <3>2, <3>3, <3>4
  <2>6. Content(chain) = Held(h) \o Content(t)
    <3>1. Content(<<h>> \o t) = Content(<<h>>) \o Content(t)
      BY <2>4, <2>5, ContentConcat
    <3> QED BY <2>2, <2>4, <2>5, <3>1, ContentOne
  <2>7. Content(t) \in Seq(Nat)
    BY <2>4, PiecesType
  <2>8. Len(Content(chain)) = Len(Held(h)) + Len(Content(t)) /\ Len(Content(t)) \in Nat
    BY <2>3, <2>6, <2>7, ConcatProperties
  <2> QED BY <2>3, <2>8
<1> QED BY <1>2, <1>3

LEMMA WriteKeeps ==
  ASSUME CacheInv, Write
  PROVE  GoodStep
<1>1. PICK n \in 1 .. FirstLine(chain) : Take(n)
  BY DEF Write
<1>2. UNCHANGED <<side, came, op, result>> /\ op.kind = "flush"
  BY DEF Write
<1>3. n \in 1 .. Len(Content(chain))
  BY <1>1, FirstPart
<1>4. chain' \in Seq(Buf) /\ taken' \in Seq(Nat) /\ Counted' /\ InOrder'
  BY <1>1, <1>2, <1>3, TakeHolds
<1>5. CacheTyped'
  BY <1>2, <1>4 DEF CacheInv, CacheTyped
<1>6. Waiting'
  <2>1. op.kind \notin ReadKinds /\ op.kind # "line"
    BY <1>2 DEF ReadKinds
  <2> QED BY <1>2, <2>1 DEF CacheInv, Waiting
<1>7. FifoStep
  BY <1>1, <1>2, <1>3, TakeIsStep
<1>8. FlushStep /\ ReadStep
  BY <1>2, IdleType DEF FlushStep, ReadStep
<1> QED BY <1>4, <1>5, <1>6, <1>7, <1>8 DEF CacheInv, GoodStep

LEMMA WrittenKeeps ==
  ASSUME CacheInv, Written
  PROVE  GoodStep
<1>1. /\ op.kind = "flush" /\ FirstLine(chain) = 0 /\ op' = Idle
      /\ UNCHANGED <<side, chain, length, came, taken>>
  BY DEF Written, NothingLeft
<1>2. Waiting'
  BY <1>1, IdleType DEF Waiting, ReadKinds
<1>3. FlushStep
  <2>1. Content(chain) = <<>> /\ taken \in Seq(Nat)
    BY <1>1, FirstPart DEF Content, FlattenSeq, CacheInv, CacheTyped
  <2>2. taken \o Content(chain) = Upto(came)
    BY DEF CacheInv, InOrder
  <2> QED BY <2>1, <2>2, ConcatEmptySeq DEF FlushStep
<1>4. ReadStep
  BY <1>1 DEF ReadStep
<1> QED BY <1>1, <1>2, <1>3, <1>4, IdleType, StillKeeps DEF GoodStep

LEMMA ReadKeeps ==
  ASSUME CacheInv, NEW n \in 1 .. MaxChunk + 1, NEW k \in ReadKinds, Read(k, n)
  PROVE  GoodStep
<1>1. /\ side = "read" /\ op = Idle /\ op' = [kind |-> k, want |-> n, checked |-> FALSE]
      /\ UNCHANGED <<side, chain, length, came, taken>>
  BY DEF Read
<1>2. n \in Nat
  BY CacheAssumption
<1>3. op' \in [kind : ReadKinds \cup {"none", "flush"}, want : Nat, checked : BOOLEAN]
  BY <1>1, <1>2
<1>4. op'.kind = k /\ ~op'.checked /\ op'.want = n /\ n > 0
  BY <1>1
<1>5. Waiting'
  BY <1>1, <1>4 DEF Waiting
<1>6. FlushStep /\ ReadStep
  BY <1>1, IdleType DEF FlushStep, ReadStep
<1> QED BY <1>1, <1>3, <1>5, <1>6, StillKeeps DEF GoodStep

LEMMA NoMoreKeeps ==
  ASSUME CacheInv, NoMore
  PROVE  GoodStep
<1>1. /\ op.checked /\ op' = Idle /\ result' = -1 /\ UNCHANGED <<side, chain, length, came, taken>>
  BY DEF NoMore, Done
<1>2. Waiting'
  BY <1>1, IdleType DEF Waiting, ReadKinds
<1>3. op.kind # "flush"
  BY <1>1 DEF CacheInv, Waiting, ReadKinds
<1>4. FlushStep /\ ReadStep
  BY <1>1, <1>3 DEF FlushStep, ReadStep
<1> QED BY <1>1, <1>2, <1>4, IdleType, StillKeeps DEF GoodStep

LEMMA GetKeeps ==
  ASSUME CacheInv, NEW n, GetReadCache(n)
  PROVE  GoodStep
<1>1. /\ op = Idle /\ n \in 1 .. Len(Content(chain)) /\ Take(n) /\ UNCHANGED <<side, came, op>>
  BY DEF GetReadCache, CacheInv, Counted
<1>2. chain' \in Seq(Buf) /\ taken' \in Seq(Nat) /\ Counted' /\ InOrder'
  BY <1>1, TakeHolds
<1>3. CacheTyped'
  BY <1>1, <1>2 DEF CacheInv, CacheTyped
<1>4. Waiting'
  BY <1>1, IdleType DEF Waiting, ReadKinds
<1>5. FifoStep
  BY <1>1, TakeIsStep
<1>6. FlushStep /\ ReadStep
  BY <1>1, IdleType DEF FlushStep, ReadStep
<1> QED BY <1>2, <1>3, <1>4, <1>5, <1>6 DEF CacheInv, GoodStep

(* A read that has what it wants ends, or begins to wait.                   *)
LEMMA LookedKeeps ==
  ASSUME CacheInv, UNCHANGED <<side, chain, length, came, taken>>, op.kind \in ReadKinds,
         \/ op' = Idle
         \/ /\ op' = [op EXCEPT !.checked = TRUE]
            /\ op.kind = "line" => /\ \A i \in DOMAIN Content(chain) : Content(chain)[i] \notin Final
                                   /\ length < op.want
  PROVE  CacheInv' /\ FifoStep /\ FlushStep
<1>1. side = "read" /\ op.want > 0 /\ op.kind # "flush"
  BY DEF CacheInv, Waiting, ReadKinds
<1>2. op \in [kind : ReadKinds \cup {"none", "flush"}, want : Nat, checked : BOOLEAN]
  BY DEF CacheInv, CacheTyped
<1>3. CASE op' = Idle
  <2>1. Waiting'
    BY <1>3, IdleType DEF Waiting, ReadKinds
  <2> QED BY <1>1, <1>3, <2>1, IdleType, StillKeeps DEF FlushStep
<1>4. CASE op' = [op EXCEPT !.checked = TRUE]
  <2>1. op' \in [kind : ReadKinds \cup {"none", "flush"}, want : Nat, checked : BOOLEAN]
    BY <1>2, <1>4
  <2>2. op'.kind = op.kind /\ op'.want = op.want
    BY <1>2, <1>4
  <2>3. op.kind = "line" => /\ \A i \in DOMAIN Content(chain) : Content(chain)[i] \notin Final
                            /\ length < op.want
    <3>1. op.kind = "line" => op' # Idle
      BY <2>2, IdleType
    <3> QED BY <3>1
  <2>4. Waiting'
    BY <1>1, <2>2, <2>3 DEF Waiting
  <2> QED BY <1>1, <2>1, <2>4, StillKeeps DEF FlushStep
<1> QED BY <1>3, <1>4

LEMMA LookLineKeeps ==
  ASSUME CacheInv, LookLine
  PROVE  GoodStep
<1>1. PICK C : C = Content(chain) /\ C \in Seq(Nat) /\ length = Len(C) /\ Len(C) \in Nat
  BY PiecesType DEF CacheInv, CacheTyped, Counted
<1>2. PICK w \in Nat : w = op.want /\ w > 0
  BY DEF LookLine, CacheInv, CacheTyped, Waiting, ReadKinds
<1>3. op.kind = "line" /\ op.kind \in ReadKinds /\ UNCHANGED <<side, chain, length, came, taken>>
  BY DEF LookLine, ReadKinds
<1>4. PICK e : e = Ending(C)
  OBVIOUS
<1>5. \/ e = 0 /\ \A i \in 1 .. Len(C) : C[i] \notin Final
      \/ e \in 1 .. Len(C) /\ C[e] \in Final /\ \A i \in 1 .. e - 1 : C[i] \notin Final
  BY <1>1, <1>4, EndingFirst
<1>6. DOMAIN C = 1 .. Len(C)
  BY <1>1
<1>7. CASE LineCached # 0
  <2>1. op' = Idle /\ result' = LineCached
    BY <1>7 DEF LookLine, Done
  <2>2. CASE e # 0
    <3>1. LineCached = Lesser(e, w)
      BY <1>1, <1>2, <1>4, <2>2 DEF LineCached
    <3>2. e \in 1 .. Len(C) /\ C[e] \in Final /\ \A i \in 1 .. e - 1 : C[i] \notin Final
      BY <1>5, <2>2
    <3>3. PICK r : r = result' /\ (r = e \/ r = w) /\ r \in Nat /\ r <= e /\ r <= w
      <4>1. Lesser(e, w) \in Nat /\ Lesser(e, w) <= e /\ Lesser(e, w) <= w /\ (Lesser(e, w) = e \/ Lesser(e, w) = w)
        BY <1>1, <3>2 DEF Lesser
      <4> QED BY <2>1, <3>1, <4>1
    <3>4. r <= Len(C) /\ (r = w \/ C[r] \in Final) /\ \A i \in 1 .. r - 1 : C[i] \notin Final
      <4>0. e \in Nat /\ r \in Nat /\ Len(C) \in Nat /\ r <= e /\ e <= Len(C)
        <5>1. e \in 1 .. Len(C) /\ Len(C) \in Nat
          BY <1>1, <3>2
        <5>2. r \in Nat /\ r <= e
          BY <3>3
        <5> QED BY ONLY <5>1, <5>2
      <4>1. r <= Len(C) /\ 1 .. r - 1 \subseteq 1 .. e - 1
        BY ONLY <4>0
      <4>2. r = w \/ C[r] \in Final
        BY <3>2, <3>3
      <4> QED BY <3>2, <4>1, <4>2
    <3>5. ReadStep
      BY <1>1, <1>2, <1>3, <3>3, <3>4 DEF ReadStep
    <3> QED BY <1>3, <2>1, <3>5, LookedKeeps DEF GoodStep
  <2>3. CASE e = 0
    <3>1. LineCached = w /\ w <= Len(C)
      BY <1>1, <1>2, <1>4, <1>7, <2>3 DEF LineCached
    <3>2. \A i \in 1 .. w - 1 : C[i] \notin Final
      <4>1. \A i \in 1 .. Len(C) : C[i] \notin Final
        BY <1>5, <2>3
      <4> QED BY <1>1, <3>1, <4>1
    <3>3. ReadStep
      BY <1>1, <1>2, <1>3, <2>1, <3>1, <3>2 DEF ReadStep
    <3> QED BY <1>3, <2>1, <3>3, LookedKeeps DEF GoodStep
  <2> QED BY <2>2, <2>3
<1>8. CASE LineCached = 0
  <2>1. op' = [op EXCEPT !.checked = TRUE]
    BY <1>8 DEF LookLine
  <2>2. CASE e # 0
    <3>1. e \in Nat /\ e # 0 /\ LineCached = Lesser(e, w)
      BY <1>1, <1>2, <1>4, <1>5, <2>2 DEF LineCached
    <3>2. Lesser(e, w) # 0
      BY <1>2, <3>1 DEF Lesser
    <3> QED BY <1>8, <3>1, <3>2
  <2>3. CASE e = 0
    <3>1. ~(w <= Len(C))
      BY <1>1, <1>2, <1>4, <1>8, <2>3 DEF LineCached
    <3>2. length < op.want
      BY <1>1, <1>2, <3>1
    <3>3. \A i \in DOMAIN Content(chain) : Content(chain)[i] \notin Final
      BY <1>1, <1>5, <1>6, <2>3
    <3>4. ReadStep
      <4>1. op' # Idle
        <5>1. op'.kind = op.kind
          BY <2>1 DEF CacheInv, CacheTyped
        <5> QED BY <1>3, <5>1, IdleType
      <4> QED BY <4>1 DEF ReadStep
    <3> QED BY <1>3, <2>1, <3>2, <3>3, <3>4, LookedKeeps DEF GoodStep
  <2> QED BY <2>2, <2>3
<1> QED BY <1>7, <1>8

LEMMA LookAnyKeeps ==
  ASSUME CacheInv, LookAny
  PROVE  GoodStep
<1>1. op.kind = "any" /\ op.kind \in ReadKinds /\ UNCHANGED <<side, chain, length, came, taken>>
  BY DEF LookAny, ReadKinds
<1>2. \/ op' = Idle /\ result' = Lesser(op.want, length)
      \/ op' = [op EXCEPT !.checked = TRUE]
  BY DEF LookAny, Done
<1>3. length = Len(Content(chain)) /\ op \in [kind : ReadKinds \cup {"none", "flush"}, want : Nat, checked : BOOLEAN]
  BY DEF CacheInv, Counted, CacheTyped
<1>4. op' = Idle => result' = Lesser(op.want, length)
  <2>1. [op EXCEPT !.checked = TRUE].kind = op.kind
    BY <1>3
  <2> QED BY <1>1, <1>2, <2>1, IdleType
<1>5. ReadStep
  BY <1>1, <1>3, <1>4 DEF ReadStep
<1> QED BY <1>1, <1>2, <1>5, LookedKeeps DEF GoodStep

LEMMA LookNKeeps ==
  ASSUME CacheInv, LookN
  PROVE  GoodStep
<1>1. op.kind = "n" /\ op.kind \in ReadKinds /\ UNCHANGED <<side, chain, length, came, taken>>
  BY DEF LookN, ReadKinds
<1>2. \/ op' = Idle /\ result' = op.want /\ op.want <= length
      \/ op' = [op EXCEPT !.checked = TRUE]
  BY DEF LookN, Done
<1>3. length = Len(Content(chain)) /\ op \in [kind : ReadKinds \cup {"none", "flush"}, want : Nat, checked : BOOLEAN]
  BY DEF CacheInv, Counted, CacheTyped
<1>4. op' = Idle => result' = op.want /\ op.want <= length
  <2>1. [op EXCEPT !.checked = TRUE].kind = op.kind
    BY <1>3
  <2> QED BY <1>1, <1>2, <2>1, IdleType
<1>5. ReadStep
  BY <1>1, <1>3, <1>4 DEF ReadStep
<1> QED BY <1>1, <1>2, <1>5, LookedKeeps DEF GoodStep

LEMMA LookCintKeeps ==
  ASSUME CacheInv, LookCint
  PROVE  GoodStep
<1>1. op.kind = "cint" /\ op.kind \in ReadKinds /\ UNCHANGED <<side, came>>
  BY DEF LookCint, ReadKinds
<1>2. PICK C : C = Content(chain) /\ C \in Seq(Nat) /\ Len(C) \in Nat
  BY PiecesType DEF CacheInv, CacheTyped
<1>3. PICK e : e = Ending(C)
  OBVIOUS
<1>4. \/ e = 0 /\ \A i \in 1 .. Len(C) : C[i] \notin Final
      \/ e \in 1 .. Len(C) /\ C[e] \in Final /\ \A i \in 1 .. e - 1 : C[i] \notin Final
  BY <1>2, <1>3, EndingFirst
<1>5. CASE e \in 1 .. MaxCint
  <2>1. op' = Idle /\ result' = e /\ Take(e)
    BY <1>2, <1>3, <1>5 DEF LookCint, Done
  <2>2. e \in 1 .. Len(C) /\ C[e] \in Final /\ \A i \in 1 .. e - 1 : C[i] \notin Final
    BY <1>4, <1>5
  <2>3. chain' \in Seq(Buf) /\ taken' \in Seq(Nat) /\ Counted' /\ InOrder'
    BY <1>1, <1>2, <2>1, <2>2, TakeHolds
  <2>4. CacheTyped'
    BY <1>1, <2>1, <2>3, IdleType DEF CacheInv, CacheTyped
  <2>5. Waiting'
    BY <2>1, IdleType DEF Waiting, ReadKinds
  <2>6. FifoStep
    BY <1>1, <1>2, <2>1, <2>2, TakeIsStep
  <2>7. FlushStep
    BY <1>1 DEF FlushStep
  <2>8. ReadStep
    <3>1. PICK a : a = SubSeq(C, 1, e) /\ a \in Seq(Nat) /\ Len(a) = e /\ \A i \in 1 .. e : a[i] = C[i]
      <4>1. C \in Seq(Nat) /\ e \in 0 .. Len(C) /\ e \in Nat /\ 0 \in Nat /\ 0 <= e /\ e <= Len(C)
        BY <1>2, <2>2
      <4>2. SubSeq(C, 1, e) \in Seq(Nat) /\ Len(SubSeq(C, 1, e)) = e
        BY <4>1, DropPart
      <4>3. \A i \in 1 .. e - 0 : SubSeq(C, 0 + 1, e)[i] = C[0 + i]
        BY <4>1, Part
      <4>4. \A i \in 1 .. e : SubSeq(C, 1, e)[i] = C[i]
        BY <4>1, <4>3
      <4> QED BY ONLY <4>2, <4>4
    <3>2. PICK t : t = taken /\ t \in Seq(Nat) /\ Len(t) \in Nat
      BY DEF CacheInv, CacheTyped
    <3>3. taken' = t \o a
      BY <1>2, <2>1, <3>1, <3>2 DEF Take
    <3>4. SubSeq(taken', Len(taken) + 1, Len(taken')) = a
      <4>1. /\ Len(t) \in 0 .. Len(t) + Len(a) /\ Len(t) >= Len(t) /\ Len(t) - Len(t) = 0
            /\ t \in Seq(Nat) /\ a \in Seq(Nat) /\ 0 \in 0 .. Len(a)
        BY <3>1, <3>2
      <4>2. Drop(t \o a, Len(t)) = Drop(a, 0)
        BY <4>1, DropConcat
      <4>3. Drop(a, 0) = a
        <5>1. SubSeq(a, 1, Len(a)) = a
          BY <4>1, SubSeqFull
        <5> QED BY <5>1 DEF Drop
      <4> QED BY <3>2, <3>3, <4>2, <4>3 DEF Drop
    <3>5. a[e] = C[e] /\ \A i \in 1 .. e - 1 : a[i] = C[i]
      BY <2>2, <3>1
    <3> QED BY <1>1, <2>1, <2>2, <3>1, <3>4, <3>5 DEF ReadStep
  <2> QED BY <2>3, <2>4, <2>5, <2>6, <2>7, <2>8 DEF CacheInv, GoodStep
<1>6. CASE e \notin 1 .. MaxCint
  <2>1. /\ UNCHANGED <<side, chain, length, came, taken>>
        /\ \/ op' = Idle /\ result' = -1
           \/ op' = [op EXCEPT !.checked = TRUE]
    BY <1>1, <1>2, <1>3, <1>6 DEF LookCint, Done
  <2>2. op' = Idle => result' = -1
    <3>1. [op EXCEPT !.checked = TRUE].kind = op.kind
      BY DEF CacheInv, CacheTyped
    <3> QED BY <1>1, <2>1, <3>1, IdleType
  <2>3. ReadStep
    BY <2>2 DEF ReadStep
  <2> QED BY <1>1, <2>1, <2>3, LookedKeeps DEF GoodStep
<1> QED BY <1>5, <1>6

(* Bytes that come while a line is waited for: the first delimiter, if any, *)
(* is among them, behind everything that was cached before.                 *)
LEMMA MoreLineKeeps ==
  ASSUME CacheInv, NEW n \in 1 .. MaxChunk, Put(n), UNCHANGED <<side, taken>>,
         op.kind = "line", op.checked,
         IF LineRead(n) # 0 THEN Done(LineRead(n)) ELSE UNCHANGED <<op, result>>
  PROVE  Waiting' /\ ReadStep /\ op' \in {op, Idle}
<1>0. n \in Nat /\ n > 0
  BY CacheAssumption
<1>1. PICK C : C = Content(chain) /\ C \in Seq(Nat) /\ length = Len(C) /\ Len(C) \in Nat
  BY PiecesType DEF CacheInv, CacheTyped, Counted
<1>2. PICK w \in Nat : w = op.want /\ w > 0 /\ Len(C) < w
  BY <1>1 DEF CacheInv, CacheTyped, Waiting, ReadKinds
<1>3. PICK k \in Nat : k = Len(C)
  BY <1>1
<1>4. \A i \in 1 .. k : C[i] \notin Final
  BY <1>1, <1>3 DEF CacheInv, Waiting
<1>5. PICK s : s = Coming(n) /\ s \in Seq(Nat) /\ Len(s) = n
  BY <1>0, ComingType DEF CacheInv, CacheTyped
<1>6. PICK e : e = Ending(s)
  OBVIOUS
<1>7. \/ e = 0 /\ \A i \in 1 .. n : s[i] \notin Final
      \/ e \in 1 .. n /\ s[e] \in Final /\ \A i \in 1 .. e - 1 : s[i] \notin Final
  <2>1. s \in Seq(Nat) /\ Len(s) = n
    BY <1>5
  <2> QED BY <1>6, <2>1, EndingFirst
<1>8. Content(chain') = C \o s /\ length' = k + n
  BY <1>1, <1>3, <1>5, PutHolds
<1>9. PICK D : /\ D = C \o s /\ Len(D) = k + n /\ D \in Seq(Nat)
               /\ \A i \in 1 .. k + n : D[i] = IF i <= k THEN C[i] ELSE s[i - k]
  <2>1. C \in Seq(Nat) /\ s \in Seq(Nat) /\ Len(C) = k /\ Len(s) = n
    BY <1>1, <1>3, <1>5
  <2>2. /\ C \o s \in Seq(Nat) /\ Len(C \o s) = Len(C) + Len(s)
        /\ \A i \in 1 .. Len(C) + Len(s) : (C \o s)[i] = IF i <= Len(C) THEN C[i] ELSE s[i - Len(C)]
    BY <2>1, ConcatProperties
  <2>3. /\ C \o s \in Seq(Nat) /\ Len(C \o s) = k + n
        /\ \A i \in 1 .. k + n : (C \o s)[i] = IF i <= k THEN C[i] ELSE s[i - k]
    BY <2>1, <2>2
  <2> QED BY ONLY <2>3
<1>10. ASSUME NEW j \in Nat, j <= n, \A i \in 1 .. j : s[i] \notin Final
       PROVE  \A i \in 1 .. k + j : D[i] \notin Final
  <2> SUFFICES ASSUME NEW i \in 1 .. k + j PROVE D[i] \notin Final
    OBVIOUS
  <2>0. i \in 1 .. k + n
    BY <1>0, <1>10
  <2>1. CASE i <= k
    BY <1>4, <1>9, <2>0, <2>1
  <2>2. CASE ~(i <= k)
    <3>1. i - k \in 1 .. j
      BY <2>2
    <3> QED BY <1>9, <1>10, <2>0, <2>2, <3>1
  <2> QED BY <2>1, <2>2
<1>11. CASE e # 0
  <2>1. e \in 1 .. n /\ s[e] \in Final /\ \A i \in 1 .. e - 1 : s[i] \notin Final
    BY <1>7, <1>11
  <2>2. LineIn(n) = k + e
    BY <1>1, <1>3, <1>5, <1>6, <1>11 DEF LineIn
  <2>3. LineRead(n) = Lesser(k + e, w)
    <3>1. k + e # 0
      BY <2>1
    <3> QED BY <1>2, <2>2, <3>1 DEF LineRead
  <2>4. PICK r : r = Lesser(k + e, w) /\ r \in Nat /\ r # 0 /\ r <= k + e /\ (r = w \/ r = k + e)
    BY <1>2, <2>1 DEF Lesser
  <2>5. op' = Idle /\ result' = r
    BY <2>3, <2>4 DEF Done
  <2>6. D[k + e] \in Final
    <3>1. k + e \in 1 .. k + n /\ ~(k + e <= k) /\ (k + e) - k = e
      BY <2>1
    <3> QED BY <1>9, <2>1, <3>1
  <2>7. \A i \in 1 .. k + (e - 1) : D[i] \notin Final
    BY <1>0, <1>10, <2>1
  <2>8. r <= k + n /\ 1 .. r - 1 \subseteq 1 .. k + (e - 1)
    BY <1>0, <2>1, <2>4
  <2>9. r <= Len(D) /\ (r = w \/ D[r] \in Final) /\ \A i \in 1 .. r - 1 : D[i] \notin Final
    BY <1>9, <2>4, <2>6, <2>7, <2>8
  <2>10. ReadStep
    BY <1>2, <1>8, <1>9, <2>5, <2>9 DEF ReadStep
  <2>11. Waiting'
    BY <2>5, IdleType DEF Waiting, ReadKinds
  <2> QED BY <2>5, <2>10, <2>11
<1>12. CASE e = 0
  <2>1. \A i \in 1 .. k + n : D[i] \notin Final
    BY <1>0, <1>7, <1>10, <1>12
  <2>2. LineIn(n) = 0
    BY <1>5, <1>6, <1>12 DEF LineIn
  <2>3. CASE w <= k + n
    <3>1. LineRead(n) = w
      BY <1>1, <1>2, <1>3, <2>2, <2>3 DEF LineRead
    <3>2. op' = Idle /\ result' = w
      BY <1>2, <3>1 DEF Done
    <3>3. 1 .. w - 1 \subseteq 1 .. k + n /\ w <= Len(D)
      BY <1>0, <1>9, <2>3
    <3>4. ReadStep
      BY <1>2, <1>8, <1>9, <2>1, <3>2, <3>3 DEF ReadStep
    <3>5. Waiting'
      BY <3>2, IdleType DEF Waiting, ReadKinds
    <3> QED BY <3>2, <3>4, <3>5
  <2>4. CASE ~(w <= k + n)
    <3>1. LineRead(n) = 0
      BY <1>1, <1>2, <1>3, <2>2, <2>4 DEF LineRead
    <3>2. op' = op
      BY <3>1
    <3>3. ReadStep
      BY <3>2 DEF ReadStep
    <3>4. length' < op'.want
      BY <1>0, <1>2, <1>8, <2>4, <3>2
    <3>5. \A i \in DOMAIN Content(chain') : Content(chain')[i] \notin Final
      BY <1>8, <1>9, <2>1
    <3>6. Waiting'
      BY <3>2, <3>4, <3>5 DEF CacheInv, Waiting
    <3> QED BY <3>2, <3>3, <3>6
  <2> QED BY <2>3, <2>4
<1> QED BY <1>11, <1>12

LEMMA MoreKeeps ==
  ASSUME CacheInv, NEW n, More(n)
  PROVE  GoodStep
<1>1. op.checked /\ n \in 1 .. MaxChunk /\ Put(n) /\ UNCHANGED <<side, taken>>
  BY DEF More, Chunk
<1>2. chain' \in Seq(Buf) /\ came' \in Nat /\ Counted' /\ InOrder'
  BY <1>1, PutHolds
<1>3. FifoStep
  BY <1>1, PutIsStep
<1>4. /\ op \in [kind : ReadKinds \cup {"none", "flush"}, want : Nat, checked : BOOLEAN]
      /\ op.kind \in ReadKinds /\ side = "read" /\ op.want > 0 /\ op.kind # "flush"
  BY <1>1 DEF CacheInv, CacheTyped, Waiting, ReadKinds
<1>5. FlushStep
  BY <1>4 DEF FlushStep
<1>6. Waiting' /\ ReadStep /\ op' \in [kind : ReadKinds \cup {"none", "flush"}, want : Nat, checked : BOOLEAN]
  <2>1. CASE op.kind = "line"
    <3>1. IF LineRead(n) # 0 THEN Done(LineRead(n)) ELSE UNCHANGED <<op, result>>
      BY <2>1 DEF More
    <3>2. Waiting' /\ ReadStep /\ op' \in {op, Idle}
      BY <1>1, <2>1, <3>1, MoreLineKeeps
    <3> QED BY <1>4, <3>2, IdleType
  <2>2. CASE op.kind # "line"
    <3>1. op' = [op EXCEPT !.checked = FALSE]
      BY <2>2 DEF More
    <3>2. op'.kind = op.kind /\ op'.want = op.want /\ ~op'.checked
      BY <1>4, <3>1
    <3>3. op' \in [kind : ReadKinds \cup {"none", "flush"}, want : Nat, checked : BOOLEAN]
      BY <1>4, <3>1
    <3>4. Waiting'
      BY <1>1, <1>4, <3>2 DEF Waiting
    <3>5. ReadStep
      <4>1. op' # Idle
        BY <1>4, <3>2, IdleType DEF ReadKinds
      <4> QED BY <4>1 DEF ReadStep
    <3> QED BY <3>3, <3>4, <3>5
  <2> QED BY <2>1, <2>2
<1>7. CacheTyped'
  BY <1>1, <1>2, <1>6 DEF CacheInv, CacheTyped
<1> QED BY <1>2, <1>3, <1>5, <1>6, <1>7 DEF CacheInv, GoodStep

-----------------------------------------------------------------------------

LEMMA CacheInit == Init => CacheInv /\ Fifo!Init
<1> SUFFICES ASSUME Init PROVE CacheInv /\ Fifo!Init
  OBVIOUS
<1>1. Content(<<>>) = <<>> /\ Len(<<>>) = 0
  BY DEF Content, FlattenSeq
<1>2. chain = <<>> /\ length = 0 /\ came = 0 /\ taken = <<>> /\ op = Idle /\ side \in {"read", "write"}
  BY DEF Init
<1>3. CacheTyped
  <2>1. <<>> \in Seq(Buf) /\ <<>> \in Seq(Nat)
    OBVIOUS
  <2> QED BY <1>2, <2>1, IdleType DEF CacheTyped
<1>4. Counted
  BY <1>1, <1>2 DEF Counted
<1>5. InOrder
  <2>1. <<>> \o <<>> = <<>>
    OBVIOUS
  <2>2. Upto(0) = <<>>
    BY UptoType, EmptySeq
  <2> QED BY <1>1, <1>2, <2>1, <2>2 DEF InOrder
<1>6. Waiting
  BY <1>2, IdleType DEF Waiting, ReadKinds
<1>7. Fifo!Init
  BY <1>1, <1>2 DEF Fifo!Init
<1> QED BY <1>3, <1>4, <1>5, <1>6, <1>7 DEF CacheInv

LEMMA CacheStep == CacheInv /\ Next => GoodStep
<1> SUFFICES ASSUME CacheInv, Next PROVE GoodStep
  OBVIOUS
<1>1. ASSUME NEW n \in 1 .. MaxByte, CacheWrite(n) PROVE GoodStep
  BY <1>1, CacheWriteKeeps
<1>2. ASSUME NEW n \in 1 .. MaxByte, More(n) PROVE GoodStep
  BY <1>2, MoreKeeps
<1>3. ASSUME NEW n \in 1 .. MaxByte, GetReadCache(n) PROVE GoodStep
  BY <1>3, GetKeeps
<1>4. ASSUME NEW n \in 1 .. MaxChunk + 1, NEW k \in {"line", "any", "n", "cint"}, Read(k, n) PROVE GoodStep
  BY <1>4, ReadKeeps DEF ReadKinds
<1>5. CASE CacheFlush
  BY <1>5, FlushKeeps
<1>6. CASE Write
  BY <1>6, WriteKeeps
<1>7. CASE Written
  BY <1>7, WrittenKeeps
<1>8. CASE LookLine
  BY <1>8, LookLineKeeps
<1>9. CASE LookAny
  BY <1>9, LookAnyKeeps
<1>10. CASE LookN
  BY <1>10, LookNKeeps
<1>11. CASE LookCint
  BY <1>11, LookCintKeeps
<1>12. CASE NoMore
  BY <1>12, NoMoreKeeps
<1> QED BY <1>1, <1>2, <1>3, <1>4, <1>5, <1>6, <1>7, <1>8, <1>9, <1>10, <1>11, <1>12 DEF Next

LEMMA CacheStutter ==
  ASSUME CacheInv, UNCHANGED vars
  PROVE  CacheInv' /\ FifoStep
<1>1. UNCHANGED <<side, chain, length, came, taken, op>>
  BY DEF vars
<1> QED BY <1>1 DEF CacheInv, CacheTyped, Counted, InOrder, Waiting, FifoStep

LEMMA CacheAlways == Spec => []CacheInv
<1>1. CacheInv /\ [Next]_vars => CacheInv'
  BY CacheStep, CacheStutter DEF GoodStep
<1> QED BY <1>1, CacheInit, PTL DEF Spec

(* Both caches are byte queues: zaio_cache_write and what the kernel brings *)
(* append, the writer, the readers and zaio_get_read_cache take, and for    *)
(* buffers of every size nothing is lost, repeated or put out of order.     *)
THEOREM CacheIsFifo == Spec => ImplementsByteFifo
<1>1. CacheInv /\ [Next]_vars => [Fifo!Next]_<<Content(chain), came, taken>>
  BY CacheStep, CacheStutter DEF GoodStep, FifoStep
<1> QED BY <1>1, CacheInit, CacheAlways, PTL DEF Spec, ImplementsByteFifo, Fifo!Spec

(* When _active_writen reports a flush as done, every byte that was written *)
(* has been sent, in order.                                                 *)
THEOREM FlushComplete == Spec => FlushSendsAll
<1>1. CacheInv /\ [Next]_vars => [op.kind = "flush" /\ op' = Idle => taken = [i \in 1 .. came |-> i]]_vars
  BY CacheStep DEF GoodStep, FlushStep, Upto
<1> QED BY <1>1, CacheAlways, PTL DEF Spec, FlushSendsAll

(* However the bytes are cut into pieces, a line ends with its first        *)
(* delimiter or has the length that was allowed, a read has the bytes it    *)
(* reports, an integer takes its own bytes only.                            *)
THEOREM ReadsAreExact == Spec => ReadsExact
<1>1. CacheInv /\ Next => ReadStep
  BY CacheStep DEF GoodStep
<1>2. CacheInv /\ [Next]_vars => [ReadStep]_vars
  BY <1>1
<1> QED BY <1>2, CacheAlways, PTL DEF Spec, ReadsExact, ReadStep
=============================================================================
