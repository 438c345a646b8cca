---------------------------- MODULE Occurrences -----------------------------
(* How often an element occurs in a sequence, and how the operations of the *)
(* intrusive lists (append, take the head, join) change that.  The lists    *)
(* and queues of the library are sequences here; "in one list, once" and    *)
(* "in exactly one place" are statements about these numbers.               *)
EXTENDS Integers, Sequences, FiniteSets, SequenceTheorems, FunctionTheorems, FiniteSetTheorems,
        WellFoundedInduction, TLAPS

Positions(x, s) == {i \in DOMAIN s : s[i] = x}

Times(x, s) == Cardinality(Positions(x, s))

(* A number, since a sequence is finite.                                    *)
LEMMA TimesType ==
  ASSUME NEW S, NEW s \in Seq(S), NEW x
  PROVE  IsFiniteSet(Positions(x, s)) /\ Times(x, s) \in Nat
<1>1. IsFiniteSet(1 .. Len(s))
  BY FS_Interval
<1>2. Positions(x, s) \in SUBSET (1 .. Len(s))
  BY DEF Positions
<1>3. IsFiniteSet(Positions(x, s))
  BY <1>1, <1>2, FS_Subset
<1> QED BY <1>3, FS_CardinalityType DEF Times

(* None, exactly when no position has it.                                   *)
LEMMA TimesZero ==
  ASSUME NEW S, NEW s \in Seq(S), NEW x
  PROVE  Times(x, s) = 0 <=> \A i \in 1 .. Len(s) : s[i] # x
<1>1. IsFiniteSet(Positions(x, s))
  BY TimesType
<1>2. Times(x, s) = 0 <=> Positions(x, s) = {}
  BY <1>1, FS_EmptySet DEF Times
<1> QED BY <1>2 DEF Positions

(* At most one, exactly when no two positions have it.                      *)
LEMMA TimesOnce ==
  ASSUME NEW S, NEW s \in Seq(S), NEW x
  PROVE  Times(x, s) <= 1 <=> \A i, j \in 1 .. Len(s) : s[i] = x /\ s[j] = x => i = j
<1> DEFINE P == Positions(x, s)
<1>1. IsFiniteSet(P) /\ Cardinality(P) \in Nat
  BY TimesType DEF Times
<1>2. ASSUME Cardinality(P) <= 1, NEW i \in P, NEW j \in P PROVE i = j
  <2>1. Cardinality(P) # 0
    BY <1>1, <1>2, FS_EmptySet
  <2>2. Cardinality(P) = 1
    BY <1>1, <1>2, <2>1
  <2>3. PICK k : P = {k}
    BY <1>1, <2>2, FS_Singleton
  <2> QED BY <1>2, <2>3
<1>3. ASSUME \A i, j \in P : i = j PROVE Cardinality(P) <= 1
  <2>1. CASE P = {}
    BY <2>1, FS_EmptySet
  <2>2. CASE P # {}
    <3>1. PICK k \in P : TRUE
      BY <2>2
    <3>2. P = {k}
      BY <1>3, <3>1
    <3>3. Cardinality(P) = 1
      BY <3>2, FS_Singleton
    <3> QED BY <3>3
  <2> QED BY <2>1, <2>2
<1> QED BY <1>2, <1>3 DEF Positions, Times

LEMMA TimesEmpty == ASSUME NEW x PROVE Times(x, <<>>) = 0
<1>1. Positions(x, <<>>) = {}
  BY DEF Positions
<1> QED BY <1>1, FS_EmptySet DEF Times

LEMMA TimesAppend ==
  ASSUME NEW S, NEW s \in Seq(S), NEW x, NEW y \in S
  PROVE  Times(x, Append(s, y)) = IF x = y THEN Times(x, s) + 1 ELSE Times(x, s)
<1>0. /\ Len(Append(s, y)) = Len(s) + 1 /\ Append(s, y)[Len(s) + 1] = y /\ Len(s) \in Nat
      /\ \A i \in 1 .. Len(s) : Append(s, y)[i] = s[i]
      /\ DOMAIN Append(s, y) = 1 .. Len(s) + 1 /\ DOMAIN s = 1 .. Len(s)
  OBVIOUS
<1>1. IsFiniteSet(Positions(x, s))
  BY TimesType
<1>2. CASE x = y
  <2>1. Positions(x, Append(s, y)) = Positions(x, s) \cup {Len(s) + 1}
    BY <1>0, <1>2 DEF Positions
  <2>2. Len(s) + 1 \notin Positions(x, s)
    BY <1>0 DEF Positions
  <2> QED BY <1>1, <1>2, <2>1, <2>2, FS_AddElement DEF Times
<1>3. CASE x # y
  <2>1. Positions(x, Append(s, y)) = Positions(x, s)
    BY <1>0, <1>3 DEF Positions
  <2> QED BY <1>3, <2>1 DEF Times
<1> QED BY <1>2, <1>3

(* Two sets of positions of which one is the other moved along.             *)
LEMMA Moved ==
  ASSUME NEW A \in SUBSET Int, NEW B \in SUBSET Int, NEW n \in Int, IsFiniteSet(A),
         \A i \in A : i + n \in B, \A j \in B : j - n \in A
  PROVE  IsFiniteSet(B) /\ Cardinality(B) = Cardinality(A)
<1> DEFINE f == [i \in A |-> i + n]
<1>1. f \in [A -> B]
  OBVIOUS
<1>2. \A i, j \in A : f[i] = f[j] => i = j
  OBVIOUS
<1>3. \A j \in B : \E i \in A : f[i] = j
  <2> TAKE j \in B
  <2> WITNESS j - n \in A
  <2> QED OBVIOUS
<1> HIDE DEF f
<1>4. f \in Injection(A, B)
  BY <1>1, <1>2, Fun_IsInj
<1>5. f \in Surjection(A, B)
  BY <1>1, <1>3, Fun_IsSurj
<1>6. ExistsBijection(A, B)
  BY <1>4, <1>5 DEF ExistsBijection, Bijection
<1> QED BY <1>6, FS_Bijection

LEMMA TimesTail ==
  ASSUME NEW S, NEW s \in Seq(S), s # <<>>, NEW x
  PROVE  Times(x, Tail(s)) = IF x = Head(s) THEN Times(x, s) - 1 ELSE Times(x, s)
<1> DEFINE T == Tail(s)
           P == Positions(x, s)
<1>0. /\ T \in Seq(S) /\ Len(T) = Len(s) - 1 /\ Len(s) \in Nat \ {0}
      /\ \A i \in 1 .. Len(T) : T[i] = s[i + 1]
      /\ Head(s) = s[1] /\ DOMAIN T = 1 .. Len(T) /\ DOMAIN s = 1 .. Len(s)
  OBVIOUS
<1>1. IsFiniteSet(Positions(x, T)) /\ IsFiniteSet(P)
  BY <1>0, TimesType
<1> HIDE DEF T
<1>2. Cardinality(Positions(x, T)) = Cardinality(P \ {1})
  <2>1. Positions(x, T) \in SUBSET Int /\ P \ {1} \in SUBSET Int
    BY <1>0 DEF Positions
  <2>2. \A i \in Positions(x, T) : i + 1 \in P \ {1}
    BY <1>0 DEF Positions
  <2>3. \A j \in P \ {1} : j - 1 \in Positions(x, T)
    BY <1>0 DEF Positions
  <2> DEFINE A == Positions(x, T)
             B == P \ {1}
  <2>4. /\ A \in SUBSET Int /\ B \in SUBSET Int /\ IsFiniteSet(A) /\ 1 \in Int
        /\ \A i \in A : i + 1 \in B
        /\ \A j \in B : j - 1 \in A
    BY <1>1, <2>1, <2>2, <2>3
  <2> HIDE DEF A, B
  <2>5. Cardinality(B) = Cardinality(A)
    BY <2>4, Moved
  <2> QED BY <2>5 DEF A, B
<1>3. 1 \in P <=> x = Head(s)
  BY <1>0 DEF Positions
<1> QED BY <1>1, <1>2, <1>3, FS_RemoveElement DEF Times, T

LEMMA TimesConcat ==
  ASSUME NEW S, NEW s \in Seq(S), NEW t \in Seq(S), NEW x
  PROVE  Times(x, s \o t) = Times(x, s) + Times(x, t)
<1> DEFINE u == s \o t
           M == {i \in Len(s) + 1 .. Len(s) + Len(t) : u[i] = x}
<1>0. /\ u \in Seq(S) /\ Len(u) = Len(s) + Len(t) /\ Len(s) \in Nat /\ Len(t) \in Nat
      /\ \A i \in 1 .. Len(s) : u[i] = s[i]
      /\ \A i \in 1 .. Len(t) : u[Len(s) + i] = t[i]
      /\ DOMAIN u = 1 .. Len(u) /\ DOMAIN s = 1 .. Len(s) /\ DOMAIN t = 1 .. Len(t)
  OBVIOUS
<1>1. /\ IsFiniteSet(Positions(x, s)) /\ IsFiniteSet(Positions(x, t))
      /\ Times(x, s) \in Nat /\ Times(x, t) \in Nat
  BY TimesType
<1> HIDE DEF u
<1>2. IsFiniteSet(M) /\ Cardinality(M) = Cardinality(Positions(x, t))
  <2>1. Positions(x, t) \in SUBSET Int /\ M \in SUBSET Int
    BY <1>0 DEF Positions
  <2>2. \A i \in Positions(x, t) : i + Len(s) \in M
    BY <1>0 DEF Positions
  <2>3. \A j \in M : j - Len(s) \in Positions(x, t)
    <3> TAKE j \in M
    <3>1. j - Len(s) \in 1 .. Len(t) /\ j = Len(s) + (j - Len(s))
      BY <1>0
    <3>2. u[j] = t[j - Len(s)]
      BY <1>0, <3>1
    <3> QED BY <1>0, <3>1, <3>2 DEF Positions
  <2> DEFINE A == Positions(x, t)
             n == Len(s)
  <2>4. /\ A \in SUBSET Int /\ M \in SUBSET Int /\ IsFiniteSet(A) /\ n \in Int
        /\ \A i \in A : i + n \in M
        /\ \A j \in M : j - n \in A
    BY <1>0, <1>1, <2>1, <2>2, <2>3
  <2> HIDE DEF A, M, n
  <2>5. IsFiniteSet(M) /\ Cardinality(M) = Cardinality(A)
    BY <2>4, Moved
  <2> QED BY <2>5 DEF A
<1>3. Positions(x, u) = Positions(x, s) \cup M
  BY <1>0 DEF Positions
<1>4. Positions(x, s) \cap M = {}
  BY <1>0 DEF Positions
<1> HIDE DEF M
<1>5. Cardinality(Positions(x, s) \cap M) = 0
  BY <1>4, FS_EmptySet
<1>6. Cardinality(Positions(x, u)) =
         Cardinality(Positions(x, s)) + Cardinality(M) - Cardinality(Positions(x, s) \cap M)
  BY <1>1, <1>2, <1>3, FS_Union
<1> QED BY <1>1, <1>2, <1>5, <1>6 DEF Times, u

(* A sequence without its k-th element, as a list from which one node is    *)
(* detached.                                                                *)
Cut(s, k) == SubSeq(s, 1, k - 1) \o SubSeq(s, k + 1, Len(s))

LEMMA CutProperties ==
  ASSUME NEW S, NEW s \in Seq(S), NEW k \in 1 .. Len(s)
  PROVE  /\ Cut(s, k) \in Seq(S)
         /\ Len(Cut(s, k)) = Len(s) - 1
         /\ \A i \in 1 .. Len(s) - 1 : Cut(s, k)[i] = IF i < k THEN s[i] ELSE s[i + 1]
<1> DEFINE a == SubSeq(s, 1, k - 1)
           b == SubSeq(s, k + 1, Len(s))
<1>0. Len(s) \in Nat /\ k \in Int /\ \A i \in 1 .. Len(s) : s[i] \in S
  OBVIOUS
<1>1. a \in Seq(S) /\ Len(a) = k - 1 /\ \A i \in 1 .. k - 1 : a[i] = s[i]
  BY <1>0
<1>2. b \in Seq(S) /\ Len(b) = Len(s) - k /\ \A i \in 1 .. Len(s) - k : b[i] = s[k + i]
  BY <1>0
<1> HIDE DEF a, b
<1>3. /\ a \o b \in Seq(S) /\ Len(a \o b) = Len(a) + Len(b)
      /\ \A i \in 1 .. Len(a) + Len(b) : (a \o b)[i] = IF i <= Len(a) THEN a[i] ELSE b[i - Len(a)]
  BY <1>1, <1>2, ConcatProperties
<1>4. \A i \in 1 .. Len(s) - 1 : (a \o b)[i] = IF i < k THEN s[i] ELSE s[i + 1]
  <2> TAKE i \in 1 .. Len(s) - 1
  <2>1. CASE i < k
    BY <1>0, <1>1, <1>2, <1>3, <2>1
  <2>2. CASE ~(i < k)
    <3>1. (a \o b)[i] = b[i - (k - 1)]
      BY <1>0, <1>1, <1>2, <1>3, <2>2
    <3>2. b[i - (k - 1)] = s[k + (i - (k - 1))] /\ k + (i - (k - 1)) = i + 1
      BY <1>0, <1>2, <2>2
    <3> QED BY <2>2, <3>1, <3>2
  <2> QED BY <2>1, <2>2
<1>5. Cut(s, k) = a \o b
  BY DEF Cut, a, b
<1> QED BY <1>0, <1>1, <1>2, <1>3, <1>4, <1>5

LEMMA TimesCut ==
  ASSUME NEW S, NEW s \in Seq(S), NEW k \in 1 .. Len(s), NEW x
  PROVE  Times(x, Cut(s, k)) = IF x = s[k] THEN Times(x, s) - 1 ELSE Times(x, s)
<1> DEFINE a == SubSeq(s, 1, k - 1)
           b == SubSeq(s, k + 1, Len(s))
           c == SubSeq(s, 1, k)
<1>0. Len(s) \in Nat /\ k \in Int /\ s[k] \in S /\ <<s[k]>> \in Seq(S)
  OBVIOUS
<1>1. a \in Seq(S) /\ b \in Seq(S) /\ c \in Seq(S)
  BY <1>0
<1>2. c = a \o <<s[k]>>
  BY <1>0, SubSeqRecursiveSecond
<1>3. c \o b = s
  <2>1. c \o b = SubSeq(s, 1, Len(s))
    BY <1>0, ConcatAdjacentSubSeq
  <2> QED BY <2>1, SubSeqFull
<1> HIDE DEF a, b, c
<1>4. Times(x, s) = Times(x, c) + Times(x, b)
  BY <1>1, <1>3, TimesConcat
<1>5. c = Append(a, s[k])
  BY <1>0, <1>1, <1>2, AppendIsConcat
<1>6. Times(x, c) = IF x = s[k] THEN Times(x, a) + 1 ELSE Times(x, a)
  BY <1>0, <1>1, <1>5, TimesAppend
<1>7. Times(x, a \o b) = Times(x, a) + Times(x, b)
  BY <1>1, TimesConcat
<1>8. Cut(s, k) = a \o b
  BY DEF Cut, a, b
<1>9. Times(x, a) \in Nat /\ Times(x, b) \in Nat
  BY <1>1, TimesType
<1> QED BY <1>4, <1>6, <1>7, <1>8, <1>9

(* Induction over the naturals, for a set in the place of a predicate.      *)
LEMMA SetInduction ==
  ASSUME NEW S, 0 \in S, \A n \in Nat : n \in S => n + 1 \in S
  PROVE  Nat \subseteq S
<1> SUFFICES ASSUME Nat \ S # {} PROVE FALSE
  OBVIOUS
<1> DEFINE T == Nat \ S
           R == OpToRel(<, Nat)
<1>1. IsWellFoundedOn(R, Nat)
  BY NatLessThanWellFounded
<1>2. T \subseteq Nat /\ T # {}
  OBVIOUS
<1> HIDE DEF R, T
<1>3. PICK x \in T : \A y \in T : ~(<<y, x>> \in R)
  BY <1>1, <1>2, WFMin
<1> USE DEF T
<1>4. x \in Nat /\ x # 0 /\ x - 1 \in Nat
  BY <1>3
<1>5. <<x - 1, x>> \in R
  BY <1>4 DEF R, OpToRel
<1>6. x - 1 \in S
  BY <1>3, <1>4, <1>5
<1> QED BY <1>3, <1>4, <1>6

(* A set that has the first element of a sequence, and with every element   *)
(* the next one, has them all.                                              *)
LEMMA ClosedHasAll ==
  ASSUME NEW S, NEW s \in Seq(S), NEW C, Len(s) > 0 => s[1] \in C,
         \A i \in 1 .. Len(s) - 1 : s[i] \in C => s[i + 1] \in C
  PROVE  \A i \in 1 .. Len(s) : s[i] \in C
<1> DEFINE N == {n \in Nat : n + 1 \in 1 .. Len(s) => s[n + 1] \in C}
<1>0. Len(s) \in Nat
  OBVIOUS
<1>1. 0 \in N
  BY <1>0
<1>2. \A n \in Nat : n \in N => n + 1 \in N
  BY <1>0
<1> HIDE DEF N
<1>3. Nat \subseteq N
  BY <1>1, <1>2, SetInduction
<1>4. ASSUME NEW i \in 1 .. Len(s) PROVE s[i] \in C
  <2>1. i - 1 \in Nat /\ (i - 1) + 1 = i
    BY <1>0
  <2>2. i - 1 \in N
    BY <1>3, <2>1
  <2> QED BY <2>1, <2>2 DEF N
<1> QED BY <1>4
=============================================================================
