----------------------------- MODULE Aio_proof ------------------------------
(* Theorems about the aio engine under a program that keeps to the manual,  *)
(* for every set of aios, every choice of operations and every timeout.     *)
EXTENDS AioClient, Occurrences

-----------------------------------------------------------------------------
(***************************************************************************)
(* The queues.  Their links are right when each queue is a sequence of     *)
(* distinct aios, linked in its order, and no aio is in two of them.       *)
(***************************************************************************)
Members(s) == {s[i] : i \in 1 .. Len(s)}

Distinct(s) == \A i, j \in 1 .. Len(s) : s[i] = s[j] => i = j

InOrder(l, q, s) ==
    /\ Distinct(s)
    /\ l.head[q] = IF Len(s) = 0 THEN None ELSE s[1]
    /\ l.tail[q] = IF Len(s) = 0 THEN None ELSE s[Len(s)]
    /\ \A i \in 1 .. Len(s) : l.prev[s[i]] = IF i = 1 THEN None ELSE s[i - 1]
    /\ \A i \in 1 .. Len(s) : l.next[s[i]] = IF i = Len(s) THEN None ELSE s[i + 1]

Apart(f) == \A q, r \in Queue : \A n : n \in f[q] /\ n \in f[r] => q = r

Queues(l, f) ==
    /\ l \in Links /\ f \in [Queue -> SUBSET Node] /\ Apart(f)
    /\ \A q \in Queue : \E s \in Seq(Node) : InOrder(l, q, s) /\ f[q] = Members(s)

LEMMA NoneNotNode == None \notin Node
  BY AioAssumption DEF Node

LEMMA HeadOf ==
  ASSUME NEW l, NEW f, Queues(l, f), NEW q \in Queue
  PROVE  /\ l.head[q] = None <=> f[q] = {}
         /\ l.head[q] # None => l.head[q] \in f[q]
<1>1. PICK s \in Seq(Node) : InOrder(l, q, s) /\ f[q] = Members(s)
  BY DEF Queues
<1>2. CASE Len(s) = 0
  BY <1>1, <1>2 DEF InOrder, Members
<1>3. CASE Len(s) # 0
  <2>1. Len(s) \in Nat /\ 1 \in 1 .. Len(s) /\ s[1] \in Node
    BY <1>3
  <2>2. l.head[q] = s[1] /\ s[1] \in f[q]
    BY <1>1, <1>3, <2>1 DEF InOrder, Members
  <2> QED BY <2>1, <2>2, NoneNotNode
<1> QED BY <1>2, <1>3

(* A walk over a queue finds exactly the aios with its flag.                *)
LEMMA WalkFinds ==
  ASSUME NEW l, NEW f, Queues(l, f), NEW q \in Queue
  PROVE  Walk(l, q) = f[q]
<1>1. PICK s \in Seq(Node) : InOrder(l, q, s) /\ f[q] = Members(s)
  BY DEF Queues
<1>2. Len(s) \in Nat /\ \A i \in 1 .. Len(s) : s[i] \in Node
  OBVIOUS
<1> DEFINE Closed(S) == /\ l.head[q] \in S \cup {None}
                        /\ \A n \in S : l.next[n] \in S \cup {None}
<1>3. Members(s) \in SUBSET Node
  BY <1>2 DEF Members
<1>4. Closed(Members(s))
  <2>1. l.head[q] \in Members(s) \cup {None}
    BY <1>1, <1>2 DEF InOrder, Members
  <2>2. ASSUME NEW n \in Members(s) PROVE l.next[n] \in Members(s) \cup {None}
    <3>1. PICK i \in 1 .. Len(s) : n = s[i]
      BY DEF Members
    <3>2. CASE i = Len(s)
      BY <1>1, <3>1, <3>2 DEF InOrder
    <3>3. CASE i # Len(s)
      <4>1. i + 1 \in 1 .. Len(s) /\ l.next[n] = s[i + 1]
        BY <1>1, <1>2, <3>1, <3>3 DEF InOrder
      <4> QED BY <4>1 DEF Members
    <3> QED BY <3>2, <3>3
  <2> QED BY <2>1, <2>2
<1>5. ASSUME NEW S \in SUBSET Node, Closed(S) PROVE Members(s) \subseteq S
  <2>1. Len(s) > 0 => s[1] \in S
    BY <1>1, <1>2, <1>5, NoneNotNode DEF InOrder
  <2>2. ASSUME NEW i \in 1 .. Len(s) - 1, s[i] \in S PROVE s[i + 1] \in S
    <3>1. l.next[s[i]] = s[i + 1] /\ s[i + 1] \in Node
      BY <1>1, <1>2 DEF InOrder
    <3> QED BY <1>5, <2>2, <3>1, NoneNotNode
  <2>3. \A i \in 1 .. Len(s) : s[i] \in S
    BY <2>1, <2>2, ClosedHasAll
  <2> QED BY <2>3 DEF Members
<1>6. Walk(l, q) = {n \in Node : \A S \in SUBSET Node : Closed(S) => n \in S}
  BY DEF Walk
<1> HIDE DEF Closed
<1> QED BY <1>1, <1>3, <1>4, <1>5, <1>6

(* What another queue has is untouched by a change of the links of the      *)
(* aios in N only.                                                          *)
LEMMA OtherKept ==
  ASSUME NEW l, NEW m, NEW q, NEW s \in Seq(Node), InOrder(l, q, s),
         m.head[q] = l.head[q], m.tail[q] = l.tail[q],
         \A n \in Members(s) : m.prev[n] = l.prev[n] /\ m.next[n] = l.next[n]
  PROVE  InOrder(m, q, s)
<1>1. \A i \in 1 .. Len(s) : s[i] \in Members(s)
  BY DEF Members
<1> QED BY <1>1 DEF InOrder

(* ZMLINK_APPEND of an aio that is in no queue.                             *)
LEMMA AppendedQueues ==
  ASSUME NEW l, NEW f, Queues(l, f), NEW q \in Queue, NEW n \in Node, \A r \in Queue : n \notin f[r]
  PROVE  Queues(Appended(l, q, n), [f EXCEPT ![q] = @ \cup {n}])
<1> DEFINE t == l.tail[q]
           m == Appended(l, q, n)
           g == [f EXCEPT ![q] = @ \cup {n}]
<1>0. /\ l \in Links /\ f \in [Queue -> SUBSET Node] /\ Apart(f)
      /\ l.head \in [Queue -> Node \cup {None}] /\ l.tail \in [Queue -> Node \cup {None}]
      /\ l.prev \in [Node -> Node \cup {None}] /\ l.next \in [Node -> Node \cup {None}]
  BY DEF Queues, Links
<1>1. PICK s \in Seq(Node) : InOrder(l, q, s) /\ f[q] = Members(s)
  BY DEF Queues
<1>2. Len(s) \in Nat /\ \A i \in 1 .. Len(s) : s[i] \in Node /\ s[i] # n
  <2>1. n \notin Members(s)
    BY <1>1
  <2> QED BY <2>1 DEF Members
<1>3. /\ m.head = IF l.head[q] = None THEN [l.head EXCEPT ![q] = n] ELSE l.head
      /\ m.tail = [l.tail EXCEPT ![q] = n]
      /\ m.prev = [l.prev EXCEPT ![n] = IF l.head[q] = None THEN None ELSE t]
      /\ m.next = [k \in Node |-> IF k = n THEN None
                                  ELSE IF l.head[q] # None /\ k = t THEN n ELSE l.next[k]]
      /\ m = [head |-> m.head, tail |-> m.tail, prev |-> m.prev, next |-> m.next]
  BY DEF Appended
<1>h. l.head[q] = None <=> Len(s) = 0
  BY <1>1, <1>2, NoneNotNode DEF InOrder
<1>t. /\ Len(s) # 0 => t = s[Len(s)] /\ t \in Node /\ t \in f[q]
      /\ Len(s) = 0 => t = None
  BY <1>1, <1>2 DEF InOrder, Members
<1> HIDE DEF m, t
<1>4. m \in Links
  <2>1. m.head \in [Queue -> Node \cup {None}] /\ m.tail \in [Queue -> Node \cup {None}]
    BY <1>0, <1>3
  <2>2. (IF l.head[q] = None THEN None ELSE t) \in Node \cup {None}
    BY <1>h, <1>t
  <2>3. m.prev \in [Node -> Node \cup {None}] /\ m.next \in [Node -> Node \cup {None}]
    BY <1>0, <1>3, <2>2
  <2> QED BY <1>3, <2>1, <2>3 DEF Links
<1>5. g \in [Queue -> SUBSET Node] /\ Apart(g)
  BY <1>0 DEF Apart
<1> DEFINE u == Append(s, n)
<1>6. /\ u \in Seq(Node) /\ Len(u) = Len(s) + 1 /\ u[Len(s) + 1] = n
      /\ \A i \in 1 .. Len(s) : u[i] = s[i]
  OBVIOUS
<1> HIDE DEF u
<1>7. InOrder(m, q, u)
  <2>1. Distinct(u)
    <3>1. ASSUME NEW i \in 1 .. Len(u), NEW j \in 1 .. Len(u), u[i] = u[j] PROVE i = j
      <4>1. Len(s) \in Nat /\ \A k \in 1 .. Len(u) : k \in 1 .. Len(s) \/ k = Len(s) + 1
        BY <1>6
      <4>2. \A k \in 1 .. Len(s) : u[k] = s[k] /\ s[k] # n
        BY <1>1, <1>2, <1>6 DEF InOrder
      <4>3. i \in 1 .. Len(s) /\ j \in 1 .. Len(s) => i = j
        BY <1>1, <3>1, <4>2 DEF InOrder, Distinct
      <4> QED BY <1>6, <3>1, <4>1, <4>2, <4>3
    <3> QED BY <3>1 DEF Distinct
  <2>2. m.head[q] = u[1] /\ m.tail[q] = u[Len(u)]
    <3>1. CASE Len(s) = 0
      BY <1>0, <1>3, <1>6, <1>h, <3>1
    <3>2. CASE Len(s) # 0
      BY <1>0, <1>1, <1>2, <1>3, <1>6, <1>h, <3>2 DEF InOrder
    <3> QED BY <3>1, <3>2
  <2>3. ASSUME NEW i \in 1 .. Len(u) PROVE m.prev[u[i]] = IF i = 1 THEN None ELSE u[i - 1]
    <3>1. CASE i = Len(s) + 1
      <4>1. m.prev[n] = IF l.head[q] = None THEN None ELSE t
        BY <1>0, <1>3
      <4>2. CASE Len(s) = 0
        BY <1>6, <1>h, <3>1, <4>1, <4>2
      <4>3. CASE Len(s) # 0
        BY <1>2, <1>6, <1>h, <1>t, <3>1, <4>1, <4>3
      <4> QED BY <4>2, <4>3
    <3>2. CASE i # Len(s) + 1
      <4>1. i \in 1 .. Len(s) /\ u[i] = s[i]
        BY <1>2, <1>6, <3>2
      <4>2. m.prev[s[i]] = l.prev[s[i]]
        BY <1>0, <1>2, <1>3, <4>1
      <4>3. l.prev[s[i]] = IF i = 1 THEN None ELSE s[i - 1]
        BY <1>1, <4>1 DEF InOrder
      <4>4. i # 1 => u[i - 1] = s[i - 1]
        BY <1>2, <1>6, <4>1
      <4> QED BY <4>1, <4>2, <4>3, <4>4
    <3> QED BY <3>1, <3>2
  <2>4. ASSUME NEW i \in 1 .. Len(u) PROVE m.next[u[i]] = IF i = Len(u) THEN None ELSE u[i + 1]
    <3>1. CASE i = Len(s) + 1
      BY <1>3, <1>6, <3>1
    <3>2. CASE i # Len(s) + 1
      <4>1. i \in 1 .. Len(s) /\ u[i] = s[i] /\ Len(s) # 0
        BY <1>2, <1>6, <3>2
      <4>2. m.next[s[i]] = IF s[i] = t THEN n ELSE l.next[s[i]]
        BY <1>2, <1>3, <1>h, <4>1
      <4>3. s[i] = t <=> i = Len(s)
        BY <1>1, <1>2, <1>t, <4>1 DEF InOrder, Distinct
      <4>4. i # Len(s) => l.next[s[i]] = s[i + 1] /\ u[i + 1] = s[i + 1]
        BY <1>1, <1>2, <1>6, <4>1 DEF InOrder
      <4> QED BY <1>2, <1>6, <4>1, <4>2, <4>3, <4>4
    <3> QED BY <3>1, <3>2
  <2>5. Len(u) # 0
    BY <1>2, <1>6
  <2> QED BY <2>1, <2>2, <2>3, <2>4, <2>5 DEF InOrder
<1>8. Members(u) = Members(s) \cup {n}
  BY <1>2, <1>6 DEF Members
<1>9. ASSUME NEW r \in Queue PROVE \E v \in Seq(Node) : InOrder(m, r, v) /\ g[r] = Members(v)
  <2>1. CASE r = q
    <3>1. g[q] = f[q] \cup {n}
      BY <1>0
    <3> QED BY <1>1, <1>6, <1>7, <1>8, <2>1, <3>1
  <2>2. CASE r # q
    <3>1. PICK v \in Seq(Node) : InOrder(l, r, v) /\ f[r] = Members(v)
      BY DEF Queues
    <3>2. m.head[r] = l.head[r] /\ m.tail[r] = l.tail[r] /\ g[r] = f[r]
      BY <1>0, <1>3, <2>2
    <3>3. ASSUME NEW k \in Members(v) PROVE m.prev[k] = l.prev[k] /\ m.next[k] = l.next[k]
      <4>1. k \in Node /\ k # n /\ k \in f[r]
        BY <1>0, <3>1, <3>3
      <4>2. k = t => l.head[q] = None
        BY <1>0, <1>h, <1>t, <2>2, <4>1 DEF Apart
      <4> QED BY <1>0, <1>3, <4>1, <4>2
    <3>4. InOrder(m, r, v)
      BY <3>1, <3>2, <3>3, OtherKept
    <3> QED BY <3>1, <3>2, <3>4
  <2> QED BY <2>1, <2>2
<1>10. Queues(m, g)
  BY <1>4, <1>5, <1>9 DEF Queues
<1> QED BY <1>10 DEF m

(* ZMLINK_DETACH of an aio that is in the queue, wherever it is in it.      *)
LEMMA DetachedQueues ==
  ASSUME NEW l, NEW f, Queues(l, f), NEW q \in Queue, NEW n \in f[q]
  PROVE  Queues(Detached(l, q, n), [f EXCEPT ![q] = @ \ {n}])
<1> DEFINE p == l.prev[n]
           x == l.next[n]
           m == Detached(l, q, n)
           g == [f EXCEPT ![q] = @ \ {n}]
<1>0. /\ l \in Links /\ f \in [Queue -> SUBSET Node] /\ Apart(f)
      /\ l.head \in [Queue -> Node \cup {None}] /\ l.tail \in [Queue -> Node \cup {None}]
      /\ l.prev \in [Node -> Node \cup {None}] /\ l.next \in [Node -> Node \cup {None}]
  BY DEF Queues, Links
<1>1. PICK s \in Seq(Node) : InOrder(l, q, s) /\ f[q] = Members(s)
  BY DEF Queues
<1>2. Len(s) \in Nat /\ \A i \in 1 .. Len(s) : s[i] \in Node /\ s[i] # None
  BY NoneNotNode
<1>k. PICK k \in 1 .. Len(s) : s[k] = n
  BY <1>1 DEF Members
<1>3. /\ m.head = IF p = None THEN [l.head EXCEPT ![q] = x] ELSE l.head
      /\ m.tail = IF x = None THEN [l.tail EXCEPT ![q] = p] ELSE l.tail
      /\ m.next = IF p = None THEN l.next ELSE [l.next EXCEPT ![p] = x]
      /\ m.prev = IF x = None THEN l.prev ELSE [l.prev EXCEPT ![x] = p]
      /\ m = [head |-> m.head, tail |-> m.tail, next |-> m.next, prev |-> m.prev]
  BY DEF Detached
<1>p. p = IF k = 1 THEN None ELSE s[k - 1]
  BY <1>1, <1>k DEF InOrder
<1>x. x = IF k = Len(s) THEN None ELSE s[k + 1]
  BY <1>1, <1>k DEF InOrder
<1>a. /\ k = 1 => p = None
      /\ k # 1 => p \in Node /\ p # None /\ p = s[k - 1] /\ p \in f[q] /\ k - 1 \in 1 .. Len(s)
      /\ k = Len(s) => x = None
      /\ k # Len(s) => x \in Node /\ x # None /\ x = s[k + 1] /\ x \in f[q] /\ k + 1 \in 1 .. Len(s)
  <2>1. k # 1 => k - 1 \in 1 .. Len(s)
    BY <1>2
  <2>2. k # Len(s) => k + 1 \in 1 .. Len(s)
    BY <1>2
  <2> QED BY <1>1, <1>2, <1>p, <1>x, <2>1, <2>2 DEF Members
<1>d. \A i, j \in 1 .. Len(s) : s[i] = s[j] => i = j
  BY <1>1 DEF InOrder, Distinct
<1> HIDE DEF m, p, x
<1>4. m \in Links
  <2>1. p \in Node \cup {None} /\ x \in Node \cup {None}
    BY <1>a
  <2>2. /\ m.head \in [Queue -> Node \cup {None}] /\ m.tail \in [Queue -> Node \cup {None}]
    BY <1>0, <1>3, <2>1
  <2>3. m.prev \in [Node -> Node \cup {None}] /\ m.next \in [Node -> Node \cup {None}]
    BY <1>0, <1>3, <2>1
  <2> QED BY <1>3, <2>2, <2>3 DEF Links
<1>5. g \in [Queue -> SUBSET Node] /\ Apart(g)
  BY <1>0 DEF Apart
<1> DEFINE u == Cut(s, k)
<1>6. /\ u \in Seq(Node) /\ Len(u) = Len(s) - 1
      /\ \A i \in 1 .. Len(s) - 1 : u[i] = IF i < k THEN s[i] ELSE s[i + 1]
  BY CutProperties
<1> HIDE DEF u
<1>7. InOrder(m, q, u)
  <2>1. Distinct(u)
    <3> SUFFICES ASSUME NEW i \in 1 .. Len(u), NEW j \in 1 .. Len(u), u[i] = u[j] PROVE i = j
      BY DEF Distinct
    <3> DEFINE a == IF i < k THEN i ELSE i + 1
               b == IF j < k THEN j ELSE j + 1
    <3>1. a \in 1 .. Len(s) /\ b \in 1 .. Len(s) /\ s[a] = u[i] /\ s[b] = u[j]
      BY <1>2, <1>6
    <3>2. a = b
      BY <1>d, <3>1
    <3> QED BY <1>2, <3>2
  <2>2. m.head[q] = IF Len(u) = 0 THEN None ELSE u[1]
    <3>1. CASE k = 1
      <4>1. m.head[q] = x
        BY <1>0, <1>3, <1>a, <3>1
      <4> QED BY <1>2, <1>6, <1>a, <3>1, <4>1
    <3>2. CASE k # 1
      <4>1. m.head[q] = l.head[q] /\ Len(s) # 0
        BY <1>2, <1>3, <1>a, <3>2
      <4>2. l.head[q] = s[1]
        BY <1>1, <4>1 DEF InOrder
      <4>3. Len(u) # 0 /\ u[1] = s[1]
        BY <1>2, <1>6, <3>2
      <4> QED BY <4>1, <4>2, <4>3
    <3> QED BY <3>1, <3>2
  <2>3. m.tail[q] = IF Len(u) = 0 THEN None ELSE u[Len(u)]
    <3>1. CASE k = Len(s)
      <4>1. m.tail[q] = p
        BY <1>0, <1>3, <1>a, <3>1
      <4>2. Len(u) # 0 => k # 1 /\ u[Len(u)] = s[k - 1]
        BY <1>2, <1>6, <3>1
      <4>3. Len(u) = 0 => k = 1
        BY <1>2, <1>6, <3>1
      <4> QED BY <1>a, <4>1, <4>2, <4>3
    <3>2. CASE k # Len(s)
      <4>1. m.tail[q] = l.tail[q] /\ l.tail[q] = s[Len(s)]
        BY <1>1, <1>2, <1>3, <1>a, <3>2 DEF InOrder
      <4>2. Len(u) # 0 /\ u[Len(u)] = s[Len(s)]
        BY <1>2, <1>6, <3>2
      <4> QED BY <4>1, <4>2
    <3> QED BY <3>1, <3>2
  <2>4. ASSUME NEW i \in 1 .. Len(u) PROVE m.prev[u[i]] = IF i = 1 THEN None ELSE u[i - 1]
    <3>1. CASE i < k
      <4>1. i \in 1 .. Len(s) /\ u[i] = s[i] /\ (i # 1 => u[i - 1] = s[i - 1])
        BY <1>2, <1>6, <3>1
      <4>2. x # None => s[i] # x
        BY <1>2, <1>a, <1>d, <3>1, <4>1
      <4>3. m.prev[s[i]] = l.prev[s[i]]
        BY <1>0, <1>2, <1>3, <4>1, <4>2
      <4>4. l.prev[s[i]] = IF i = 1 THEN None ELSE s[i - 1]
        BY <1>1, <4>1 DEF InOrder
      <4> QED BY <4>1, <4>3, <4>4
    <3>2. CASE i = k
      <4>1. u[i] = s[k + 1] /\ k # Len(s) /\ (k # 1 => u[k - 1] = s[k - 1])
        BY <1>2, <1>6, <3>2
      <4>2. m.prev[x] = p
        BY <1>0, <1>3, <1>a, <4>1
      <4> QED BY <1>a, <3>2, <4>1, <4>2
    <3>3. CASE i > k
      <4>1. i + 1 \in 1 .. Len(s) /\ u[i] = s[i + 1] /\ i # 1 /\ u[i - 1] = s[i] /\ i + 1 # 1
            /\ (i + 1) - 1 = i
        BY <1>2, <1>6, <3>3
      <4>2. x # None => s[i + 1] # x
        BY <1>2, <1>a, <1>d, <3>3, <4>1
      <4>3. m.prev[s[i + 1]] = l.prev[s[i + 1]]
        BY <1>0, <1>2, <1>3, <4>1, <4>2
      <4>4. l.prev[s[i + 1]] = s[i]
        BY <1>1, <4>1 DEF InOrder
      <4> QED BY <4>1, <4>3, <4>4
    <3> QED BY <1>2, <1>6, <3>1, <3>2, <3>3
  <2>5. ASSUME NEW i \in 1 .. Len(u) PROVE m.next[u[i]] = IF i = Len(u) THEN None ELSE u[i + 1]
    <3>1. CASE i >= k
      <4>1. /\ i + 1 \in 1 .. Len(s) /\ u[i] = s[i + 1] /\ (i = Len(u) <=> i + 1 = Len(s))
            /\ i # Len(u) => u[i + 1] = s[(i + 1) + 1]
        BY <1>2, <1>6, <3>1
      <4>2. p # None => s[i + 1] # p
        BY <1>2, <1>a, <1>d, <3>1, <4>1
      <4>3. m.next[s[i + 1]] = l.next[s[i + 1]]
        BY <1>0, <1>2, <1>3, <4>1, <4>2
      <4>4. l.next[s[i + 1]] = IF i + 1 = Len(s) THEN None ELSE s[(i + 1) + 1]
        BY <1>1, <4>1 DEF InOrder
      <4> QED BY <4>1, <4>3, <4>4
    <3>2. CASE i = k - 1
      <4>1. u[i] = s[k - 1] /\ k # 1 /\ (i # Len(u) <=> k # Len(s)) /\ (i # Len(u) => u[i + 1] = s[k + 1])
        BY <1>2, <1>6, <3>2
      <4>2. m.next[p] = x
        BY <1>0, <1>3, <1>a, <4>1
      <4> QED BY <1>a, <3>2, <4>1, <4>2
    <3>3. CASE i < k - 1
      <4>1. i \in 1 .. Len(s) /\ u[i] = s[i] /\ i # Len(s) /\ i # Len(u) /\ u[i + 1] = s[i + 1]
        BY <1>2, <1>6, <3>3
      <4>2. p # None => s[i] # p
        BY <1>2, <1>a, <1>d, <3>3, <4>1
      <4>3. m.next[s[i]] = l.next[s[i]]
        BY <1>0, <1>2, <1>3, <4>1, <4>2
      <4>4. l.next[s[i]] = s[i + 1]
        BY <1>1, <4>1 DEF InOrder
      <4> QED BY <4>1, <4>3, <4>4
    <3> QED BY <1>2, <1>6, <3>1, <3>2, <3>3
  <2> QED BY <2>1, <2>2, <2>3, <2>4, <2>5 DEF InOrder
<1>8. Members(u) = Members(s) \ {n}
  <2>1. ASSUME NEW a \in Members(u) PROVE a \in Members(s) \ {n}
    <3>1. PICK i \in 1 .. Len(u) : a = u[i]
      BY DEF Members
    <3> DEFINE j == IF i < k THEN i ELSE i + 1
    <3>2. j \in 1 .. Len(s) /\ a = s[j] /\ j # k
      BY <1>2, <1>6, <3>1
    <3> QED BY <1>d, <1>k, <3>2 DEF Members
  <2>2. ASSUME NEW a \in Members(s), a # n PROVE a \in Members(u)
    <3>1. PICK j \in 1 .. Len(s) : a = s[j]
      BY DEF Members
    <3>2. j # k
      BY <1>k, <2>2, <3>1
    <3> DEFINE i == IF j < k THEN j ELSE j - 1
    <3>3. i \in 1 .. Len(u) /\ u[i] = s[j]
      BY <1>2, <1>6, <3>2
    <3> QED BY <3>1, <3>3 DEF Members
  <2> QED BY <2>1, <2>2
<1>9. ASSUME NEW r \in Queue PROVE \E v \in Seq(Node) : InOrder(m, r, v) /\ g[r] = Members(v)
  <2>1. CASE r = q
    <3>1. g[q] = f[q] \ {n}
      BY <1>0
    <3> QED BY <1>1, <1>6, <1>7, <1>8, <2>1, <3>1
  <2>2. CASE r # q
    <3>1. PICK v \in Seq(Node) : InOrder(l, r, v) /\ f[r] = Members(v)
      BY DEF Queues
    <3>2. m.head[r] = l.head[r] /\ m.tail[r] = l.tail[r] /\ g[r] = f[r]
      BY <1>0, <1>3, <2>2
    <3>3. ASSUME NEW a \in Members(v) PROVE m.prev[a] = l.prev[a] /\ m.next[a] = l.next[a]
      <4>1. a \in Node /\ a \in f[r]
        BY <1>0, <3>1, <3>3
      <4>2. (p # None => a # p) /\ (x # None => a # x)
        BY <1>0, <1>a, <2>2, <4>1 DEF Apart
      <4> QED BY <1>0, <1>3, <4>1, <4>2
    <3>4. InOrder(m, r, v)
      BY <3>1, <3>2, <3>3, OtherKept
    <3> QED BY <3>1, <3>2, <3>4
  <2> QED BY <2>1, <2>2
<1>10. Queues(m, g)
  BY <1>4, <1>5, <1>9 DEF Queues
<1> QED BY <1>10 DEF m

(* The links of an aio that is in no queue do not matter.                   *)
LEMMA SettledQueues ==
  ASSUME NEW l, NEW f, Queues(l, f)
  PROVE  Queues(Settled(l, f), f) /\ Settled(l, f).head = l.head
<1> DEFINE m == Settled(l, f)
           in == UNION {f[q] : q \in Queue}
<1>0. /\ l \in Links /\ f \in [Queue -> SUBSET Node] /\ Apart(f)
      /\ l.prev \in [Node -> Node \cup {None}] /\ l.next \in [Node -> Node \cup {None}]
  BY DEF Queues, Links
<1>1. /\ m.head = l.head /\ m.tail = l.tail
      /\ m.prev = [n \in Node |-> IF n \in in THEN l.prev[n] ELSE None]
      /\ m.next = [n \in Node |-> IF n \in in THEN l.next[n] ELSE None]
      /\ m \in Links
  BY <1>0 DEF Settled, Links
<1> HIDE DEF m
<1>2. ASSUME NEW r \in Queue PROVE \E v \in Seq(Node) : InOrder(m, r, v) /\ f[r] = Members(v)
  <2>1. PICK v \in Seq(Node) : InOrder(l, r, v) /\ f[r] = Members(v)
    BY DEF Queues
  <2>2. ASSUME NEW a \in Members(v) PROVE m.prev[a] = l.prev[a] /\ m.next[a] = l.next[a]
    BY <1>0, <1>1, <2>1, <2>2
  <2>3. InOrder(m, r, v)
    BY <1>1, <2>1, <2>2, OtherKept
  <2> QED BY <2>1, <2>3
<1>3. Queues(m, f)
  BY <1>0, <1>1, <1>2 DEF Queues
<1> QED BY <1>1, <1>3 DEF m

(* _check_incoming puts the aios handed over by other threads behind those  *)
(* of the loop's own thread, and finds them all.                            *)
LEMMA TakenQueues ==
  ASSUME NEW l, NEW f, Queues(l, f), f["tmp"] = {}
  PROVE  LET g == [q \in Queue |-> IF q = "tmp" THEN f["incoming"] \cup f["extern"] ELSE {}]
         IN  Queues(Taken(l), g) /\ Walk(Taken(l), "tmp") = f["incoming"] \cup f["extern"]
<1> DEFINE m == Taken(l)
           g == [q \in Queue |-> IF q = "tmp" THEN f["incoming"] \cup f["extern"] ELSE {}]
           h == l.head["incoming"]
           t == l.tail["incoming"]
           e == l.head["extern"]
<1>0. /\ l \in Links /\ f \in [Queue -> SUBSET Node] /\ Apart(f)
      /\ l.head \in [Queue -> Node \cup {None}] /\ l.tail \in [Queue -> Node \cup {None}]
      /\ l.prev \in [Node -> Node \cup {None}] /\ l.next \in [Node -> Node \cup {None}]
  BY DEF Queues, Links
<1>q. "incoming" \in Queue /\ "extern" \in Queue /\ "tmp" \in Queue
  BY DEF Queue
<1>1. PICK a \in Seq(Node) : InOrder(l, "incoming", a) /\ f["incoming"] = Members(a)
  BY <1>q DEF Queues
<1>2. PICK b \in Seq(Node) : InOrder(l, "extern", b) /\ f["extern"] = Members(b)
  BY <1>q DEF Queues
<1>3. /\ Len(a) \in Nat /\ \A i \in 1 .. Len(a) : a[i] \in Node /\ a[i] # None /\ a[i] \in f["incoming"]
      /\ Len(b) \in Nat /\ \A i \in 1 .. Len(b) : b[i] \in Node /\ b[i] # None /\ b[i] \in f["extern"]
  BY <1>1, <1>2, NoneNotNode DEF Members
<1>4. \A i \in 1 .. Len(a) : \A j \in 1 .. Len(b) : a[i] # b[j]
  BY <1>0, <1>3, <1>q DEF Apart
<1>5. /\ m.head = [q \in Queue |-> IF q # "tmp" THEN None ELSE IF h = None THEN e ELSE h]
      /\ m.tail = [q \in Queue |-> IF q # "tmp" THEN None
                                   ELSE IF e = None THEN t ELSE l.tail["extern"]]
      /\ m.next = IF h # None /\ e # None THEN [l.next EXCEPT ![t] = e] ELSE l.next
      /\ m.prev = IF h # None /\ e # None THEN [l.prev EXCEPT ![e] = t] ELSE l.prev
      /\ m = [head |-> m.head, tail |-> m.tail, next |-> m.next, prev |-> m.prev]
  BY DEF Taken
<1>6. /\ h = IF Len(a) = 0 THEN None ELSE a[1]
      /\ t = IF Len(a) = 0 THEN None ELSE a[Len(a)]
      /\ e = IF Len(b) = 0 THEN None ELSE b[1]
      /\ l.tail["extern"] = IF Len(b) = 0 THEN None ELSE b[Len(b)]
  BY <1>1, <1>2 DEF InOrder
<1>7. /\ Len(a) = 0 => h = None /\ t = None
      /\ Len(a) # 0 => h # None /\ h \in Node /\ h = a[1] /\ t = a[Len(a)] /\ t \in Node
      /\ Len(b) = 0 => e = None /\ l.tail["extern"] = None
      /\ Len(b) # 0 => e # None /\ e = b[1] /\ e \in Node /\ l.tail["extern"] = b[Len(b)]
  <2>1. (Len(a) # 0 => 1 \in 1 .. Len(a) /\ Len(a) \in 1 .. Len(a))
        /\ (Len(b) # 0 => 1 \in 1 .. Len(b))
    BY <1>3
  <2> QED BY <1>3, <1>6, <2>1
<1>d. Distinct(a) /\ Distinct(b)
  BY <1>1, <1>2 DEF InOrder
<1> HIDE DEF m, h, t, e
<1>8. m \in Links
  <2>1. /\ l.tail["extern"] \in Node \cup {None} /\ e \in Node \cup {None} /\ t \in Node \cup {None}
        /\ h \in Node \cup {None}
    BY <1>0, <1>7, <1>q
  <2>2. m.head \in [Queue -> Node \cup {None}] /\ m.tail \in [Queue -> Node \cup {None}]
    BY <1>5, <2>1
  <2>3. m.prev \in [Node -> Node \cup {None}]
    <3>1. [l.prev EXCEPT ![e] = t] \in [Node -> Node \cup {None}]
      BY <1>0, <2>1
    <3> QED BY <1>0, <1>5, <3>1
  <2>4. m.next \in [Node -> Node \cup {None}]
    <3>1. [l.next EXCEPT ![t] = e] \in [Node -> Node \cup {None}]
      BY <1>0, <2>1
    <3> QED BY <1>0, <1>5, <3>1
  <2> QED BY <1>5, <2>2, <2>3, <2>4 DEF Links
<1> DEFINE u == a \o b
<1>9. /\ u \in Seq(Node) /\ Len(u) = Len(a) + Len(b)
      /\ \A i \in 1 .. Len(a) : u[i] = a[i]
      /\ \A i \in 1 .. Len(b) : u[Len(a) + i] = b[i]
  OBVIOUS
<1> HIDE DEF u
<1>b. ASSUME NEW i \in 1 .. Len(u), i > Len(a)
      PROVE  i - Len(a) \in 1 .. Len(b) /\ u[i] = b[i - Len(a)]
  <2>1. i - Len(a) \in 1 .. Len(b) /\ i = Len(a) + (i - Len(a))
    BY <1>3, <1>9, <1>b
  <2> QED BY <1>9, <2>1
<1>c. ASSUME NEW i \in 1 .. Len(u), i <= Len(a) PROVE i \in 1 .. Len(a) /\ u[i] = a[i]
  BY <1>3, <1>9, <1>c
<1>10. InOrder(m, "tmp", u)
  <2>1. Distinct(u)
    <3> SUFFICES ASSUME NEW i \in 1 .. Len(u), NEW j \in 1 .. Len(u), u[i] = u[j] PROVE i = j
      BY DEF Distinct
    <3>1. CASE i <= Len(a) /\ j <= Len(a)
      BY <1>c, <1>d, <3>1 DEF Distinct
    <3>2. CASE i > Len(a) /\ j > Len(a)
      <4>1. i - Len(a) = j - Len(a)
        BY <1>b, <1>d, <3>2 DEF Distinct
      <4> QED BY <1>3, <1>9, <4>1
    <3>3. CASE i <= Len(a) /\ j > Len(a)
      BY <1>4, <1>b, <1>c, <3>3
    <3>4. CASE i > Len(a) /\ j <= Len(a)
      BY <1>4, <1>b, <1>c, <3>4
    <3> QED BY <1>3, <1>9, <3>1, <3>2, <3>3, <3>4
  <2>2. m.head["tmp"] = IF Len(u) = 0 THEN None ELSE u[1]
    <3>1. m.head["tmp"] = IF h = None THEN e ELSE h
      BY <1>5, <1>q
    <3>2. CASE Len(a) # 0
      BY <1>3, <1>7, <1>9, <3>1, <3>2
    <3>3. CASE Len(a) = 0
      <4>1. Len(b) # 0 => u[1] = b[1]
        BY <1>3, <1>9, <3>3
      <4> QED BY <1>3, <1>7, <1>9, <3>1, <3>3, <4>1
    <3> QED BY <3>2, <3>3
  <2>3. m.tail["tmp"] = IF Len(u) = 0 THEN None ELSE u[Len(u)]
    <3>1. m.tail["tmp"] = IF e = None THEN t ELSE l.tail["extern"]
      BY <1>5, <1>q
    <3>2. CASE Len(b) # 0
      <4>1. Len(u) # 0 /\ u[Len(u)] = b[Len(b)]
        BY <1>3, <1>9, <3>2
      <4> QED BY <1>7, <3>1, <3>2, <4>1
    <3>3. CASE Len(b) = 0
      <4>1. Len(u) = Len(a)
        BY <1>3, <1>9, <3>3
      <4>2. Len(a) # 0 => u[Len(u)] = a[Len(a)]
        BY <1>3, <1>9, <4>1
      <4> QED BY <1>7, <3>1, <3>3, <4>1, <4>2
    <3> QED BY <3>2, <3>3
  <2>4. ASSUME NEW i \in 1 .. Len(u) PROVE m.prev[u[i]] = IF i = 1 THEN None ELSE u[i - 1]
    <3>1. CASE i <= Len(a)
      <4>1. i \in 1 .. Len(a) /\ u[i] = a[i] /\ (i # 1 => u[i - 1] = a[i - 1])
        BY <1>3, <1>9, <3>1
      <4>2. Len(b) # 0 => a[i] # e
        BY <1>3, <1>4, <1>7, <4>1
      <4>3. m.prev[a[i]] = l.prev[a[i]]
        BY <1>0, <1>3, <1>5, <1>7, <4>1, <4>2
      <4>4. l.prev[a[i]] = IF i = 1 THEN None ELSE a[i - 1]
        BY <1>1, <4>1 DEF InOrder
      <4> QED BY <4>1, <4>3, <4>4
    <3>2. CASE i = Len(a) + 1
      <4>1. u[i] = b[1] /\ Len(b) # 0 /\ (Len(a) # 0 => i # 1 /\ u[i - 1] = a[Len(a)])
            /\ (Len(a) = 0 => i = 1)
        BY <1>3, <1>9, <3>2
      <4>2. CASE Len(a) # 0
        <5>1. m.prev[e] = t
          BY <1>0, <1>5, <1>7, <4>1, <4>2
        <5> QED BY <1>7, <4>1, <4>2, <5>1
      <4>3. CASE Len(a) = 0
        <5>1. m.prev = l.prev
          BY <1>5, <1>7, <4>3
        <5>2. l.prev[b[1]] = None
          BY <1>2, <1>3, <4>1 DEF InOrder
        <5> QED BY <4>1, <4>3, <5>1, <5>2
      <4> QED BY <4>2, <4>3
    <3>3. CASE i > Len(a) + 1
      <4> DEFINE j == i - Len(a)
      <4>1. j \in 1 .. Len(b) /\ u[i] = b[j] /\ j # 1 /\ i # 1
        BY <1>3, <1>b, <3>3
      <4>2. u[i - 1] = b[j - 1]
        <5>1. i - 1 \in 1 .. Len(u) /\ i - 1 > Len(a) /\ (i - 1) - Len(a) = j - 1
          BY <1>3, <1>9, <3>3
        <5> QED BY <1>b, <5>1
      <4>3. b[j] # e
        BY <1>3, <1>7, <1>d, <4>1 DEF Distinct
      <4>4. m.prev[b[j]] = l.prev[b[j]]
        BY <1>0, <1>3, <1>5, <4>1, <4>3
      <4>5. l.prev[b[j]] = b[j - 1]
        BY <1>2, <4>1 DEF InOrder
      <4> QED BY <4>1, <4>2, <4>4, <4>5
    <3> QED BY <1>3, <1>9, <3>1, <3>2, <3>3
  <2>5. ASSUME NEW i \in 1 .. Len(u) PROVE m.next[u[i]] = IF i = Len(u) THEN None ELSE u[i + 1]
    <3>1. CASE i < Len(a)
      <4>1. /\ i \in 1 .. Len(a) /\ u[i] = a[i] /\ i # Len(u) /\ u[i + 1] = a[i + 1] /\ i # Len(a)
            /\ Len(a) # 0 /\ Len(a) \in 1 .. Len(a)
        BY <1>3, <1>9, <3>1
      <4>2. a[i] # t
        BY <1>7, <1>d, <4>1 DEF Distinct
      <4>3. m.next[a[i]] = l.next[a[i]]
        BY <1>0, <1>3, <1>5, <4>1, <4>2
      <4>4. l.next[a[i]] = a[i + 1]
        BY <1>1, <4>1 DEF InOrder
      <4> QED BY <4>1, <4>3, <4>4
    <3>2. CASE i = Len(a)
      <4>1. u[i] = a[Len(a)] /\ Len(a) # 0 /\ (Len(b) # 0 => i # Len(u) /\ u[i + 1] = b[1])
            /\ (Len(b) = 0 => i = Len(u))
        BY <1>3, <1>9, <3>2
      <4>2. CASE Len(b) # 0
        <5>1. m.next[t] = e
          BY <1>0, <1>5, <1>7, <4>1, <4>2
        <5> QED BY <1>7, <4>1, <4>2, <5>1
      <4>3. CASE Len(b) = 0
        <5>1. m.next = l.next
          BY <1>5, <1>7, <4>3
        <5>2. Len(a) \in 1 .. Len(a)
          BY <1>3, <4>1
        <5>3. l.next[a[Len(a)]] = None
          BY <1>1, <5>2 DEF InOrder
        <5> QED BY <4>1, <4>3, <5>1, <5>3
      <4> QED BY <4>2, <4>3
    <3>3. CASE i > Len(a)
      <4> DEFINE j == i - Len(a)
      <4>1. j \in 1 .. Len(b) /\ u[i] = b[j] /\ (i = Len(u) <=> j = Len(b))
        BY <1>3, <1>9, <1>b, <3>3
      <4>2. i # Len(u) => u[i + 1] = b[j + 1]
        <5>1. i # Len(u) => i + 1 \in 1 .. Len(u) /\ i + 1 > Len(a) /\ (i + 1) - Len(a) = j + 1
          BY <1>3, <1>9, <3>3
        <5> QED BY <1>b, <5>1
      <4>3. Len(a) # 0 => b[j] # t
        <5>1. Len(a) # 0 => Len(a) \in 1 .. Len(a)
          BY <1>3
        <5> QED BY <1>4, <1>7, <4>1, <5>1
      <4>4. m.next[b[j]] = l.next[b[j]]
        BY <1>0, <1>3, <1>5, <1>7, <4>1, <4>3
      <4>5. l.next[b[j]] = IF j = Len(b) THEN None ELSE b[j + 1]
        BY <1>2, <4>1 DEF InOrder
      <4> QED BY <4>1, <4>2, <4>4, <4>5
    <3> QED BY <1>3, <1>9, <3>1, <3>2, <3>3
  <2> QED BY <2>1, <2>2, <2>3, <2>4, <2>5 DEF InOrder
<1>11. Members(u) = Members(a) \cup Members(b)
  <2>1. ASSUME NEW k \in Members(u) PROVE k \in Members(a) \cup Members(b)
    <3>1. PICK i \in 1 .. Len(u) : k = u[i]
      BY DEF Members
    <3>2. CASE i <= Len(a)
      BY <1>c, <3>1, <3>2 DEF Members
    <3>3. CASE i > Len(a)
      BY <1>b, <3>1, <3>3 DEF Members
    <3> QED BY <1>3, <1>9, <3>2, <3>3
  <2>2. ASSUME NEW k \in Members(a) PROVE k \in Members(u)
    <3>1. PICK i \in 1 .. Len(a) : k = a[i]
      BY DEF Members
    <3>2. i \in 1 .. Len(u) /\ u[i] = k
      BY <1>3, <1>9, <3>1
    <3> QED BY <3>2 DEF Members
  <2>3. ASSUME NEW k \in Members(b) PROVE k \in Members(u)
    <3>1. PICK i \in 1 .. Len(b) : k = b[i]
      BY DEF Members
    <3>2. Len(a) + i \in 1 .. Len(u) /\ u[Len(a) + i] = k
      BY <1>3, <1>9, <3>1
    <3> QED BY <3>2 DEF Members
  <2> QED BY <2>1, <2>2, <2>3
<1>12. ASSUME NEW r \in Queue PROVE \E v \in Seq(Node) : InOrder(m, r, v) /\ g[r] = Members(v)
  <2>1. CASE r = "tmp"
    BY <1>1, <1>2, <1>9, <1>10, <1>11, <2>1
  <2>2. CASE r # "tmp"
    <3>1. <<>> \in Seq(Node) /\ Len(<<>>) = 0
      OBVIOUS
    <3>2. m.head[r] = None /\ m.tail[r] = None /\ g[r] = {}
      BY <1>5, <2>2
    <3>3. InOrder(m, r, <<>>) /\ Members(<<>>) = {}
      BY <3>1, <3>2 DEF InOrder, Distinct, Members
    <3> QED BY <3>1, <3>2, <3>3
  <2> QED BY <2>1, <2>2
<1>13. g \in [Queue -> SUBSET Node] /\ Apart(g)
  BY <1>0, <1>q DEF Apart
<1>14. Queues(m, g)
  BY <1>8, <1>12, <1>13 DEF Queues
<1>15. Walk(m, "tmp") = g["tmp"]
  BY <1>14, <1>q, WalkFinds
<1> QED BY <1>14, <1>15, <1>q DEF m

(* zaio_disable takes the aio out of the queue that it is in, if any.       *)
LEMMA LeftQueues ==
  ASSUME NEW l, NEW f, Queues(l, f), NEW n \in Node
  PROVE  Queues(Left(l, f, n), [q \in Queue |-> f[q] \ {n}])
<1> DEFINE g == [q \in Queue |-> f[q] \ {n}]
<1>0. f \in [Queue -> SUBSET Node] /\ Apart(f)
  BY DEF Queues
<1>q. Queue = {"incoming", "extern", "tmp"}
  BY DEF Queue
<1>1. ASSUME NEW q \in Queue, n \in f[q] PROVE Left(l, f, n) = Detached(l, q, n) /\ g = [f EXCEPT ![q] = @ \ {n}]
  <2>1. \A r \in Queue : n \in f[r] <=> r = q
    BY <1>0, <1>1 DEF Apart
  <2>2. g = [f EXCEPT ![q] = @ \ {n}]
    BY <1>0, <1>1, <2>1
  <2>3. Left(l, f, n) = Detached(l, q, n)
    BY <1>q, <2>1 DEF Left
  <2> QED BY <2>2, <2>3
<1>2. CASE \E q \in Queue : n \in f[q]
  <2>1. PICK q \in Queue : n \in f[q]
    BY <1>2
  <2>2. Queues(Detached(l, q, n), [f EXCEPT ![q] = @ \ {n}])
    BY <2>1, DetachedQueues
  <2> HIDE DEF g
  <2>3. Queues(Left(l, f, n), g)
    BY <1>1, <2>1, <2>2
  <2> QED BY <2>3 DEF g
<1>3. CASE \A q \in Queue : n \notin f[q]
  <2>1. g = f
    BY <1>0, <1>3
  <2>2. Left(l, f, n) = l
    BY <1>3, <1>q DEF Left
  <2> QED BY <2>1, <2>2
<1> QED BY <1>2, <1>3

-----------------------------------------------------------------------------
(***************************************************************************)
(* What the handlers of _active_vector may do.                             *)
(***************************************************************************)
Stage == {"incoming", "timeout", "epoll"}
Sleep == {"sleep", "sleep0"}

Decided(n, st, o) ==
    /\ o.do \in {"go", "wait", "again"} /\ o.take \in BOOLEAN
    /\ o.drop \in Nat /\ o.left \in Nat
    /\ o.take => n \in Aios
    /\ o.drop <= rcache[n] \/ (o.take /\ o.drop <= rcache[n] + rx[n])
    /\ n = Ev => o.drop = 0
    /\ o.do = "go" => o.ret \in {"ok", "error", "timeout"}
    /\ o.do = "wait" => /\ o.on \in SUBSET Event
                        /\ o.on = {} => action[n] \in Sleep
                        /\ n = Ev => o.on = {"read"}
                        /\ st # "timeout"
                        /\ st = "epoll" => action[n] \notin Persistent
    /\ n = Ev /\ st = "incoming" => o.do = "wait"
    /\ o.do = "again" => action[n] = "cint" /\ st # "timeout"

(* The eventfd's aio stays readable, with nothing in its cache.             *)
EvReadable == action[Ev] = "readable" /\ rcache[Ev] = 0

(* An aio that is ready, or waits, or enters the queue again, with or       *)
(* without what its socket held.                                            *)
LEMMA DecidedReady ==
  ASSUME TypeOK, NEW n \in Node, NEW st, NEW r \in {"ok", "error", "timeout"}, NEW o,
         o = Ready(n, r) \/ (n \in Aios /\ o = Taking(Ready(n, r))), n # Ev \/ st # "incoming"
  PROVE  Decided(n, st, o)
<1>1. want[n] \in Nat /\ rcache[n] \in Nat
  BY DEF TypeOK
<1>2. /\ o.do = "go" /\ o.ret = r /\ o.take \in BOOLEAN /\ o.drop = 0 /\ o.left = want[n]
      /\ o.take => n \in Aios
  <2>1. CASE o = Ready(n, r)
    BY <2>1 DEF Ready, Outcome
  <2>2. CASE n \in Aios /\ o = Taking(Ready(n, r))
    BY <2>2 DEF Ready, Outcome, Taking
  <2> QED BY <2>1, <2>2
<1> QED BY <1>1, <1>2 DEF Decided

LEMMA DecidedWait ==
  ASSUME TypeOK, NEW n \in Node, NEW st, NEW W \in SUBSET Event, NEW w \in Nat, NEW o,
         o = Wait(n, W, w) \/ (n \in Aios /\ o = Taking(Wait(n, W, w))),
         W = {} => action[n] \in Sleep, n = Ev => W = {"read"},
         st # "timeout", st = "epoll" => action[n] \notin Persistent
  PROVE  Decided(n, st, o)
<1>1. rcache[n] \in Nat
  BY DEF TypeOK
<1>2. /\ o.do = "wait" /\ o.on = W /\ o.take \in BOOLEAN /\ o.drop = 0 /\ o.left = w
      /\ o.take => n \in Aios
  <2>1. CASE o = Wait(n, W, w)
    BY <2>1 DEF Wait, Outcome
  <2>2. CASE n \in Aios /\ o = Taking(Wait(n, W, w))
    BY <2>2 DEF Wait, Outcome, Taking
  <2> QED BY <2>1, <2>2
<1> QED BY <1>1, <1>2 DEF Decided

LEMMA DecidedLength ==
  ASSUME TypeOK, NEW n \in Aios, NEW st, NEW o, action[n] = "cint", st # "timeout",
         \/ o \in {Length(n)} \cup {Again(n, w) : w \in Nat} /\ rcache[n] >= want[n]
         \/ /\ o \in {Taking(Length(n))} \cup {Taking(Again(n, w)) : w \in Nat}
            /\ rcache[n] + rx[n] >= want[n]
  PROVE  Decided(n, st, o)
<1>1. n \in Node /\ n # Ev
  BY AioAssumption DEF Node
<1>2. want[n] \in Nat /\ rcache[n] \in Nat
  BY <1>1 DEF TypeOK
<1>3. /\ o.do \in {"go", "again"} /\ o.drop = want[n] /\ o.left \in Nat
      /\ o.do = "go" => o.ret = "ok"
      /\ \/ o.take = FALSE /\ rcache[n] >= want[n]
         \/ o.take = TRUE /\ rcache[n] + rx[n] >= want[n]
  <2>1. CASE o = Length(n) /\ rcache[n] >= want[n]
    BY <2>1 DEF Length, Outcome
  <2>2. CASE o = Taking(Length(n)) /\ rcache[n] + rx[n] >= want[n]
    BY <2>2 DEF Length, Outcome, Taking
  <2>3. ASSUME NEW w \in Nat, o = Again(n, w), rcache[n] >= want[n]
        PROVE  o.do = "again" /\ o.drop = want[n] /\ o.left = w /\ o.take = FALSE
    BY <2>3 DEF Again, Outcome
  <2>4. ASSUME NEW w \in Nat, o = Taking(Again(n, w)), rcache[n] + rx[n] >= want[n]
        PROVE  o.do = "again" /\ o.drop = want[n] /\ o.left = w /\ o.take = TRUE
    BY <2>4 DEF Again, Outcome, Taking
  <2> QED BY <2>1, <2>2, <2>3, <2>4
<1>4. rx[n] \in Nat
  BY AioAssumption DEF TypeOK
<1>5. o.drop <= rcache[n] \/ (o.take /\ o.drop <= rcache[n] + rx[n])
  BY <1>2, <1>3, <1>4
<1> QED BY <1>1, <1>2, <1>3, <1>5 DEF Decided

(* The loop over _zaio_io_read ends with enough in the cache, in an error   *)
(* or waiting, first of all or after an event that brought too little.      *)
LEMMA FilledCases ==
  ASSUME TypeOK, NEW n \in Aios, NEW st, NEW x, NEW o \in Filled(n, st, x)
  PROVE  \/ o = x /\ rcache[n] >= want[n]
         \/ o = Taking(x) /\ rcache[n] + rx[n] >= want[n]
         \/ o = Taking(Ready(n, "error"))
         \/ o = Taking(Wait(n, {"read"}, want[n]))
<1>1. want[n] \in Nat /\ rcache[n] \in Nat /\ rx[n] \in Nat
  BY AioAssumption DEF TypeOK, Node
<1>2. CASE rcache[n] >= want[n]
  BY <1>1, <1>2 DEF Filled
<1>3. CASE rcache[n] < want[n] /\ rcache[n] + rx[n] >= want[n]
  BY <1>1, <1>3 DEF Filled
<1>4. CASE rcache[n] + rx[n] < want[n]
  BY <1>1, <1>4 DEF Filled
<1> QED BY <1>1, <1>2, <1>3, <1>4

LEMMA DecidedOutcomes ==
  ASSUME TypeOK, EvReadable, NEW n \in Node, action[n] # "none", NEW st \in Stage,
         NEW o \in Outcomes(n, st)
  PROVE  Decided(n, st, o)
<1>3. action[n] \in Action /\ rcache[n] \in Nat /\ want[n] \in Nat
  BY DEF TypeOK
<1>4. n # Ev => n \in Aios
  BY DEF Node
<1>5. n = Ev => action[n] = "readable" /\ rcache[n] = 0
  BY DEF EvReadable
<1>e. {"read"} \in SUBSET Event /\ {"write"} \in SUBSET Event /\ {} \in SUBSET Event
      /\ {"read"} # {} /\ {"write"} # {}
  BY DEF Event
<1>6. CASE action[n] = "readable"
  <2>1. \/ (o \in {Ready(n, "ok"), Ready(n, "timeout")} /\ (n # Ev \/ st # "incoming"))
        \/ (o = Wait(n, {"read"}, 0) /\ st = "incoming")
    BY <1>5, <1>6 DEF Outcomes, Readable, TimedOut, Stage
  <2> QED BY <1>6, <1>e, <2>1, DecidedReady, DecidedWait
<1>7. CASE action[n] = "writeable"
  <2>1. \/ o = Ready(n, "ok") \/ o = Ready(n, "timeout")
        \/ (o = Wait(n, {"write"}, 0) /\ st = "incoming")
    BY <1>7 DEF Outcomes, Writeable, TimedOut, Stage
  <2> QED BY <1>5, <1>7, <1>e, <2>1, DecidedReady, DecidedWait
<1>r. ASSUME action[n] \in {"read", "data", "cint"}, st # "timeout",
             o = Taking(Ready(n, "error")) \/ o = Taking(Wait(n, {"read"}, want[n]))
      PROVE  Decided(n, st, o)
  <2>1. n \in Aios /\ n # Ev /\ action[n] \notin Persistent
    BY <1>4, <1>5, <1>r DEF Persistent
  <2> QED BY <1>3, <1>e, <1>r, <2>1, DecidedReady, DecidedWait
<1>8. CASE action[n] \in {"read", "data"}
  <2>0. n \in Aios /\ n # Ev
    BY <1>4, <1>5, <1>8
  <2>1. o = Ready(n, "timeout") \/ (o \in Filled(n, st, Ready(n, "ok")) /\ st # "timeout")
    BY <1>8 DEF Outcomes, Reading, TimedOut
  <2>2. CASE o = Ready(n, "timeout")
    BY <2>0, <2>2, DecidedReady
  <2>3. CASE o \in Filled(n, st, Ready(n, "ok")) /\ st # "timeout"
    <3>1. \/ o = Ready(n, "ok") \/ o = Taking(Ready(n, "ok"))
          \/ o = Taking(Ready(n, "error")) \/ o = Taking(Wait(n, {"read"}, want[n]))
      BY <2>0, <2>3, FilledCases
    <3> QED BY <1>8, <1>r, <2>0, <2>3, <3>1, DecidedReady
  <2> QED BY <2>1, <2>2, <2>3
<1>9. CASE action[n] = "cint"
  <2>0. n \in Aios /\ n # Ev /\ Wants(n, "data") \subseteq Nat
    BY <1>4, <1>5, <1>9, AioAssumption
  <2>1. CASE st = "timeout"
    <3>1. o = Ready(n, "timeout")
      BY <1>9, <2>1 DEF Outcomes, ReadingCint, TimedOut
    <3> QED BY <2>0, <3>1, DecidedReady
  <2>2. CASE st # "timeout"
    <3>1. PICK x \in {Length(n), Ready(n, "error")} \cup {Again(n, w) : w \in Wants(n, "data")} :
             o \in Filled(n, st, x)
      BY <1>9, <2>2 DEF Outcomes, ReadingCint
    <3>2. \/ o = x /\ rcache[n] >= want[n]
          \/ o = Taking(x) /\ rcache[n] + rx[n] >= want[n]
          \/ o = Taking(Ready(n, "error")) \/ o = Taking(Wait(n, {"read"}, want[n]))
      BY <2>0, <3>1, FilledCases
    <3>3. CASE x = Ready(n, "error")
      BY <1>9, <1>r, <2>0, <2>2, <3>2, <3>3, DecidedReady
    <3>4. CASE x = Length(n) \/ \E w \in Wants(n, "data") : x = Again(n, w)
      BY <1>9, <1>r, <2>0, <2>2, <3>2, <3>4, DecidedLength
    <3> QED BY <3>1, <3>3, <3>4
  <2> QED BY <2>1, <2>2
<1>10. CASE action[n] = "writen"
  <2>0. n # Ev /\ action[n] \notin Persistent
    BY <1>5, <1>10 DEF Persistent
  <2>1. \/ o = Ready(n, "timeout") \/ o = Ready(n, "ok") \/ o = Ready(n, "error")
        \/ (st # "timeout" /\ \E w \in Unsent(n, st) : o = Wait(n, {"write"}, w))
    BY <1>10 DEF Outcomes, Writing, TimedOut
  <2>2. Unsent(n, st) \subseteq Nat
    BY <1>3 DEF Unsent
  <2> QED BY <1>e, <2>0, <2>1, <2>2, DecidedReady, DecidedWait
<1>11. CASE action[n] = "tls"
  <2>0. n # Ev /\ action[n] \notin Persistent
    BY <1>5, <1>11 DEF Persistent
  <2>1. \/ o = Ready(n, "ok") \/ o = Ready(n, "error")
        \/ (o \in {Wait(n, {"read"}, 0), Wait(n, {"write"}, 0)} /\ st # "timeout")
    BY <1>11 DEF Outcomes, Handshaking
  <2> QED BY <1>e, <2>0, <2>1, DecidedReady, DecidedWait
<1>12. CASE action[n] \in Sleep
  <2>1. o = Ready(n, "ok") \/ (o = Wait(n, {}, 0) /\ st # "timeout")
    BY <1>12 DEF Outcomes, Sleeping, Sleep
  <2>2. n # Ev /\ action[n] \notin Persistent
    BY <1>5, <1>12 DEF Sleep, Persistent
  <2> QED BY <1>12, <1>e, <2>1, <2>2, DecidedReady, DecidedWait
<1> QED BY <1>3, <1>6, <1>7, <1>8, <1>9, <1>10, <1>11, <1>12 DEF Action, Persistent, Sleep

(* One call of _zaio_active, by what becomes of the aio.                    *)
Went(n, st, l, f, T) ==
    /\ n = Ev => st # "incoming"
    /\ pc' = "cb" /\ cur' = n /\ ret' \in {"ok", "error", "timeout"}
    /\ reg' = [reg EXCEPT ![n] = Kept(n)]
    /\ pend' = pend \ {n}
    /\ links' = l /\ inq' = f /\ tree' = T /\ action' = action

Waited(n, st, l, f, T) ==
    /\ \E W \in SUBSET Event : /\ reg' = [reg EXCEPT ![n] = W]
                               /\ W = {} => action[n] \in Sleep /\ n \in tree'
                               /\ n = Ev => W = {"read"}
    /\ st # "timeout" /\ (st = "epoll" => action[n] \notin Persistent)
    /\ tree' \in {T, T \cup {n}} /\ (n = Ev => tree' = T)
    /\ links' = l /\ inq' = f
    /\ UNCHANGED <<pc, cur, action, ret, pend>>

Reentered(n, st, l, f, T) ==
    /\ action[n] = "cint" /\ st # "timeout"
    /\ action' = [action EXCEPT ![n] = "data"]
    /\ Enter(n, l, f)
    /\ tree' = T
    /\ UNCHANGED <<pc, cur, reg, ret, pend>>

LEMMA ServeCases ==
  ASSUME TypeOK, EvReadable, NEW n \in Node, action[n] # "none", NEW st \in Stage,
         NEW l, NEW f, NEW T, Serve(n, st, l, f, T)
  PROVE  /\ due' = due \ {n}
         /\ rx' \in [Aios -> 0 .. MaxRx] /\ want' \in [Node -> Nat]
         /\ rcache' \in [Node -> Nat] /\ rcache'[Ev] = 0
         /\ UNCHANGED <<stage, script, delay, stop_flag, eventfd, other, alive>>
         /\ Went(n, st, l, f, T) \/ Waited(n, st, l, f, T) \/ Reentered(n, st, l, f, T)
<1>1. PICK o \in Outcomes(n, st) :
      /\ due' = due \ {n}
      /\ rx' = IF o.take THEN [rx EXCEPT ![n] = 0] ELSE rx
      /\ rcache' = [rcache EXCEPT ![n] = @ + (IF o.take THEN rx[n] ELSE 0)
                                           - o.drop]
      /\ want' = [want EXCEPT ![n] = o.left]
      /\ \/ /\ o.do = "go"
            /\ pc' = "cb" /\ cur' = n
            /\ reg' = [reg EXCEPT ![n] = Kept(n)]
            /\ ret' = o.ret
            /\ pend' = pend \ {n}
            /\ links' = l /\ inq' = f /\ tree' = T
            /\ UNCHANGED action
         \/ /\ o.do = "wait"
            /\ reg' = [reg EXCEPT ![n] = o.on]
            /\ tree' = Armed(n, o.on, T)
            /\ links' = l /\ inq' = f
            /\ UNCHANGED <<pc, cur, action, ret, pend>>
         \/ /\ o.do = "again"
            /\ action' = [action EXCEPT ![n] = "data"]
            /\ Enter(n, l, f)
            /\ tree' = T
            /\ UNCHANGED <<pc, cur, reg, ret, pend>>
         \/ o.do = "none"
      /\ UNCHANGED <<stage, script, delay, stop_flag, eventfd, other, alive>>
  BY DEF Serve, baseVars
<1>2. Decided(n, st, o)
  BY <1>1, DecidedOutcomes
<1>3. /\ rx \in [Aios -> 0 .. MaxRx] /\ rcache \in [Node -> Nat] /\ rcache[Ev] = 0 /\ Ev \in Node
      /\ MaxRx \in Nat /\ Ev \notin Aios /\ Ev \notin Timed /\ action[Ev] = "readable"
  BY AioAssumption DEF TypeOK, EvReadable, Node
<1>4. rx' \in [Aios -> 0 .. MaxRx]
  <2>1. o.take => [rx EXCEPT ![n] = 0] \in [Aios -> 0 .. MaxRx]
    BY <1>2, <1>3 DEF Decided
  <2> QED BY <1>1, <1>3, <2>1
<1> DEFINE k == rcache[n] + (IF o.take THEN rx[n] ELSE 0) - o.drop
<1>5. k \in Nat /\ (n = Ev => k = 0)
  <2>1. rcache[n] \in Nat /\ o.take \in BOOLEAN /\ (o.take => n \in Aios /\ rx[n] \in Nat)
    BY <1>2, <1>3 DEF Decided
  <2>2. /\ o.drop \in Nat /\ (n = Ev => o.drop = 0)
        /\ o.drop <= rcache[n] \/ (o.take /\ o.drop <= rcache[n] + rx[n])
    BY <1>2 DEF Decided
  <2> QED BY <1>3, <2>1, <2>2
<1>6. rcache' = [rcache EXCEPT ![n] = k]
  BY <1>1
<1> HIDE DEF k
<1>7. rcache' \in [Node -> Nat] /\ rcache'[Ev] = 0
  BY <1>3, <1>5, <1>6
<1>w. want' \in [Node -> Nat]
  <2>1. want \in [Node -> Nat] /\ o.left \in Nat
    BY <1>2 DEF Decided, TypeOK
  <2> QED BY <1>1, <2>1
<1>8. CASE o.do = "go"
  <2>1. o.ret \in {"ok", "error", "timeout"} /\ (n = Ev => st # "incoming")
    BY <1>2, <1>8 DEF Decided
  <2>2. Went(n, st, l, f, T)
    BY <1>1, <1>8, <2>1 DEF Went
  <2> QED BY <1>1, <1>4, <1>7, <1>w, <2>2
<1>9. CASE o.do = "wait"
  <2>1. /\ o.on \in SUBSET Event /\ (o.on = {} => action[n] \in Sleep) /\ (n = Ev => o.on = {"read"})
        /\ st # "timeout" /\ (st = "epoll" => action[n] \notin Persistent)
    BY <1>2, <1>9 DEF Decided
  <2>2. /\ reg' = [reg EXCEPT ![n] = o.on] /\ tree' = Armed(n, o.on, T)
        /\ links' = l /\ inq' = f
        /\ UNCHANGED <<pc, cur, action, ret, pend>>
    BY <1>1, <1>9
  <2>3. /\ tree' \in {T, T \cup {n}} /\ (o.on = {} => n \in tree') /\ (n = Ev => tree' = T)
    BY <1>3, <2>1, <2>2 DEF Armed, Sleep
  <2>4. Waited(n, st, l, f, T)
    BY <2>1, <2>2, <2>3 DEF Waited
  <2> QED BY <1>1, <1>4, <1>7, <1>w, <2>4
<1>10. CASE o.do = "again"
  <2>1. action[n] = "cint" /\ st # "timeout"
    BY <1>2, <1>10 DEF Decided
  <2>2. Reentered(n, st, l, f, T)
    BY <1>1, <1>10, <2>1 DEF Reentered
  <2> QED BY <1>1, <1>4, <1>7, <1>w, <2>2
<1> QED BY <1>2, <1>8, <1>9, <1>10 DEF Decided

-----------------------------------------------------------------------------
(***************************************************************************)
(* The invariant.  For one aio: where it may be, and what epoll may watch, *)
(* while it has an operation or none.                                      *)
(***************************************************************************)
Queued(n) == \E q \in Queue : n \in inq[q]
Asked(n) == n \in pend \/ action[n] \in Persistent

NodeInv(n) ==
    /\ action[n] = "none" => n \notin tree /\ ~Queued(n) /\ reg[n] = {} /\ n \notin vec /\ n \notin pend
    /\ action[n] # "none" => n \in alive
    /\ n \in tree => ~Queued(n)
    /\ Queued(n) \/ n \in tree \/ reg[n] # {} => Asked(n)
    /\ n \in pend => Queued(n) \/ n \in tree \/ reg[n] # {}
    /\ n \in inq["extern"] => reg[n] = {}
    /\ n \in inq["incoming"] /\ reg[n] # {} => stage = "epoll" \/ action[n] \in Persistent
    /\ Queued(n) /\ action[n] = "cint" => reg[n] = {}
    /\ n \in vec => /\ n \notin inq["extern"] /\ Asked(n)
                    /\ n \in inq["incoming"] => action[n] \in Persistent

(* An aio whose callback runs is out of the tree and of the queues, unless  *)
(* it was served by an event before the loop came to it in the queue.       *)
Served(n) ==
    /\ action[n] # "none" /\ n \notin tree /\ n \notin inq["tmp"] /\ n \notin inq["extern"]
    /\ reg[n] = {} \/ action[n] \in Persistent
    /\ n \in inq["incoming"] => action[n] \in Persistent

PhaseInv ==
    /\ pc = "tmp" => stage = "incoming"
    /\ pc \in {"timeout", "wait"} => stage = "timeout"
    /\ pc = "vec" => stage = "epoll"
    /\ stage # "epoll" \/ pc = "top" => vec = {}
    /\ inq["tmp"] # {} => stage = "incoming" /\ pc \in {"tmp", "cb", "call"}
    /\ pc \in {"cb", "call"} => cur \in Node /\ cur \notin vec
    /\ pc = "cb" => Served(cur)

(* What a callback has still to call.                                       *)
IssueInv ==
    \E op \in Ops(cur) : /\ script = <<CallIssue(cur, op)>> /\ Served(cur)
                         /\ \/ reg[cur] = {} \/ op = action[cur]
                            \/ stage = "epoll" /\ op # "cint"

NewIssueInv ==
    \E b \in Aios : \E op \in Ops(b) :
       script = <<CallIssue(b, op)>> /\ action[b] = "none" /\ b \in alive

CallInv ==
    pc = "call" =>
      /\ cur \in Aios
      /\ \/ script \in {<<>>, <<CallDisable(cur)>>, <<CallFree(cur)>>}
         \/ IssueInv
         \/ \E op \in Ops(cur) : script = <<CallDisable(cur), CallIssue(cur, op)>> /\ cur \in alive
         \/ NewIssueInv

(* The eventfd's aio is registered from the first turn of the loop on.      *)
EvInv ==
    /\ EvReadable
    /\ Ev \notin tree /\ Ev \notin inq["incoming"]
    /\ Ev \in inq["extern"] => pc \in {"top", "down"}
    /\ Queued(Ev) \/ reg[Ev] = {"read"}

TouchInv ==
    pc = "wait" /\ delay /\ (links.head["extern"] # None \/ stop_flag) => other = "touch" \/ eventfd

EngineInv ==
    /\ TypeOK /\ Queues(links, inq)
    /\ \A n \in Node : NodeInv(n)
    /\ PhaseInv /\ CallInv /\ EvInv /\ TouchInv

(* A step that leaves an aio alone.                                         *)
SameNode(m) ==
    /\ action'[m] = action[m] /\ reg'[m] = reg[m]
    /\ m \in tree' <=> m \in tree
    /\ \A q \in Queue : m \in inq'[q] <=> m \in inq[q]
    /\ m \in vec' <=> m \in vec
    /\ m \in pend' <=> m \in pend
    /\ m \in alive => m \in alive'

LEMMA QueueNames == "incoming" \in Queue /\ "extern" \in Queue /\ "tmp" \in Queue
  BY DEF Queue

LEMMA SameNodeKept ==
  ASSUME NEW m \in Node, SameNode(m), stage' = stage
  PROVE  /\ NodeInv(m) => NodeInv(m)'
         /\ Served(m) => Served(m)'
<1>1. Queued(m)' <=> Queued(m)
  BY DEF SameNode, Queued
<1>2. /\ m \in inq'["incoming"] <=> m \in inq["incoming"]
      /\ m \in inq'["extern"] <=> m \in inq["extern"]
      /\ m \in inq'["tmp"] <=> m \in inq["tmp"]
  BY QueueNames DEF SameNode
<1>3. Asked(m)' <=> Asked(m)
  BY DEF SameNode, Asked
<1>4. NodeInv(m) => NodeInv(m)'
  BY <1>1, <1>2, <1>3 DEF SameNode, NodeInv
<1>5. Served(m) => Served(m)'
  BY <1>2 DEF SameNode, Served
<1> QED BY <1>4, <1>5

(* A served aio is one that the loop may come across in its stage: in the   *)
(* tmp queue, in the tree, or among the events.                             *)
Servable(n) ==
    /\ action[n] # "none" /\ Asked(n)
    /\ n \notin inq["extern"]
    /\ n \in inq["incoming"] => stage = "epoll" /\ action[n] \in Persistent
    /\ stage = "incoming" /\ action[n] = "cint" => reg[n] = {}
    /\ stage # "incoming" => n \notin inq["tmp"]

(* _zaio_active keeps the invariant, in any of its three stages.            *)
LEMMA ServeKeeps ==
  ASSUME EngineInv, NEW n \in Node, Servable(n), NEW l, NEW f,
         f = [inq EXCEPT !["tmp"] = @ \ {n}], Queues(l, f),
         Serve(n, stage, l, f, tree \ {n}),
         pc \in {"tmp", "timeout", "vec"}, vec' = vec \ {n}
  PROVE  EngineInv' /\ Asked(n)
<1> DEFINE T == tree \ {n}
<1>t. TypeOK /\ EvReadable /\ stage \in Stage /\ Queues(links, inq) /\ PhaseInv /\ CallInv /\ EvInv
  BY DEF EngineInv, EvInv, TypeOK, Stage
<1>y. /\ inq \in [Queue -> SUBSET Node] /\ action \in [Node -> Action] /\ reg \in [Node -> SUBSET Event]
      /\ tree \subseteq Node /\ due \subseteq tree /\ vec \subseteq Node /\ pend \subseteq Node
      /\ Ev \in Node
  BY <1>t DEF TypeOK, Node
<1>n. \A m \in Node : NodeInv(m)
  BY DEF EngineInv
<1>0. action[n] # "none" /\ Asked(n)
  BY DEF Servable
<1>1. /\ due' = due \ {n}
      /\ rx' \in [Aios -> 0 .. MaxRx] /\ want' \in [Node -> Nat]
      /\ rcache' \in [Node -> Nat] /\ rcache'[Ev] = 0
      /\ UNCHANGED <<stage, script, delay, stop_flag, eventfd, other, alive>>
      /\ Went(n, stage, l, f, T) \/ Waited(n, stage, l, f, T) \/ Reentered(n, stage, l, f, T)
  BY <1>0, <1>t, ServeCases
<1>2. /\ \A q \in Queue : \A m \in Node : m # n => (m \in f[q] <=> m \in inq[q])
      /\ f \in [Queue -> SUBSET Node]
      /\ n \in f["incoming"] <=> n \in inq["incoming"]
      /\ n \in f["extern"] <=> n \in inq["extern"]
      /\ n \notin f["tmp"] /\ f["tmp"] \subseteq inq["tmp"]
      /\ \A q \in Queue : n \in f[q] => q = "incoming"
  BY <1>y, QueueNames DEF Queue, Servable
<1>v. vec' = vec \ {n} /\ n \notin T
  OBVIOUS
<1> HIDE DEF T
<1>T. T \subseteq Node /\ due \ {n} \subseteq T /\ n \notin T /\ \A m : m # n => (m \in T <=> m \in tree)
  BY <1>y DEF T
<1>e. n = Ev /\ stage = "epoll" => reg[Ev] = {"read"}
  <2> SUFFICES ASSUME n = Ev, stage = "epoll" PROVE reg[Ev] = {"read"}
    OBVIOUS
  <2>1. Ev \notin inq["extern"] /\ Ev \notin inq["tmp"] /\ Ev \notin inq["incoming"]
    BY <1>t DEF EvInv, Servable
  <2>2. ~Queued(Ev)
    BY <2>1 DEF Queued, Queue
  <2> QED BY <1>t, <2>2 DEF EvInv
<1>3. CASE Went(n, stage, l, f, T)
  <2>1. /\ pc' = "cb" /\ cur' = n /\ ret' \in {"ok", "error", "timeout"}
        /\ reg' = [reg EXCEPT ![n] = Kept(n)] /\ Kept(n) \in SUBSET Event
        /\ pend' = pend \ {n} /\ links' = l /\ inq' = f /\ tree' = T /\ action' = action
        /\ (n = Ev => stage # "incoming")
    BY <1>3, <1>y DEF Went, Kept
  <2>2. TypeOK'
    BY <1>1, <1>t, <1>v, <1>y, <1>T, <1>2, <2>1 DEF TypeOK, Queues
  <2>3. Queues(links, inq)'
    BY <2>1
  <2>4. \A m \in Node : m # n => SameNode(m)
    BY <1>1, <1>2, <1>T, <1>v, <1>y, <2>1 DEF SameNode
  <2>5. NodeInv(n)' /\ Served(n)'
    <3>1. /\ action'[n] = action[n] /\ action'[n] # "none" /\ n \notin tree' /\ n \notin vec' /\ n \notin pend'
          /\ n \notin inq'["extern"] /\ n \notin inq'["tmp"]
          /\ n \in inq'["incoming"] => action[n] \in Persistent
          /\ reg'[n] # {} => action[n] \in Persistent
          /\ n \in alive'
      BY <1>1, <1>2, <1>n, <1>v, <1>y, <2>1, <1>T DEF Servable, Kept, NodeInv
    <3>2. Queued(n)' => n \in inq'["incoming"]
      BY <1>2, <2>1 DEF Queued
    <3>3. Served(n)'
      BY <3>1 DEF Served
    <3>4. NodeInv(n)'
      BY <3>1, <3>2 DEF NodeInv, Asked, Persistent
    <3> QED BY <3>3, <3>4
  <2>6. \A m \in Node : NodeInv(m)'
    BY <1>1, <1>n, <2>4, <2>5, SameNodeKept
  <2>7. PhaseInv'
    BY <1>1, <1>2, <1>t, <1>v, <2>1, <2>5 DEF PhaseInv
  <2>8. CallInv' /\ TouchInv'
    BY <2>1 DEF CallInv, TouchInv
  <2>9. EvInv'
    <3>1. EvReadable'
      BY <1>1, <1>t, <2>1 DEF EvReadable
    <3>2. Ev \notin tree' /\ Ev \notin inq'["incoming"]
      BY <1>2, <1>T, <1>t, <1>y, <2>1, QueueNames DEF EvInv, Servable, EvReadable
    <3>3. Ev \notin inq'["extern"]
      BY <1>2, <1>t, <1>y, <2>1, QueueNames DEF EvInv, Servable
    <3>4. CASE n = Ev
      <4>1. reg[Ev] = {"read"}
        BY <1>e, <1>t, <2>1, <3>4 DEF EvInv, Stage, PhaseInv, Queued, Queue, Servable
      <4>2. reg'[Ev] = {"read"}
        BY <1>t, <1>y, <2>1, <3>4, <4>1 DEF Kept, EvReadable, Persistent
      <4> QED BY <3>1, <3>2, <3>3, <4>2 DEF EvInv
    <3>5. CASE n # Ev
      <4>1. Queued(Ev)' \/ reg'[Ev] = {"read"}
        BY <1>t, <1>y, <2>4, <3>5 DEF EvInv, SameNode, Queued
      <4> QED BY <3>1, <3>2, <3>3, <4>1 DEF EvInv
    <3> QED BY <3>4, <3>5
  <2> QED BY <1>0, <2>2, <2>3, <2>6, <2>7, <2>8, <2>9 DEF EngineInv
<1>4. CASE Waited(n, stage, l, f, T)
  <2>w. PICK W \in SUBSET Event : /\ reg' = [reg EXCEPT ![n] = W]
                                  /\ W = {} => action[n] \in Sleep /\ n \in tree'
                                  /\ n = Ev => W = {"read"}
    BY <1>4 DEF Waited
  <2>1. /\ stage # "timeout" /\ (stage = "epoll" => action[n] \notin Persistent)
        /\ tree' \in {T, T \cup {n}} /\ (n = Ev => tree' = T)
        /\ links' = l /\ inq' = f
        /\ UNCHANGED <<pc, cur, action, ret, pend>>
    BY <1>4 DEF Waited
  <2>i. n \notin inq["incoming"] /\ ~Queued(n)'
    <3>1. n \notin inq["incoming"]
      BY <1>t, <2>1 DEF Servable, Sleep, Persistent
    <3> QED BY <1>2, <2>1, <3>1 DEF Queued
  <2>2. TypeOK'
    <3>1. reg' \in [Node -> SUBSET Event] /\ tree' \subseteq Node /\ due' \subseteq tree'
      BY <1>1, <1>y, <1>T, <2>w, <2>1
    <3> QED BY <1>1, <1>t, <1>v, <1>y, <1>2, <2>1, <3>1 DEF TypeOK, Queues
  <2>3. Queues(links, inq)'
    BY <2>1
  <2>4. \A m \in Node : m # n => SameNode(m)
    BY <1>1, <1>2, <1>T, <1>v, <1>y, <2>1, <2>w DEF SameNode
  <2>5. NodeInv(n)'
    <3>1. /\ action'[n] = action[n] /\ action'[n] # "none" /\ n \notin vec'
          /\ n \in pend' <=> n \in pend
          /\ n \notin inq'["extern"] /\ n \notin inq'["incoming"]
          /\ n \in alive' /\ (n \in tree' \/ reg'[n] # {})
      BY <1>0, <1>1, <1>2, <1>n, <1>v, <1>y, <2>1, <2>w, <2>i DEF Servable, NodeInv
    <3>2. Asked(n)'
      BY <1>0, <2>1 DEF Asked
    <3> QED BY <2>i, <3>1, <3>2 DEF NodeInv
  <2>6. \A m \in Node : NodeInv(m)'
    BY <1>1, <1>n, <2>4, <2>5, SameNodeKept
  <2>7. PhaseInv'
    BY <1>1, <1>2, <1>t, <1>v, <2>1 DEF PhaseInv
  <2>8. CallInv' /\ TouchInv'
    BY <2>1 DEF CallInv, TouchInv
  <2>9. EvInv'
    <3>1. EvReadable'
      BY <1>1, <1>t, <2>1 DEF EvReadable
    <3>2. Ev \notin tree' /\ Ev \notin inq'["incoming"]
      BY <1>2, <1>T, <1>t, <1>y, <2>1, <2>i, QueueNames DEF EvInv
    <3>3. Ev \notin inq'["extern"]
      BY <1>2, <1>t, <1>y, <2>1, QueueNames DEF EvInv, Servable
    <3>4. Queued(Ev)' \/ reg'[Ev] = {"read"}
      <4>1. CASE n = Ev
        BY <1>y, <2>w, <4>1
      <4>2. CASE n # Ev
        BY <1>t, <1>y, <2>4, <4>2 DEF EvInv, SameNode, Queued
      <4> QED BY <4>1, <4>2
    <3> QED BY <3>1, <3>2, <3>3, <3>4 DEF EvInv
  <2> QED BY <1>0, <2>2, <2>3, <2>6, <2>7, <2>8, <2>9 DEF EngineInv
<1>5. CASE Reentered(n, stage, l, f, T)
  <2>1. /\ action[n] = "cint" /\ stage # "timeout"
        /\ action' = [action EXCEPT ![n] = "data"]
        /\ tree' = T
        /\ UNCHANGED <<pc, cur, reg, ret, pend>>
    BY <1>5 DEF Reentered
  <2>i. n \notin f["incoming"] /\ n # Ev /\ \A q \in Queue : n \notin f[q]
    BY <1>2, <1>t, <2>1 DEF Servable, Persistent, EvReadable
  <2>l. links' = Appended(l, "incoming", n) /\ inq' = [f EXCEPT !["incoming"] = @ \cup {n}]
    BY <1>5, <2>i DEF Reentered, Enter
  <2>3. Queues(links', inq')
    BY <2>i, <2>l, AppendedQueues, QueueNames
  <2>k. /\ \A q \in Queue : \A m \in Node : m # n => (m \in inq'[q] <=> m \in inq[q])
        /\ n \in inq'["incoming"] /\ n \notin inq'["extern"] /\ n \notin inq'["tmp"]
        /\ inq'["tmp"] \subseteq inq["tmp"]
    BY <1>2, <2>i, <2>l, QueueNames
  <2>2. TypeOK'
    <3>1. links' \in Links /\ inq' \in [Queue -> SUBSET Node]
      BY <2>3 DEF Queues
    <3>2. action' \in [Node -> Action]
      BY <1>y, <2>1 DEF Action
    <3> QED BY <1>1, <1>t, <1>T, <1>v, <1>y, <2>1, <3>1, <3>2 DEF TypeOK
  <2>4. \A m \in Node : m # n => SameNode(m)
    BY <1>1, <1>T, <1>v, <1>y, <2>1, <2>k DEF SameNode
  <2>5. NodeInv(n)'
    <3>1. /\ action'[n] = "data" /\ n \notin vec' /\ n \in pend' /\ n \notin tree' /\ n \in alive'
          /\ reg'[n] # {} => stage' = "epoll"
      <4>1. n \in pend
        BY <1>0, <2>1 DEF Asked, Persistent
      <4>2. reg[n] # {} => stage = "epoll"
        BY <1>t, <2>1 DEF Servable, Stage
      <4> QED BY <1>1, <1>n, <1>T, <1>v, <1>y, <2>1, <4>1, <4>2 DEF NodeInv
    <3>2. Queued(n)'
      BY <2>k, QueueNames DEF Queued
    <3> QED BY <2>k, <3>1, <3>2 DEF NodeInv, Asked
  <2>6. \A m \in Node : NodeInv(m)'
    BY <1>1, <1>n, <2>4, <2>5, SameNodeKept
  <2>7. PhaseInv'
    BY <1>1, <1>t, <1>v, <2>1, <2>k DEF PhaseInv
  <2>8. CallInv' /\ TouchInv'
    BY <2>1 DEF CallInv, TouchInv
  <2>9. EvInv'
    <3>1. EvReadable'
      BY <1>1, <1>t, <1>y, <2>1, <2>i DEF EvReadable
    <3>2. Ev \notin tree' /\ Ev \notin inq'["incoming"] /\ Ev \notin inq'["extern"]
      BY <1>T, <1>t, <1>y, <2>1, <2>i, <2>k, QueueNames DEF EvInv
    <3>3. Queued(Ev)' \/ reg'[Ev] = {"read"}
      BY <1>t, <1>y, <2>4, <2>i DEF EvInv, SameNode, Queued
    <3> QED BY <3>1, <3>2, <3>3 DEF EvInv
  <2> QED BY <1>0, <2>2, <2>3, <2>6, <2>7, <2>8, <2>9 DEF EngineInv
<1> QED BY <1>1, <1>3, <1>4, <1>5

-----------------------------------------------------------------------------
(* The steps of the loop, one lemma each.                                   *)

LEMMA ServeIncomingKeeps == EngineInv /\ ServeIncoming => EngineInv' /\ Asked(links.head["tmp"])
<1> SUFFICES ASSUME EngineInv, ServeIncoming PROVE EngineInv' /\ Asked(links.head["tmp"])
  OBVIOUS
<1> DEFINE n == links.head["tmp"]
           f == [inq EXCEPT !["tmp"] = @ \ {n}]
           l == Settled(Detached(links, "tmp", n), f)
<1>1. /\ pc = "tmp" /\ n # None /\ vec' = vec
      /\ Serve(n, "incoming", l, f, tree)
  BY DEF ServeIncoming
<1>2. Queues(links, inq) /\ PhaseInv /\ TypeOK
  BY DEF EngineInv
<1>3. n \in inq["tmp"]
  BY <1>1, <1>2, HeadOf, QueueNames
<1>4. n \in Node
  BY <1>2, <1>3, QueueNames DEF Queues
<1>5. Queues(Detached(links, "tmp", n), f)
  BY <1>2, <1>3, DetachedQueues, QueueNames
<1>6. Queues(l, f)
  BY <1>5, SettledQueues
<1> HIDE DEF l
<1>7. stage = "incoming" /\ vec = {}
  BY <1>1, <1>2 DEF PhaseInv
<1>8. Queued(n) /\ n \notin inq["incoming"] /\ n \notin inq["extern"]
  BY <1>2, <1>3, QueueNames DEF Queues, Apart, Queued
<1>9. NodeInv(n)
  BY <1>4 DEF EngineInv
<1>10. n \notin tree /\ Servable(n)
  BY <1>7, <1>8, <1>9 DEF NodeInv, Servable
<1>11. tree = tree \ {n} /\ vec' = vec \ {n}
  BY <1>1, <1>7, <1>10
<1>12. Serve(n, stage, l, f, tree \ {n})
  BY <1>1, <1>7, <1>11
<1> HIDE DEF n
<1> QED BY <1>1, <1>4, <1>6, <1>10, <1>11, <1>12, ServeKeeps DEF n

LEMMA ServeTimeoutKeeps ==
  ASSUME EngineInv, NEW n \in Node, ServeTimeout(n)
  PROVE  EngineInv' /\ Asked(n)
<1>1. /\ pc = "timeout" /\ n \in due /\ vec' = vec
      /\ Serve(n, "timeout", links, inq, tree \ {n})
  BY DEF ServeTimeout, OutOfTree
<1>2. Queues(links, inq) /\ PhaseInv /\ TypeOK /\ NodeInv(n)
  BY DEF EngineInv
<1>3. n \in tree /\ stage = "timeout" /\ vec = {}
  BY <1>1, <1>2 DEF TypeOK, PhaseInv
<1>4. ~Queued(n) /\ action[n] # "none" /\ Asked(n)
  BY <1>2, <1>3 DEF NodeInv
<1>5. n \notin inq["incoming"] /\ n \notin inq["extern"] /\ n \notin inq["tmp"]
  BY <1>4, QueueNames DEF Queued
<1>6. Servable(n)
  BY <1>3, <1>4, <1>5 DEF Servable
<1>7. inq = [inq EXCEPT !["tmp"] = @ \ {n}] /\ vec' = vec \ {n}
  BY <1>1, <1>2, <1>3, <1>5 DEF TypeOK
<1>8. Serve(n, stage, links, inq, tree \ {n})
  BY <1>1, <1>3
<1> QED BY <1>1, <1>2, <1>6, <1>7, <1>8, ServeKeeps

LEMMA ServeEventKeeps ==
  ASSUME EngineInv, NEW n \in Node, ServeEvent(n)
  PROVE  EngineInv' /\ Asked(n)
<1>1. /\ pc = "vec" /\ n \in vec /\ vec' = vec \ {n}
      /\ Serve(n, "epoll", links, inq, tree \ {n})
  BY DEF ServeEvent, OutOfTree
<1>2. Queues(links, inq) /\ PhaseInv /\ TypeOK /\ NodeInv(n)
  BY DEF EngineInv
<1>3. stage = "epoll" /\ inq["tmp"] = {}
  BY <1>1, <1>2 DEF PhaseInv
<1>4. Servable(n)
  BY <1>1, <1>2, <1>3 DEF NodeInv, Servable
<1>5. inq = [inq EXCEPT !["tmp"] = @ \ {n}]
  BY <1>2, <1>3 DEF TypeOK
<1>6. Serve(n, stage, links, inq, tree \ {n})
  BY <1>1, <1>3
<1> QED BY <1>1, <1>2, <1>4, <1>5, <1>6, ServeKeeps


LEMMA IncomingDoneKeeps == EngineInv /\ IncomingDone => EngineInv'
<1> SUFFICES ASSUME EngineInv, IncomingDone PROVE EngineInv'
  OBVIOUS
<1>1. /\ pc = "tmp" /\ links.head["tmp"] = None /\ pc' = "timeout" /\ stage' = "timeout"
      /\ UNCHANGED <<cur, ret, script, vec, delay, stop_flag, eventfd, other, links, inq, tree, due,
                     alive, action, reg, pend, want, rcache, rx>>
  BY DEF IncomingDone, baseVars, linkVars, timeVars, aioVars
<1>2. TypeOK /\ Queues(links, inq) /\ PhaseInv /\ EvInv /\ \A n \in Node : NodeInv(n)
  BY DEF EngineInv
<1>3. inq["tmp"] = {} /\ stage = "incoming" /\ vec = {}
  BY <1>1, <1>2, HeadOf, QueueNames DEF PhaseInv
<1>4. TypeOK' /\ Queues(links, inq)'
  BY <1>1, <1>2 DEF TypeOK
<1>5. \A n \in Node : NodeInv(n)'
  BY <1>1, <1>2, <1>3 DEF NodeInv, Queued, Asked
<1>6. PhaseInv' /\ CallInv' /\ TouchInv'
  BY <1>1, <1>3 DEF PhaseInv, CallInv, TouchInv
<1>7. EvInv'
  BY <1>1, <1>2 DEF EvInv, EvReadable, Queued
<1> QED BY <1>4, <1>5, <1>6, <1>7 DEF EngineInv

LEMMA TimeoutsDoneKeeps == EngineInv /\ TimeoutsDone => EngineInv'
<1> SUFFICES ASSUME EngineInv, TimeoutsDone PROVE EngineInv'
  OBVIOUS
<1>1. /\ pc = "timeout" /\ pc' = (IF stop_flag THEN "down" ELSE "wait") /\ delay' = Blocks
      /\ UNCHANGED <<stage, cur, ret, script, vec, stop_flag, eventfd, other, links, inq, tree, due,
                     alive, action, reg, pend, want, rcache, rx>>
  BY DEF TimeoutsDone, Stopping, baseVars, linkVars, timeVars, aioVars
<1>2. TypeOK /\ Queues(links, inq) /\ PhaseInv /\ EvInv /\ \A n \in Node : NodeInv(n)
  BY DEF EngineInv
<1>b. Blocks \in BOOLEAN /\ (Blocks => links.head["extern"] = None)
  BY DEF Blocks, Waiting
<1>4. TypeOK' /\ Queues(links, inq)'
  BY <1>1, <1>2, <1>b DEF TypeOK
<1>5. \A n \in Node : NodeInv(n)'
  BY <1>1, <1>2 DEF NodeInv, Queued, Asked
<1>6. PhaseInv'
  BY <1>1, <1>2 DEF PhaseInv
<1>7. CallInv' /\ TouchInv'
  BY <1>1, <1>b DEF CallInv, TouchInv
<1>8. EvInv'
  BY <1>1, <1>2 DEF EvInv, EvReadable, Queued
<1> QED BY <1>4, <1>5, <1>6, <1>7, <1>8 DEF EngineInv

LEMMA EpollWaitKeeps == EngineInv /\ EpollWait => EngineInv'
<1> SUFFICES ASSUME EngineInv, EpollWait PROVE EngineInv'
  OBVIOUS
<1>1. /\ pc = "wait" /\ pc' = "vec" /\ stage' = "epoll" /\ delay' = FALSE
      /\ UNCHANGED <<cur, ret, script, stop_flag, eventfd, other, links, inq, tree, due,
                     alive, action, reg, pend, want, rcache, rx>>
  BY DEF EpollWait, baseVars, linkVars, timeVars, aioVars
<1>2. TypeOK /\ Queues(links, inq) /\ PhaseInv /\ EvInv /\ \A n \in Node : NodeInv(n)
  BY DEF EngineInv
<1>3. \A n \in vec' : n \in Node /\ reg[n] # {}
  <2>1. PICK S \in SUBSET {n \in Aios : reg[n] # {}} : vec' = {n \in Node : HasEvent(n)} \cup S
    BY DEF EpollWait
  <2> QED BY <2>1 DEF HasEvent, Node
<1>4. TypeOK' /\ Queues(links, inq)'
  BY <1>1, <1>2, <1>3 DEF TypeOK
<1>5. ASSUME NEW n \in Node PROVE NodeInv(n)'
  <2>1. NodeInv(n) /\ stage = "timeout"
    BY <1>1, <1>2 DEF PhaseInv
  <2>2. (Queued(n)' <=> Queued(n)) /\ (Asked(n)' <=> Asked(n))
    BY <1>1 DEF Queued, Asked
  <2> QED BY <1>1, <1>3, <2>1, <2>2 DEF NodeInv
<1>6. PhaseInv'
  BY <1>1, <1>2 DEF PhaseInv
<1>7. CallInv' /\ TouchInv'
  BY <1>1 DEF CallInv, TouchInv
<1>8. EvInv'
  BY <1>1, <1>2 DEF EvInv, EvReadable, Queued
<1> QED BY <1>4, <1>5, <1>6, <1>7, <1>8 DEF EngineInv

LEMMA EventsDoneKeeps == EngineInv /\ EventsDone => EngineInv'
<1> SUFFICES ASSUME EngineInv, EventsDone PROVE EngineInv'
  OBVIOUS
<1>1. /\ pc = "vec" /\ pc' = "top" /\ vec' = {}
      /\ UNCHANGED <<stage, cur, ret, script, delay, stop_flag, eventfd, other, links, inq, tree, due,
                     alive, action, reg, pend, want, rcache, rx>>
  BY DEF EventsDone, baseVars, linkVars, timeVars, aioVars
<1>2. TypeOK /\ Queues(links, inq) /\ PhaseInv /\ EvInv /\ \A n \in Node : NodeInv(n)
  BY DEF EngineInv
<1>4. TypeOK' /\ Queues(links, inq)'
  BY <1>1, <1>2 DEF TypeOK
<1>5. \A n \in Node : NodeInv(n)'
  BY <1>1, <1>2 DEF NodeInv, Queued, Asked
<1>6. PhaseInv' /\ CallInv' /\ TouchInv'
  BY <1>1, <1>2 DEF PhaseInv, CallInv, TouchInv
<1>7. EvInv'
  BY <1>1, <1>2 DEF EvInv, EvReadable, Queued
<1> QED BY <1>4, <1>5, <1>6, <1>7 DEF EngineInv

LEMMA LoopTopKeeps == EngineInv /\ LoopTop => EngineInv'
<1> SUFFICES ASSUME EngineInv, LoopTop PROVE EngineInv'
  OBVIOUS
<1>1. /\ pc = "top"
      /\ UNCHANGED <<cur, ret, script, vec, delay, stop_flag, eventfd, other, tree, due,
                     alive, action, reg, pend, want, rcache, rx>>
  BY DEF LoopTop, baseVars, timeVars, aioVars
<1>2. TypeOK /\ Queues(links, inq) /\ PhaseInv /\ EvInv /\ \A n \in Node : NodeInv(n)
  BY DEF EngineInv
<1>3. vec = {} /\ inq["tmp"] = {}
  BY <1>1, <1>2 DEF PhaseInv
<1>4. CASE stop_flag
  <2>1. pc' = "down" /\ UNCHANGED <<stage, links, inq>>
    BY <1>4 DEF LoopTop, Stopping, linkVars
  <2>2. TypeOK' /\ Queues(links, inq)'
    BY <1>1, <1>2, <2>1 DEF TypeOK
  <2>3. \A n \in Node : NodeInv(n)'
    BY <1>1, <1>2, <2>1 DEF NodeInv, Queued, Asked
  <2>4. PhaseInv' /\ CallInv' /\ TouchInv'
    BY <1>1, <1>3, <2>1 DEF PhaseInv, CallInv, TouchInv
  <2>5. EvInv'
    BY <1>1, <1>2, <2>1 DEF EvInv, EvReadable, Queued
  <2> QED BY <2>2, <2>3, <2>4, <2>5 DEF EngineInv
<1>5. CASE ~stop_flag /\ Waiting
  <2> DEFINE g == [q \in Queue |-> IF q = "tmp" THEN inq["incoming"] \cup inq["extern"] ELSE {}]
             W == Walk(Taken(links), "tmp")
  <2>1. /\ pc' = "tmp" /\ stage' = "incoming" /\ links' = Taken(links)
        /\ inq' = [inq EXCEPT !["incoming"] = @ \ W, !["extern"] = @ \ W, !["tmp"] = @ \cup W]
    BY <1>5 DEF LoopTop, Stopping
  <2>2. Queues(Taken(links), g) /\ W = inq["incoming"] \cup inq["extern"]
    BY <1>2, <1>3, TakenQueues
  <2>3. inq \in [Queue -> SUBSET Node]
    BY <1>2 DEF TypeOK
  <2> HIDE DEF W
  <2>4. inq' = g
    BY <1>3, <2>1, <2>2, <2>3 DEF Queue
  <2>q. /\ inq'["incoming"] = {} /\ inq'["extern"] = {}
        /\ inq'["tmp"] = inq["incoming"] \cup inq["extern"]
    BY <2>4, QueueNames
  <2>w. \A n : Queued(n)' <=> Queued(n)
    BY <1>3, <2>q DEF Queued, Queue
  <2> HIDE DEF g
  <2>5. Queues(links, inq)'
    BY <2>1, <2>2, <2>4
  <2>6. TypeOK'
    BY <1>1, <1>2, <2>1, <2>5 DEF TypeOK, Queues
  <2>7. ASSUME NEW n \in Node PROVE NodeInv(n)'
    <3>1. NodeInv(n) /\ (Asked(n)' <=> Asked(n))
      BY <1>1, <1>2 DEF Asked
    <3> QED BY <1>1, <1>3, <2>q, <2>w, <3>1 DEF NodeInv
  <2>8. PhaseInv' /\ CallInv' /\ TouchInv'
    BY <1>1, <1>3, <2>1 DEF PhaseInv, CallInv, TouchInv
  <2>9. EvInv'
    BY <1>1, <1>2, <2>q, <2>w DEF EvInv, EvReadable
  <2> QED BY <2>5, <2>6, <2>7, <2>8, <2>9 DEF EngineInv
<1>6. CASE ~stop_flag /\ ~Waiting
  <2>1. pc' = "timeout" /\ stage' = "timeout" /\ UNCHANGED <<links, inq>>
    BY <1>6 DEF LoopTop, Stopping, linkVars
  <2>2. inq["incoming"] = {} /\ inq["extern"] = {}
    BY <1>2, <1>6, HeadOf, QueueNames DEF Waiting
  <2>3. TypeOK' /\ Queues(links, inq)'
    BY <1>1, <1>2, <2>1 DEF TypeOK
  <2>4. \A n \in Node : NodeInv(n)'
    BY <1>1, <1>2, <2>1, <2>2 DEF NodeInv, Queued, Asked
  <2>5. PhaseInv' /\ CallInv' /\ TouchInv'
    BY <1>1, <1>3, <2>1 DEF PhaseInv, CallInv, TouchInv
  <2>6. EvInv'
    BY <1>1, <1>2, <2>1, <2>2 DEF EvInv, EvReadable, Queued
  <2> QED BY <2>3, <2>4, <2>5, <2>6 DEF EngineInv
<1> QED BY <1>4, <1>5, <1>6

(* A callback returns into the loop that called it.                         *)
LEMMA BackInLoop ==
  ASSUME EngineInv, pc \in {"cb", "call"}, pc' = Caller, cur' = None, ret' \in {ret, None},
         eventfd' \in BOOLEAN,
         UNCHANGED <<stage, script, vec, delay, stop_flag, other, links, inq, tree, due,
                     alive, action, reg, pend, want, rcache, rx>>
  PROVE  EngineInv'
<1>2. TypeOK /\ Queues(links, inq) /\ PhaseInv /\ EvInv /\ \A n \in Node : NodeInv(n)
  BY DEF EngineInv
<1>3. /\ stage = "incoming" => pc' = "tmp"
      /\ stage = "timeout" => pc' = "timeout"
      /\ stage = "epoll" => pc' = "vec"
      /\ pc' \in {"tmp", "timeout", "vec"}
  BY <1>2 DEF Caller, TypeOK
<1>4. TypeOK' /\ Queues(links, inq)'
  BY <1>2, <1>3 DEF TypeOK
<1>5. \A n \in Node : NodeInv(n)'
  BY <1>2 DEF NodeInv, Queued, Asked
<1>6. PhaseInv'
  BY <1>2, <1>3 DEF PhaseInv, TypeOK
<1>7. CallInv' /\ TouchInv'
  BY <1>3 DEF CallInv, TouchInv
<1>8. EvInv'
  BY <1>2, <1>3 DEF EvInv, EvReadable, Queued
<1> QED BY <1>4, <1>5, <1>6, <1>7, <1>8 DEF EngineInv

LEMMA EventfdReadKeeps == EngineInv /\ EventfdRead => EngineInv'
  BY BackInLoop DEF EventfdRead, linkVars, timeVars, aioVars

LEMMA ReturnKeeps == EngineInv /\ Return => EngineInv'
<1>1. EngineInv => eventfd \in BOOLEAN
  BY DEF EngineInv, TypeOK
<1> QED BY <1>1, BackInLoop DEF Return, baseVars, linkVars, timeVars, aioVars

-----------------------------------------------------------------------------
(* The calls of a callback                                                  *)

LEMMA ScriptParts ==
  ASSUME NEW n, NEW op
  PROVE  /\ CallIssue(n, op).call = "issue" /\ CallIssue(n, op).aio = n /\ CallIssue(n, op).op = op
         /\ CallDisable(n).call = "disable" /\ CallDisable(n).aio = n
         /\ CallFree(n).call = "free" /\ CallFree(n).aio = n
         /\ \A c : Head(<<c>>) = c /\ Tail(<<c>>) = <<>> /\ DOMAIN <<c>> = {1} /\ <<c>>[1] = c
         /\ \A c, d : Head(<<c, d>>) = c /\ Tail(<<c, d>>) = <<d>>
<1>1. /\ CallIssue(n, op).call = "issue" /\ CallIssue(n, op).aio = n /\ CallIssue(n, op).op = op
      /\ CallDisable(n).call = "disable" /\ CallDisable(n).aio = n
      /\ CallFree(n).call = "free" /\ CallFree(n).aio = n
  BY DEF CallIssue, CallDisable, CallFree
<1>2. \A c : Head(<<c>>) = c /\ Tail(<<c>>) = <<>> /\ DOMAIN <<c>> = {1} /\ <<c>>[1] = c
  OBVIOUS
<1>3. \A c, d : Head(<<c, d>>) = c /\ Tail(<<c, d>>) = <<d>>
  OBVIOUS
<1> QED BY <1>1, <1>2, <1>3

(* The call that is next, with what is known of its aio.                    *)
LEMMA NextCall ==
  ASSUME CallInv, pc = "call", script # <<>>
  PROVE  LET n == Head(script).aio
             c == Head(script).call
         IN  \/ /\ c = "issue" /\ Tail(script) = <<>>
                /\ Head(script).op \in Ops(n)
                /\ \/ /\ n = cur /\ cur \in Aios /\ Served(n)
                      /\ \/ reg[n] = {} \/ Head(script).op = action[n]
                         \/ stage = "epoll" /\ Head(script).op # "cint"
                   \/ n \in Aios /\ action[n] = "none" /\ n \in alive
             \/ /\ c = "disable" /\ n = cur /\ cur \in Aios
                /\ \/ Tail(script) = <<>>
                   \/ \E op \in Ops(cur) : Tail(script) = <<CallIssue(cur, op)>> /\ cur \in alive
             \/ c = "free" /\ n = cur /\ cur \in Aios /\ Tail(script) = <<>>
<1>0. cur \in Aios
  BY DEF CallInv
<1>1. CASE script = <<CallDisable(cur)>>
  BY <1>0, <1>1, ScriptParts
<1>2. CASE script = <<CallFree(cur)>>
  BY <1>0, <1>2, ScriptParts
<1>3. CASE IssueInv
  <2>1. PICK op \in Ops(cur) : /\ script = <<CallIssue(cur, op)>> /\ Served(cur)
                               /\ \/ reg[cur] = {} \/ op = action[cur]
                                  \/ stage = "epoll" /\ op # "cint"
    BY <1>3 DEF IssueInv
  <2>2. Head(script).call = "issue" /\ Head(script).aio = cur /\ Head(script).op = op /\ Tail(script) = <<>>
    BY <2>1, ScriptParts
  <2> QED BY <1>0, <2>1, <2>2
<1>4. CASE \E op \in Ops(cur) : script = <<CallDisable(cur), CallIssue(cur, op)>> /\ cur \in alive
  <2>1. PICK op \in Ops(cur) : script = <<CallDisable(cur), CallIssue(cur, op)>> /\ cur \in alive
    BY <1>4
  <2>2. Head(script).call = "disable" /\ Head(script).aio = cur /\ Tail(script) = <<CallIssue(cur, op)>>
    BY <2>1, ScriptParts
  <2> QED BY <1>0, <2>1, <2>2
<1>5. CASE NewIssueInv
  <2>0. PICK b \in Aios : \E op \in Ops(b) :
           script = <<CallIssue(b, op)>> /\ action[b] = "none" /\ b \in alive
    BY <1>5 DEF NewIssueInv
  <2>1. PICK op \in Ops(b) : script = <<CallIssue(b, op)>> /\ action[b] = "none" /\ b \in alive
    BY <2>0
  <2>2. Head(script).call = "issue" /\ Head(script).aio = b /\ Head(script).op = op /\ Tail(script) = <<>>
    BY <2>1, ScriptParts
  <2> QED BY <2>1, <2>2
<1> QED BY <1>1, <1>2, <1>3, <1>4, <1>5 DEF CallInv

(* What an operation asks for is a number of units.                         *)
LEMMA WantingTyped ==
  ASSUME NEW a \in Aios, NEW op, NEW w \in Wanting(a, op)
  PROVE  w \in Nat
  BY AioAssumption DEF Wanting

LEMMA IssueKeeps == EngineInv /\ Issue => EngineInv'
<1> SUFFICES ASSUME EngineInv, Issue PROVE EngineInv'
  OBVIOUS
<1>n. PICK n : n = Head(script).aio
  OBVIOUS
<1>o. PICK op : op = Head(script).op
  OBVIOUS
<1>1. /\ pc = "call" /\ script # <<>> /\ Head(script).call = "issue" /\ script' = Tail(script)
      /\ action' = [action EXCEPT ![n] = op] /\ pend' = pend \cup {n} /\ Enter(n, links, inq)
      /\ \E w \in Wanting(n, op) : want' = [want EXCEPT ![n] = w]
      /\ UNCHANGED <<pc, stage, cur, ret, vec, delay, stop_flag, eventfd, other, tree, due, alive,
                     reg, rcache, rx>>
  BY <1>n, <1>o DEF Issue, Calling, baseVars, timeVars
<1>2. TypeOK /\ Queues(links, inq) /\ PhaseInv /\ CallInv /\ EvInv /\ \A m \in Node : NodeInv(m)
  BY DEF EngineInv
<1>3. /\ script' = <<>> /\ op \in Ops(n) /\ n \in Aios
      /\ \/ /\ n = cur /\ Served(n)
            /\ reg[n] = {} \/ op = action[n] \/ (stage = "epoll" /\ op # "cint")
         \/ action[n] = "none" /\ n \in alive
  BY <1>1, <1>2, <1>n, <1>o, NextCall
<1>4. n \in Node /\ NodeInv(n) /\ n # Ev /\ op \in Action /\ op # "none"
  BY <1>2, <1>3, AioAssumption, ClientAssumption DEF Node
<1>5. /\ n \notin tree /\ n \notin vec /\ n \notin inq["tmp"] /\ n \notin inq["extern"] /\ n \in alive
      /\ reg[n] # {} => stage = "epoll" \/ op \in Persistent
      /\ op = "cint" => reg[n] = {}
  <2>1. CASE n = cur /\ Served(n) /\ (reg[n] = {} \/ op = action[n] \/ (stage = "epoll" /\ op # "cint"))
    BY <1>1, <1>2, <1>4, <2>1 DEF Served, PhaseInv, NodeInv, Persistent
  <2>2. CASE action[n] = "none" /\ n \in alive
    BY <1>4, <2>2, QueueNames DEF NodeInv, Queued
  <2> QED BY <1>3, <2>1, <2>2
<1>6. inq' = [inq EXCEPT !["incoming"] = @ \cup {n}]
  BY <1>1 DEF Enter
<1>7. Queues(links', inq')
  <2>1. CASE n \in inq["incoming"]
    <3>1. links' = links /\ inq' = inq
      BY <1>1, <1>2, <1>6, <2>1, QueueNames DEF Enter, TypeOK
    <3> QED BY <1>2, <3>1
  <2>2. CASE n \notin inq["incoming"]
    <3>1. links' = Appended(links, "incoming", n)
      BY <1>1, <2>2 DEF Enter
    <3>2. \A q \in Queue : n \notin inq[q]
      BY <1>5, <2>2 DEF Queue
    <3> QED BY <1>2, <1>4, <1>6, <3>1, <3>2, AppendedQueues, QueueNames
  <2> QED BY <2>1, <2>2
<1>8. TypeOK'
  <2>1. action' \in [Node -> Action] /\ pend' \subseteq Node
    BY <1>1, <1>2, <1>4 DEF TypeOK
  <2>2. want' \in [Node -> Nat]
    BY <1>1, <1>2, <1>3, WantingTyped DEF TypeOK
  <2> QED BY <1>1, <1>2, <1>7, <2>1, <2>2 DEF TypeOK, Queues
<1>9. /\ \A q \in Queue : \A m : m # n => (m \in inq'[q] <=> m \in inq[q])
      /\ n \in inq'["incoming"] /\ n \notin inq'["extern"] /\ n \notin inq'["tmp"]
      /\ inq'["tmp"] = inq["tmp"]
  BY <1>2, <1>5, <1>6, QueueNames DEF TypeOK
<1>10. \A m \in Node : m # n => SameNode(m)
  BY <1>1, <1>2, <1>9 DEF SameNode, TypeOK
<1>11. NodeInv(n)'
  <2>1. /\ action'[n] = op /\ n \in pend' /\ n \in alive' /\ n \notin tree' /\ n \notin vec'
        /\ reg' = reg /\ stage' = stage
    BY <1>1, <1>2, <1>4, <1>5 DEF TypeOK
  <2>2. Queued(n)' /\ Asked(n)'
    BY <1>9, <2>1, QueueNames DEF Queued, Asked
  <2> QED BY <1>4, <1>5, <1>9, <2>1, <2>2 DEF NodeInv
<1>12. \A m \in Node : NodeInv(m)'
  BY <1>1, <1>2, <1>10, <1>11, SameNodeKept
<1>13. PhaseInv'
  BY <1>1, <1>2, <1>9 DEF PhaseInv
<1>14. CallInv' /\ TouchInv'
  <2>1. cur \in Aios
    BY <1>1, <1>2 DEF CallInv
  <2> QED BY <1>1, <1>3, <2>1 DEF CallInv, TouchInv
<1>15. EvInv'
  <2>1. Ev \in Node
    BY DEF Node
  <2>2. EvReadable' /\ Ev \notin tree'
    BY <1>1, <1>2, <1>4, <2>1 DEF EvInv, EvReadable, TypeOK
  <2>3. Ev \notin inq'["incoming"] /\ Ev \notin inq'["extern"]
    BY <1>1, <1>2, <1>4, <1>9, QueueNames DEF EvInv
  <2>4. Queued(Ev)' \/ reg'[Ev] = {"read"}
    BY <1>2, <1>4, <1>10, <2>1 DEF EvInv, SameNode, Queued
  <2> QED BY <2>2, <2>3, <2>4 DEF EvInv
<1> QED BY <1>7, <1>8, <1>12, <1>13, <1>14, <1>15 DEF EngineInv

(* zaio_disable, alone or as the first part of zaio_free: the aio is in no  *)
(* queue, not in the tree and not in epoll, and so may be freed.            *)
LEMMA DisabledKeeps ==
  ASSUME EngineInv, pc = "call", cur \in Aios, Disabled(cur),
         alive' \subseteq Node, alive \ {cur} \subseteq alive',
         rcache' \in [Node -> Nat], rcache'[Ev] = rcache[Ev], rx' \in [Aios -> 0 .. MaxRx],
         UNCHANGED <<pc, stage, cur, ret, vec, delay, stop_flag, eventfd, other>>,
         \/ script' = <<>>
         \/ \E op \in Ops(cur) : script' = <<CallIssue(cur, op)>> /\ cur \in alive'
  PROVE  EngineInv'
<1> DEFINE f == [q \in Queue |-> inq[q] \ {cur}]
<1>1. /\ tree' = tree \ {cur} /\ due' = due \ {cur} /\ inq' = f
      /\ links' = Settled(Left(links, inq, cur), inq')
      /\ action' = [action EXCEPT ![cur] = "none"] /\ reg' = [reg EXCEPT ![cur] = {}]
      /\ pend' = pend \ {cur} /\ want' = [want EXCEPT ![cur] = 0]
  BY DEF Disabled, OutOfTree
<1>2. TypeOK /\ Queues(links, inq) /\ PhaseInv /\ CallInv /\ EvInv /\ \A m \in Node : NodeInv(m)
  BY DEF EngineInv
<1>3. cur \in Node /\ cur # Ev /\ Ev \in Node /\ cur \notin vec
  BY <1>2, AioAssumption DEF Node, PhaseInv
<1>4. Queues(Left(links, inq, cur), f)
  BY <1>2, <1>3, LeftQueues
<1>5. Queues(links', inq')
  <2> HIDE DEF f
  <2>1. Queues(Settled(Left(links, inq, cur), f), f)
    BY <1>4, SettledQueues
  <2> QED BY <1>1, <2>1
<1>6. TypeOK'
  <2>1. /\ action' \in [Node -> Action] /\ reg' \in [Node -> SUBSET Event] /\ pend' \subseteq Node
        /\ tree' \subseteq Node /\ due' \subseteq tree' /\ want' \in [Node -> Nat]
    BY <1>1, <1>2 DEF TypeOK, Action
  <2> QED BY <1>2, <1>5, <2>1 DEF TypeOK, Queues
<1>7. /\ \A q \in Queue : \A m : m # cur => (m \in inq'[q] <=> m \in inq[q])
      /\ \A q \in Queue : cur \notin inq'[q]
      /\ inq'["tmp"] \subseteq inq["tmp"]
  BY <1>1, QueueNames
<1>8. \A m \in Node : m # cur => SameNode(m)
  BY <1>1, <1>2, <1>7 DEF SameNode, TypeOK
<1>9. NodeInv(cur)'
  <2>1. /\ action'[cur] = "none" /\ reg'[cur] = {} /\ cur \notin pend' /\ cur \notin tree' /\ cur \notin vec'
        /\ cur' = cur
    BY <1>1, <1>2, <1>3 DEF TypeOK
  <2>2. ~(\E q \in Queue : cur \in inq'[q]) /\ cur \notin inq'["extern"] /\ cur \notin inq'["incoming"]
    BY <1>7, QueueNames
  <2> QED BY <2>1, <2>2 DEF NodeInv, Queued, Asked
<1>10. ASSUME NEW m \in Node PROVE NodeInv(m)'
  <2>1. CASE m = cur
    <3>1. cur' = cur /\ NodeInv(cur)'
      BY <1>9
    <3> QED BY <2>1, <3>1 DEF NodeInv, Queued, Asked
  <2>2. CASE m # cur
    BY <1>2, <1>8, <2>2, SameNodeKept
  <2> QED BY <2>1, <2>2
<1>11. PhaseInv'
  BY <1>2, <1>3, <1>7 DEF PhaseInv
<1>12. CallInv'
  <2>1. CASE script' = <<>>
    BY <2>1 DEF CallInv
  <2>2. CASE \E op \in Ops(cur) : script' = <<CallIssue(cur, op)>> /\ cur \in alive'
    <3>1. action'[cur] = "none"
      BY <1>1, <1>2, <1>3 DEF TypeOK
    <3>2. NewIssueInv'
      BY <2>2, <3>1 DEF NewIssueInv
    <3> QED BY <3>2 DEF CallInv
  <2> QED BY <2>1, <2>2
<1>13. TouchInv'
  BY DEF TouchInv
<1>14. EvInv'
  <2>2. EvReadable' /\ Ev \notin tree'
    BY <1>1, <1>2, <1>3 DEF EvInv, EvReadable, TypeOK
  <2>3. Ev \notin inq'["incoming"] /\ Ev \notin inq'["extern"]
    BY <1>2, <1>3, <1>7, QueueNames DEF EvInv
  <2>4. Queued(Ev)' \/ reg'[Ev] = {"read"}
    BY <1>2, <1>3, <1>8 DEF EvInv, SameNode, Queued
  <2> QED BY <2>2, <2>3, <2>4 DEF EvInv
<1> QED BY <1>5, <1>6, <1>10, <1>11, <1>12, <1>13, <1>14 DEF EngineInv

LEMMA DisableKeeps == EngineInv /\ Disable => EngineInv'
<1> SUFFICES ASSUME EngineInv, Disable PROVE EngineInv'
  OBVIOUS
<1>1. /\ pc = "call" /\ script # <<>> /\ Head(script).call = "disable" /\ script' = Tail(script)
      /\ Disabled(Head(script).aio)
      /\ UNCHANGED <<pc, stage, cur, ret, vec, delay, stop_flag, eventfd, other, alive, rcache, rx>>
  BY DEF Disable, Calling, baseVars
<1>2. TypeOK /\ CallInv
  BY DEF EngineInv
<1>3. /\ Head(script).aio = cur /\ cur \in Aios
      /\ \/ script' = <<>>
         \/ \E op \in Ops(cur) : script' = <<CallIssue(cur, op)>> /\ cur \in alive'
  BY <1>1, <1>2, NextCall
<1>4. /\ alive' \subseteq Node /\ alive \ {cur} \subseteq alive' /\ rcache' \in [Node -> Nat]
      /\ rx' \in [Aios -> 0 .. MaxRx]
  BY <1>1, <1>2 DEF TypeOK
<1> QED BY <1>1, <1>3, <1>4, DisabledKeeps

LEMMA FreeKeeps == EngineInv /\ Free => EngineInv'
<1> SUFFICES ASSUME EngineInv, Free PROVE EngineInv'
  OBVIOUS
<1> DEFINE n == Head(script).aio
<1>1. /\ pc = "call" /\ script # <<>> /\ Head(script).call = "free" /\ script' = Tail(script)
      /\ Disabled(n) /\ alive' = alive \ {n} /\ rcache' = [rcache EXCEPT ![n] = 0]
      /\ rx' = [rx EXCEPT ![n] = 0]
      /\ UNCHANGED <<pc, stage, cur, ret, vec, delay, stop_flag, eventfd, other>>
  BY DEF Free, Calling, baseVars
<1>2. TypeOK /\ CallInv
  BY DEF EngineInv
<1>3. n = cur /\ cur \in Aios /\ script' = <<>>
  BY <1>1, <1>2, NextCall
<1> HIDE DEF n
<1>4. Ev # cur /\ Ev \in Node /\ cur \in Node
  BY <1>3, AioAssumption DEF Node
<1>5. /\ alive' \subseteq Node /\ alive \ {cur} \subseteq alive'
      /\ rcache' \in [Node -> Nat] /\ rcache'[Ev] = rcache[Ev]
  BY <1>1, <1>2, <1>3, <1>4 DEF TypeOK
<1>6. rx' \in [Aios -> 0 .. MaxRx]
  <2>1. rx \in [Aios -> 0 .. MaxRx] /\ 0 \in 0 .. MaxRx
    BY <1>2, AioAssumption DEF TypeOK
  <2> QED BY <1>1, <2>1
<1> QED BY <1>1, <1>3, <1>5, <1>6, DisabledKeeps

LEMMA CallbackKeeps ==
  ASSUME Careful, EngineInv, NEW a \in Aios, Callback(a)
  PROVE  EngineInv'
<1>1. /\ pc = "cb" /\ cur = a /\ pc' = "call"
      /\ rcache' = [rcache EXCEPT ![a] = IF ret = "ok" THEN Untaken(a) ELSE rcache[a]]
      /\ want' = [want EXCEPT ![a] = 0] /\ ret' = None
      /\ rx' = IF ret = "ok" /\ action[a] = "readable" /\ rcache[a] = 0 THEN [rx EXCEPT ![a] = 0] ELSE rx
      /\ UNCHANGED <<stage, cur, vec, delay, stop_flag, eventfd, other, links, inq, tree, due,
                     alive, action, reg, pend>>
  BY DEF Callback, baseVars, linkVars, timeVars
<1>2. TypeOK /\ Queues(links, inq) /\ PhaseInv /\ EvInv /\ \A m \in Node : NodeInv(m)
  BY DEF EngineInv
<1>3. a \in Node /\ a # Ev /\ Ev \in Node /\ Served(a) /\ a \in alive
  BY <1>1, <1>2, AioAssumption DEF Node, PhaseInv, NodeInv, Served
<1>4. TypeOK'
  <2>1. rcache[a] \in Nat /\ rcache \in [Node -> Nat] /\ rx \in [Aios -> 0 .. MaxRx] /\ MaxRx \in Nat
    BY <1>2, <1>3, AioAssumption DEF TypeOK
  <2>2. (IF ret = "ok" THEN Untaken(a) ELSE rcache[a]) \in Nat
    <3>1. want[a] \in Nat
      BY <1>2, <1>3 DEF TypeOK
    <3>2. Untaken(a) \in Nat
      BY <2>1, <3>1 DEF Untaken
    <3> QED BY <2>1, <3>2
  <2>w. want' \in [Node -> Nat]
    BY <1>1, <1>2 DEF TypeOK
  <2>3. rcache' \in [Node -> Nat]
    BY <1>1, <2>1, <2>2
  <2>4. [rx EXCEPT ![a] = 0] \in [Aios -> 0 .. MaxRx]
    BY <2>1
  <2>5. rx' \in [Aios -> 0 .. MaxRx]
    BY <1>1, <2>1, <2>4
  <2> QED BY <1>1, <1>2, <2>3, <2>5, <2>w DEF TypeOK
<1>5. Queues(links, inq)'
  BY <1>1, <1>2
<1>6. \A m \in Node : NodeInv(m)'
  BY <1>1, <1>2 DEF NodeInv, Queued, Asked
<1>7. PhaseInv'
  BY <1>1, <1>2 DEF PhaseInv
<1>8. CallInv'
  <2>0. PICK s \in Scripts(a) : script' = s
    BY DEF Callback
  <2>1. CASE s \in {<<>>, <<CallDisable(a)>>, <<CallFree(a)>>}
    BY <1>1, <2>0, <2>1 DEF CallInv
  <2>2. CASE \E op \in MayIssue(a) : s = <<CallIssue(a, op)>>
    <3>1. PICK op \in MayIssue(a) : s = <<CallIssue(a, op)>>
      BY <2>2
    <3>2. op \in Ops(a) /\ (reg[a] = {} \/ op = action[a] \/ (stage = "epoll" /\ op # "cint"))
      BY <3>1 DEF MayIssue, Overtaken
    <3>3. Served(cur)'
      BY <1>1, <1>3 DEF Served
    <3>4. IssueInv'
      BY <1>1, <2>0, <3>1, <3>2, <3>3 DEF IssueInv
    <3> QED BY <1>1, <3>4 DEF CallInv
  <2>3. CASE \E op \in Ops(a) : s = <<CallDisable(a), CallIssue(a, op)>>
    BY <1>1, <1>3, <2>0, <2>3 DEF CallInv
  <2>4. CASE \E b \in {c \in alive : ~InContext(c)} : \E op \in Ops(b) : s = <<CallIssue(b, op)>>
    <3>1. PICK b \in {c \in alive : ~InContext(c)} : \E op \in Ops(b) : s = <<CallIssue(b, op)>>
      BY <2>4
    <3>2. b \in alive /\ action[b] = "none" /\ b \in Node
      BY <1>2, <3>1 DEF InContext, TypeOK
    <3>3. b \in Aios
      BY <1>2, <3>2 DEF Node, EvInv, EvReadable
    <3>4. NewIssueInv'
      BY <1>1, <2>0, <3>1, <3>2, <3>3 DEF NewIssueInv
    <3> QED BY <1>1, <3>4 DEF CallInv
  <2> QED BY <2>0, <2>1, <2>2, <2>3, <2>4 DEF Scripts
<1>9. TouchInv'
  BY <1>1 DEF TouchInv
<1>10. EvInv'
  BY <1>1, <1>2, <1>3 DEF EvInv, EvReadable, Queued, TypeOK
<1> QED BY <1>4, <1>5, <1>6, <1>7, <1>8, <1>9, <1>10 DEF EngineInv

-----------------------------------------------------------------------------
(* The peers, the clock and the other thread                                *)

(* A step of theirs that leaves the queues and the aios' operations alone.  *)
LEMMA AsideKeeps ==
  ASSUME EngineInv, TypeOK', alive \subseteq alive',
         UNCHANGED <<pc, stage, cur, script, vec, delay, links, inq, tree, action, reg, pend, rcache>>,
         (stop_flag' = stop_flag /\ (other = "touch" \/ eventfd => other' = "touch" \/ eventfd')) \/ other' = "touch"
  PROVE  EngineInv'
<1>2. TypeOK /\ Queues(links, inq) /\ PhaseInv /\ CallInv /\ EvInv /\ TouchInv /\ \A m \in Node : NodeInv(m)
  BY DEF EngineInv
<1>3. Queues(links, inq)'
  BY <1>2
<1>4. \A m \in Node : NodeInv(m)'
  BY <1>2 DEF NodeInv, Queued, Asked
<1>5. PhaseInv'
  BY <1>2 DEF PhaseInv, Served
<1>6. CallInv'
  <2>1. (IssueInv => IssueInv') /\ (NewIssueInv => NewIssueInv')
    BY DEF IssueInv, NewIssueInv, Served
  <2> QED BY <1>2, <2>1 DEF CallInv
<1>7. EvInv'
  BY <1>2 DEF EvInv, EvReadable, Queued
<1>8. TouchInv'
  BY <1>2 DEF TouchInv
<1> QED BY <1>3, <1>4, <1>5, <1>6, <1>7, <1>8 DEF EngineInv

LEMMA OutsideKeeps ==
  ASSUME EngineInv,
         \/ Environment \/ OtherStop \/ OtherTouch
         \/ \E a \in Aios : Create(a)
         \/ UNCHANGED vars
  PROVE  EngineInv'
<1>t. TypeOK
  BY DEF EngineInv
<1>1. ASSUME NEW a \in Aios, Arrive(a) PROVE EngineInv'
  <2>1. rx' \in [Aios -> 0 .. MaxRx]
    <3>1. rx \in [Aios -> 0 .. MaxRx] /\ rx[a] < MaxRx /\ MaxRx \in Nat /\ rx' = [rx EXCEPT ![a] = rx[a] + 1]
      BY <1>1, <1>t, AioAssumption DEF TypeOK, Arrive
    <3>2. rx[a] + 1 \in 0 .. MaxRx
      BY <3>1
    <3> QED BY <3>1, <3>2
  <2>2. UNCHANGED <<pc, stage, cur, ret, script, vec, delay, stop_flag, eventfd, other, links, inq,
                    tree, due, alive, action, reg, pend, want, rcache>>
    BY <1>1 DEF Arrive, loopVars, baseVars, linkVars, timeVars, aioVars
  <2>3. TypeOK'
    BY <1>t, <2>1, <2>2 DEF TypeOK
  <2> QED BY <2>2, <2>3, AsideKeeps
<1>2. ASSUME NEW a \in Aios, Expire(a) PROVE EngineInv'
  <2>2. /\ due' = due \cup {a} /\ a \in tree
        /\ UNCHANGED <<pc, stage, cur, ret, script, vec, delay, stop_flag, eventfd, other, links, inq,
                       tree, alive, action, reg, pend, want, rcache, rx>>
    BY <1>2 DEF Expire, loopVars, baseVars, linkVars, aioVars
  <2>3. TypeOK'
    BY <1>t, <2>2 DEF TypeOK
  <2> QED BY <2>2, <2>3, AsideKeeps
<1>3. CASE OtherStop
  <2>2. /\ stop_flag' = TRUE /\ other' = "touch"
        /\ UNCHANGED <<pc, stage, cur, ret, script, vec, delay, eventfd, links, inq,
                       tree, due, alive, action, reg, pend, want, rcache, rx>>
    BY <1>3 DEF OtherStop, ThenTouch, loopVars, linkVars, timeVars, aioVars
  <2>3. TypeOK'
    BY <1>t, <2>2 DEF TypeOK
  <2> QED BY <2>2, <2>3, AsideKeeps
<1>4. CASE OtherTouch
  <2>2. /\ eventfd' = TRUE /\ other' = "run"
        /\ UNCHANGED <<pc, stage, cur, ret, script, vec, delay, stop_flag, links, inq,
                       tree, due, alive, action, reg, pend, want, rcache, rx>>
    BY <1>4 DEF OtherTouch, loopVars, linkVars, timeVars, aioVars
  <2>3. TypeOK'
    BY <1>t, <2>2 DEF TypeOK
  <2> QED BY <2>2, <2>3, AsideKeeps
<1>5. ASSUME NEW a \in Aios, Create(a) PROVE EngineInv'
  <2>2. /\ alive' = alive \cup {a} /\ a \in Node
        /\ UNCHANGED <<pc, stage, cur, ret, script, vec, delay, stop_flag, eventfd, other, links, inq,
                       tree, due, action, reg, pend, want, rcache, rx>>
    BY <1>5 DEF Create, loopVars, baseVars, linkVars, timeVars, Node
  <2>3. TypeOK'
    BY <1>t, <2>2 DEF TypeOK
  <2> QED BY <2>2, <2>3, AsideKeeps
<1>6. CASE UNCHANGED vars
  <2>2. UNCHANGED <<pc, stage, cur, ret, script, vec, delay, stop_flag, eventfd, other, links, inq,
                    tree, due, alive, action, reg, pend, want, rcache, rx>>
    BY <1>6 DEF vars, loopVars, baseVars, linkVars, timeVars, aioVars
  <2>3. TypeOK'
    BY <1>t, <2>2 DEF TypeOK
  <2> QED BY <2>2, <2>3, AsideKeeps
<1> QED BY <1>1, <1>2, <1>3, <1>4, <1>5, <1>6 DEF Environment

(* Another thread hands over an aio that is in no context, and that no      *)
(* callback is about to operate.                                            *)
LEMMA OtherIssueKeeps ==
  ASSUME EngineInv, NEW a \in Aios, NEW op \in Ops(a), Unclaimed(a), OtherIssue(a, op)
  PROVE  EngineInv'
<1>1. /\ a \in alive /\ action[a] = "none"
      /\ action' = [action EXCEPT ![a] = op] /\ pend' = pend \cup {a}
      /\ links' = Appended(links, "extern", a)
      /\ inq' = [inq EXCEPT !["extern"] = @ \cup {a}]
      /\ other' = "touch"
      /\ \E w \in Wanting(a, op) : want' = [want EXCEPT ![a] = w]
      /\ UNCHANGED <<pc, stage, cur, ret, script, vec, delay, stop_flag, eventfd, tree, due, alive,
                     reg, rcache, rx>>
  BY DEF OtherIssue, InContext, ThenTouch, loopVars, timeVars
<1>2. TypeOK /\ Queues(links, inq) /\ PhaseInv /\ CallInv /\ EvInv /\ \A m \in Node : NodeInv(m)
  BY DEF EngineInv
<1>3. a \in Node /\ NodeInv(a) /\ a # Ev /\ Ev \in Node /\ op \in Action /\ op # "none"
  BY <1>2, AioAssumption, ClientAssumption DEF Node
<1>4. /\ a \notin tree /\ reg[a] = {} /\ a \notin vec /\ \A q \in Queue : a \notin inq[q]
  BY <1>1, <1>3 DEF NodeInv, Queued
<1>5. Queues(links', inq')
  BY <1>1, <1>2, <1>3, <1>4, AppendedQueues, QueueNames
<1>6. TypeOK'
  <2>1. action' \in [Node -> Action] /\ pend' \subseteq Node
    BY <1>1, <1>2, <1>3 DEF TypeOK
  <2>2. want' \in [Node -> Nat]
    BY <1>1, <1>2, WantingTyped DEF TypeOK
  <2> QED BY <1>1, <1>2, <1>5, <2>1, <2>2 DEF TypeOK, Queues
<1>7. /\ \A q \in Queue : \A m : m # a => (m \in inq'[q] <=> m \in inq[q])
      /\ a \in inq'["extern"] /\ a \notin inq'["incoming"] /\ a \notin inq'["tmp"]
      /\ inq'["tmp"] = inq["tmp"]
  BY <1>1, <1>2, <1>4, QueueNames DEF TypeOK
<1>8. \A m \in Node : m # a => SameNode(m)
  BY <1>1, <1>2, <1>7 DEF SameNode, TypeOK
<1>9. NodeInv(a)'
  <2>1. /\ action'[a] = op /\ a \in pend' /\ a \in alive' /\ a \notin tree' /\ a \notin vec' /\ reg'[a] = {}
    BY <1>1, <1>2, <1>3, <1>4 DEF TypeOK
  <2>2. Queued(a)' /\ Asked(a)'
    BY <1>7, <2>1, QueueNames DEF Queued, Asked
  <2> QED BY <1>3, <1>7, <2>1, <2>2 DEF NodeInv
<1>10. \A m \in Node : NodeInv(m)'
  BY <1>1, <1>2, <1>8, <1>9, SameNodeKept
<1>s. ASSUME cur \in Node, Served(cur) PROVE Served(cur)' /\ action'[cur] = action[cur]
  <2>1. cur # a /\ cur' = cur
    BY <1>1, <1>s DEF Served
  <2>2. SameNode(cur)
    BY <1>8, <1>s, <2>1
  <2>3. Served(cur)'
    BY <1>1, <1>7, <1>s, <2>1, <2>2, QueueNames DEF Served, SameNode
  <2> QED BY <2>2, <2>3 DEF SameNode
<1>11. PhaseInv'
  BY <1>1, <1>2, <1>7, <1>s DEF PhaseInv
<1>12. CallInv'
  <2> SUFFICES ASSUME pc = "call" PROVE CallInv'
    BY <1>1 DEF CallInv
  <2>0. cur \in Aios /\ cur \in Node
    BY <1>2 DEF CallInv, Node
  <2>1. CASE IssueInv
    <3>1. PICK o \in Ops(cur) : /\ script = <<CallIssue(cur, o)>> /\ Served(cur)
                                /\ \/ reg[cur] = {} \/ o = action[cur]
                                   \/ stage = "epoll" /\ o # "cint"
      BY <2>1 DEF IssueInv
    <3>2. Served(cur)' /\ action'[cur] = action[cur]
      BY <1>s, <2>0, <3>1
    <3>3. IssueInv'
      BY <1>1, <3>1, <3>2 DEF IssueInv
    <3> QED BY <1>1, <2>0, <3>3 DEF CallInv
  <2>2. CASE NewIssueInv
    <3>0. PICK b \in Aios : \E o \in Ops(b) :
             script = <<CallIssue(b, o)>> /\ action[b] = "none" /\ b \in alive
      BY <2>2 DEF NewIssueInv
    <3>1. PICK o \in Ops(b) : script = <<CallIssue(b, o)>> /\ action[b] = "none" /\ b \in alive
      BY <3>0
    <3>2. DOMAIN script = {1} /\ script[1].aio = b
      BY <3>1, ScriptParts
    <3>3. b # a
      BY <3>2 DEF Unclaimed
    <3>4. action'[b] = "none"
      BY <1>1, <3>1, <3>3, <1>2, <1>3 DEF TypeOK, Node
    <3>5. NewIssueInv'
      BY <1>1, <3>1, <3>4 DEF NewIssueInv
    <3> QED BY <1>1, <2>0, <3>5 DEF CallInv
  <2> QED BY <1>1, <1>2, <2>1, <2>2 DEF CallInv
<1>13. TouchInv'
  BY <1>1 DEF TouchInv
<1>14. EvInv'
  <2>1. EvReadable' /\ Ev \notin tree'
    BY <1>1, <1>2, <1>3 DEF EvInv, EvReadable, TypeOK
  <2>2. Ev \notin inq'["incoming"] /\ (Ev \in inq'["extern"] <=> Ev \in inq["extern"])
    BY <1>2, <1>3, <1>7, QueueNames DEF EvInv
  <2>3. Queued(Ev)' \/ reg'[Ev] = {"read"}
    BY <1>2, <1>3, <1>8 DEF EvInv, SameNode, Queued
  <2> QED BY <1>1, <1>2, <2>1, <2>2, <2>3 DEF EvInv
<1> QED BY <1>5, <1>6, <1>10, <1>11, <1>12, <1>13, <1>14 DEF EngineInv

-----------------------------------------------------------------------------
LEMMA EngineInit == Init => EngineInv
<1> SUFFICES ASSUME Init PROVE EngineInv
  OBVIOUS
<1>q. Queue = {"incoming", "extern", "tmp"} /\ Ev \in Node /\ None \notin Node /\ MaxRx \in Nat
  BY AioAssumption, NoneNotNode DEF Queue, Node
<1>1. links \in Links
  <2>1. /\ [q \in Queue |-> IF q = "extern" THEN Ev ELSE None] \in [Queue -> Node \cup {None}]
        /\ [n \in Node |-> None] \in [Node -> Node \cup {None}]
    BY <1>q
  <2> QED BY <2>1 DEF Init, Links
<1>i. /\ pc = "top" /\ stage = "incoming" /\ cur = None /\ ret = None /\ script = <<>> /\ vec = {}
      /\ delay = FALSE /\ stop_flag = FALSE /\ eventfd = TRUE /\ other = "run"
      /\ inq = [q \in Queue |-> IF q = "extern" THEN {Ev} ELSE {}]
      /\ tree = {} /\ due = {} /\ alive = Node
      /\ action = [n \in Node |-> IF n = Ev THEN "readable" ELSE "none"]
      /\ reg = [n \in Node |-> {}] /\ pend = {}
      /\ want = [n \in Node |-> 0] /\ rcache = [n \in Node |-> 0] /\ rx = [a \in Aios |-> 0]
  BY DEF Init
<1>2. inq["incoming"] = {} /\ inq["tmp"] = {} /\ inq["extern"] = {Ev}
  BY <1>i, <1>q
<1>3. TypeOK
  <2>1. action \in [Node -> Action] /\ reg \in [Node -> SUBSET Event] /\ inq \in [Queue -> SUBSET Node]
    BY <1>i, <1>q DEF Action, Persistent
  <2>2. rx \in [Aios -> 0 .. MaxRx] /\ rcache \in [Node -> Nat] /\ want \in [Node -> Nat]
    BY <1>i, <1>q
  <2> QED BY <1>1, <1>i, <1>q, <2>1, <2>2 DEF TypeOK
<1>4. Queues(links, inq)
  <2>1. Apart(inq)
    BY <1>2, <1>q DEF Apart
  <2>2. ASSUME NEW q \in Queue, q # "extern"
        PROVE  \E s \in Seq(Node) : InOrder(links, q, s) /\ inq[q] = Members(s)
    <3>1. <<>> \in Seq(Node) /\ Len(<<>>) = 0
      OBVIOUS
    <3>2. links.head[q] = None /\ links.tail[q] = None /\ inq[q] = {}
      BY <1>i, <2>2 DEF Init
    <3>3. InOrder(links, q, <<>>) /\ Members(<<>>) = {}
      BY <3>1, <3>2 DEF InOrder, Distinct, Members
    <3> QED BY <3>1, <3>2, <3>3
  <2>3. \E s \in Seq(Node) : InOrder(links, "extern", s) /\ inq["extern"] = Members(s)
    <3> DEFINE s == <<Ev>>
    <3>1. s \in Seq(Node) /\ Len(s) = 1 /\ s[1] = Ev
      BY <1>q
    <3> HIDE DEF s
    <3>2. /\ links.head["extern"] = Ev /\ links.tail["extern"] = Ev
          /\ links.prev[Ev] = None /\ links.next[Ev] = None
      BY <1>q DEF Init
    <3>3. InOrder(links, "extern", s) /\ Members(s) = {Ev}
      BY <3>1, <3>2 DEF InOrder, Distinct, Members
    <3> QED BY <1>2, <3>1, <3>3
  <2> QED BY <1>1, <1>3, <2>1, <2>2, <2>3 DEF Queues, TypeOK
<1>5. ASSUME NEW n \in Node PROVE NodeInv(n)
  <2>1. /\ action[n] = (IF n = Ev THEN "readable" ELSE "none") /\ reg[n] = {}
        /\ n \in alive /\ n \notin tree /\ n \notin pend /\ n \notin vec
    BY <1>i
  <2>2. Queued(n) <=> n = Ev
    BY <1>2, <1>q DEF Queued
  <2> QED BY <1>2, <2>1, <2>2 DEF NodeInv, Asked, Persistent
<1>6. PhaseInv /\ CallInv /\ TouchInv
  BY <1>2, <1>i DEF PhaseInv, CallInv, TouchInv
<1>7. EvInv
  <2>1. Queued(Ev)
    BY <1>2, <1>q DEF Queued
  <2> QED BY <1>2, <1>i, <1>q, <2>1 DEF EvInv, EvReadable
<1> QED BY <1>3, <1>4, <1>5, <1>6, <1>7 DEF EngineInv

LEMMA EngineStep ==
  ASSUME Careful, EngineInv, [Next]_vars
  PROVE  EngineInv'
<1>1. CASE Loop
  BY <1>1, LoopTopKeeps, ServeIncomingKeeps, IncomingDoneKeeps, TimeoutsDoneKeeps, EpollWaitKeeps,
     EventsDoneKeeps, ServeTimeoutKeeps, ServeEventKeeps, EventfdReadKeeps, IssueKeeps, DisableKeeps,
     FreeKeeps, ReturnKeeps DEF Loop
<1>2. CASE Client
  BY <1>2, CallbackKeeps DEF Client
<1>3. CASE Environment \/ OtherStop \/ OtherTouch \/ (\E a \in Aios : Create(a)) \/ UNCHANGED vars
  BY <1>3, OutsideKeeps
<1>4. ASSUME NEW a \in Aios, NEW op \in Ops(a), Unclaimed(a), OtherIssue(a, op) PROVE EngineInv'
  BY <1>4, OtherIssueKeeps
<1> QED BY <1>1, <1>2, <1>3, <1>4 DEF Next

LEMMA EngineAlways == Careful => (Spec => []EngineInv)
<1> SUFFICES ASSUME Careful PROVE Spec => []EngineInv
  OBVIOUS
<1>1. EngineInv /\ [Next]_vars => EngineInv'
  BY EngineStep
<1> QED BY <1>1, EngineInit, PTL DEF Spec

(* The queues and the tree share one node of an aio, and never cross: a     *)
(* walk over a queue finds exactly the aios with its flag, no aio is in two *)
(* queues or in a queue and the tree, and none of those linked was freed,   *)
(* whatever a program that keeps to the manual does and however many aios   *)
(* it has.                                                                  *)
THEOREM NodeLinkedOnce == Careful => (Spec => []LinkedOnce)
<1> SUFFICES ASSUME Careful PROVE Spec => []LinkedOnce
  OBVIOUS
<1>1. EngineInv => LinkedOnce
  <2> SUFFICES ASSUME EngineInv PROVE LinkedOnce
    OBVIOUS
  <2>1. \A q \in Queue : Walk(links, q) = inq[q]
    BY WalkFinds DEF EngineInv
  <2>2. \A q, r \in Queue : q # r => inq[q] \cap inq[r] = {}
    BY DEF EngineInv, Queues, Apart
  <2>3. inq \in [Queue -> SUBSET Node] /\ tree \subseteq Node
    BY DEF EngineInv, TypeOK
  <2>4. \A q \in Queue : inq[q] \cap tree = {}
    BY <2>3 DEF EngineInv, NodeInv, Queued
  <2>5. tree \cup UNION {inq[q] : q \in Queue} \subseteq alive
    BY <2>3 DEF EngineInv, NodeInv, Queued
  <2> QED BY <2>1, <2>2, <2>4, <2>5 DEF LinkedOnce
<1> QED BY <1>1, EngineAlways, PTL

(* An operation whose callback is to come is never lost: the aio is in a    *)
(* queue that the loop walks, in the tree of timeouts or in epoll.          *)
THEOREM OperationFound == Careful => (Spec => []Found)
<1> SUFFICES ASSUME Careful PROVE Spec => []Found
  OBVIOUS
<1>1. EngineInv => Found
  <2> SUFFICES ASSUME EngineInv, NEW n \in pend
               PROVE  (\E q \in Queue : n \in Walk(links, q)) \/ n \in tree \/ reg[n] # {}
    BY DEF Found
  <2>1. NodeInv(n)
    BY DEF EngineInv, TypeOK
  <2>2. \A q \in Queue : Walk(links, q) = inq[q]
    BY WalkFinds DEF EngineInv
  <2> QED BY <2>1, <2>2 DEF NodeInv, Queued
<1> QED BY <1>1, EngineAlways, PTL

(* The loop never blocks in epoll_wait over an aio that another thread has  *)
(* handed over, or over a stop, unless the eventfd wakes it.                *)
THEOREM TouchKept == Careful => (Spec => []NoLostTouch)
<1> SUFFICES ASSUME Careful PROVE Spec => []NoLostTouch
  OBVIOUS
<1>1. EngineInv => NoLostTouch
  <2> SUFFICES ASSUME EngineInv, pc = "wait", delay, other = "run",
                      links.head["extern"] # None \/ stop_flag
               PROVE  HasEvent(Ev)
    BY DEF NoLostTouch
  <2>1. eventfd
    BY DEF EngineInv, TouchInv
  <2>2. inq["tmp"] = {} /\ Ev \notin inq["extern"] /\ Ev \notin inq["incoming"]
    BY DEF EngineInv, PhaseInv, EvInv
  <2>3. ~Queued(Ev)
    BY <2>2 DEF Queued, Queue
  <2>4. reg[Ev] = {"read"}
    BY <2>3 DEF EngineInv, EvInv
  <2> QED BY <2>1, <2>4 DEF HasEvent
<1> QED BY <1>1, EngineAlways, PTL

LEMMA ServeCalls ==
  ASSUME NEW n, NEW st, NEW l, NEW f, NEW T, Serve(n, st, l, f, T), pc # "cb", pc' = "cb"
  PROVE  cur' = n
  BY DEF Serve

(* An operation calls back once: a callback is only ever called for an aio  *)
(* with an operation pending, or one that stays readable or writeable.      *)
THEOREM CalledBackOnce == Careful => (Spec => CompletesOnce)
<1> SUFFICES ASSUME Careful PROVE Spec => CompletesOnce
  OBVIOUS
<1> DEFINE Once == \A a \in Aios : pc # "cb" /\ pc' = "cb" /\ cur' = a =>
                      a \in pend \/ action[a] \in Persistent
<1>1. EngineInv /\ [Next]_vars => [Once]_vars
  <2> SUFFICES ASSUME EngineInv, Next, NEW a \in Aios, pc # "cb", pc' = "cb", cur' = a
               PROVE  a \in pend \/ action[a] \in Persistent
    BY DEF vars
  <2>1. CASE ServeIncoming
    <3>1. cur' = links.head["tmp"]
      BY <2>1, ServeCalls DEF ServeIncoming
    <3> QED BY <2>1, <3>1, ServeIncomingKeeps DEF Asked
  <2>2. ASSUME NEW n \in Node, ServeTimeout(n) PROVE a \in pend \/ action[a] \in Persistent
    <3>1. cur' = n
      BY <2>2, ServeCalls DEF ServeTimeout
    <3> QED BY <2>2, <3>1, ServeTimeoutKeeps DEF Asked
  <2>3. ASSUME NEW n \in Node, ServeEvent(n) PROVE a \in pend \/ action[a] \in Persistent
    <3>1. cur' = n
      BY <2>3, ServeCalls DEF ServeEvent
    <3> QED BY <2>3, <3>1, ServeEventKeeps DEF Asked
  <2>4. CASE LoopTop \/ IncomingDone \/ TimeoutsDone \/ EpollWait \/ EventsDone
    BY <2>4 DEF LoopTop, IncomingDone, TimeoutsDone, EpollWait, EventsDone
  <2>5. CASE EventfdRead \/ Return
    <3>1. Caller # "cb"
      BY DEF Caller, EngineInv, TypeOK
    <3> QED BY <2>5, <3>1 DEF EventfdRead, Return
  <2>6. CASE Issue \/ Disable \/ Free
    BY <2>6 DEF Issue, Disable, Free
  <2>7. CASE Client
    BY <2>7 DEF Client, Callback
  <2>8. CASE Environment \/ OtherStop \/ OtherTouch \/ (\E b \in Aios : Create(b))
    BY <2>8 DEF Environment, Arrive, Expire, OtherStop, OtherTouch, Create, loopVars
  <2>9. CASE \E b \in Aios : \E op \in Ops(b) : OtherIssue(b, op)
    BY <2>9 DEF OtherIssue, loopVars
  <2> QED BY <2>1, <2>2, <2>3, <2>4, <2>5, <2>6, <2>7, <2>8, <2>9 DEF Next, Loop
<1>2. Spec => [][Once]_vars
  BY <1>1, EngineAlways, PTL DEF Spec
<1> QED BY <1>2 DEF CompletesOnce
=============================================================================
