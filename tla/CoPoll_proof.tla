---------------------------- MODULE CoPoll_proof ----------------------------
(* Theorems about poll for every set of coroutines and descriptors and      *)
(* every size of the vector that epoll_wait fills.                          *)
EXTENDS CoPoll, Occurrences

(* The loop visits nodes of the tree, and only in the two phases that visit *)
(* something; a coroutine runs in no other phase than "run".                *)
LoopInv ==
    /\ phase = "run" <=> current # None
    /\ phase \notin {"timeout", "events"} => todo = {}
    /\ todo \subseteq tree
    /\ phase = "timeout" => todo \subseteq expired

(* The tree and epoll hold the descriptors of the polls, each leads back to *)
(* its coroutine, and a deadline passes for all descriptors of a poll.      *)
FdInv ==
    /\ \A f \in Fds : f \in tree <=> \E c \in Co : f \in polls[c]
    /\ epoll = tree
    /\ \A c \in Co : \A f \in polls[c] : co[f] = c
    /\ \A c \in Co : polls[c] \cap expired = {} \/ polls[c] \subseteq expired

RunInv == current # None => polls[current] = {}

PollInv == TypeOK /\ LoopInv /\ FdInv /\ RunInv

LEMMA PollInit == Init => PollInv
<1> SUFFICES ASSUME Init PROVE PollInv
  OBVIOUS
<1> USE PollAssumption
<1>1. active \in Seq(Co)
  <2>1. Cardinality(Co) \in Nat
    BY FS_CardinalityType
  <2>2. active \in [1 .. Cardinality(Co) -> Co]
    BY DEF Init, SetToSeqs
  <2> QED BY <2>1, <2>2
<1>2. TypeOK
  BY <1>1 DEF Init, TypeOK
<1>3. LoopInv /\ FdInv /\ RunInv
  BY DEF Init, LoopInv, FdInv, RunInv
<1> QED BY <1>2, <1>3 DEF PollInv

(* Where a descriptor of the tree leads.                                    *)
LEMMA Owner ==
  ASSUME PollInv, NEW f \in tree
  PROVE  f \in Fds /\ co[f] \in Co /\ f \in polls[co[f]] /\ polls[co[f]] # {} /\ co[f] # current
<1>1. f \in Fds
  BY DEF PollInv, TypeOK
<1>2. PICK c \in Co : f \in polls[c]
  BY <1>1 DEF PollInv, FdInv
<1>3. co[f] = c
  BY <1>2 DEF PollInv, FdInv
<1>4. c # current
  BY <1>2, PollAssumption DEF PollInv, RunInv
<1> QED BY <1>1, <1>2, <1>3, <1>4

(* Detaching a coroutine from the active list.                              *)
LEMMA Detached ==
  ASSUME NEW c \in Co, NEW s \in Seq(Co), Times(c, s) = 1
  PROVE  /\ RemoveFirst(s, c) \in Seq(Co)
         /\ \A d \in Co : Times(d, RemoveFirst(s, c)) = IF d = c THEN 0 ELSE Times(d, s)
<1>1. ~(\A i \in 1 .. Len(s) : s[i] # c)
  BY TimesZero
<1>2. PICK k \in 1 .. Len(s) : s[k] = c
  BY <1>1
<1>3. \A i, j \in 1 .. Len(s) : s[i] = c /\ s[j] = c => i = j
  <2>1. Times(c, s) <= 1
    OBVIOUS
  <2> QED BY <2>1, TimesOnce
<1>4. {i \in 1 .. Len(s) : s[i] = c} = {k}
  BY <1>2, <1>3
<1>5. RemoveFirst(s, c) = RemoveAt(s, k)
  <2>1. SelectInSeq(s, LAMBDA v : v = c) = Min({k})
    BY <1>4 DEF SelectInSeq
  <2>2. Min({k}) = k
    BY DEF Min
  <2> QED BY <1>2, <2>1, <2>2 DEF RemoveFirst
<1>6. RemoveFirst(s, c) = Cut(s, k)
  BY <1>5 DEF RemoveAt, Cut
<1>7. Cut(s, k) \in Seq(Co)
  BY CutProperties
<1>8. ASSUME NEW d \in Co PROVE Times(d, Cut(s, k)) = IF d = c THEN 0 ELSE Times(d, s)
  <2>1. Times(d, Cut(s, k)) = IF d = s[k] THEN Times(d, s) - 1 ELSE Times(d, s)
    BY TimesCut
  <2> QED BY <1>2, <2>1
<1> QED BY <1>6, <1>7, <1>8

(* A coroutine is active once at most, not while it runs, and while it      *)
(* polls the flag active_list says whether it is.                           *)
ActiveInv(c) ==
    /\ Times(c, active) <= 1
    /\ c = current => Times(c, active) = 0
    /\ polls[c] # {} => (c \in active_list <=> Times(c, active) = 1)

AllActive == \A c \in Co : ActiveInv(c)

LEMMA ActiveInit == Init => AllActive
<1> SUFFICES ASSUME Init, NEW c \in Co PROVE ActiveInv(c)
  BY DEF AllActive
<1>1. active \in Seq(Co)
  BY PollInit DEF PollInv, TypeOK
<1>2. \A i, j \in 1 .. Len(active) : active[i] = c /\ active[j] = c => i = j
  <2>1. Cardinality(Co) \in Nat
    BY PollAssumption, FS_CardinalityType
  <2>2. /\ active \in [1 .. Cardinality(Co) -> Co]
        /\ \A i, j \in 1 .. Cardinality(Co) : i # j => active[i] # active[j]
    BY DEF Init, SetToSeqs
  <2>3. Len(active) = Cardinality(Co)
    BY <2>1, <2>2
  <2> QED BY <2>2, <2>3
<1>3. Times(c, active) <= 1
  BY <1>1, <1>2, TimesOnce
<1>4. c # current /\ polls[c] = {}
  BY PollAssumption DEF Init
<1> QED BY <1>3, <1>4 DEF ActiveInv

LEMMA PollStep == ASSUME PollInv, AllActive, [Next]_vars PROVE PollInv' /\ AllActive'
<1> USE PollAssumption
<1>0. /\ phase \in {"top", "timeout", "epoll", "events", "switch", "run"}
      /\ todo \subseteq Fds /\ event_size \in Nat \ {0}
      /\ event_size = MinEvents \/ event_size < 2 * MaxEvents
      /\ current \in Co \cup {None} /\ active \in Seq(Co) /\ polls \in [Co -> SUBSET Fds]
      /\ co \in [Fds -> Co \cup {None}]
      /\ by_epoll \subseteq Fds /\ in_epoll \subseteq Fds /\ epoll \subseteq Fds
      /\ tree \subseteq Fds /\ expired \subseteq Fds
      /\ ep_loop \subseteq Co /\ active_list \subseteq Co /\ readable \subseteq Fds
      /\ reported \in [Co -> SUBSET Fds] /\ looked \subseteq Co
      /\ LoopInv /\ FdInv /\ RunInv
  BY DEF PollInv, TypeOK
<1>n. \A c \in Co : Times(c, active) \in Nat
  BY <1>0, TimesType
<1> DEFINE FdKept == UNCHANGED <<polls, co, epoll, tree, expired>>
           ProcKept == UNCHANGED <<current, phase, todo>>
           ListKept == UNCHANGED <<active, active_list>>
<1>a. ASSUME FdKept, ListKept, current' = current PROVE FdInv' /\ RunInv' /\ AllActive'
  BY <1>0, <1>a DEF FdInv, RunInv, AllActive, ActiveInv
<1>1. CASE LoopTop
  <2>1. FdKept /\ ListKept /\ current' = current
    BY <1>1 DEF LoopTop, fdVars, flagVars
  <2>2. TypeOK'
    BY <1>0, <1>1 DEF LoopTop, TypeOK, Overdue, fdVars, flagVars
  <2>3. LoopInv'
    BY <1>0, <1>1, <2>1 DEF LoopTop, LoopInv, Overdue
  <2> QED BY <1>a, <2>1, <2>2, <2>3 DEF PollInv
<1>2. CASE TimeoutsDone \/ EventsDone \/ SwitchToLoop
  <2>1. FdKept /\ ListKept /\ current' = current
    BY <1>2 DEF TimeoutsDone, EventsDone, SwitchToLoop, fdVars, flagVars
  <2>2. TypeOK'
    BY <1>0, <1>2 DEF TimeoutsDone, EventsDone, SwitchToLoop, TypeOK, fdVars, flagVars
  <2>3. LoopInv'
    BY <1>0, <1>2, <2>1 DEF TimeoutsDone, EventsDone, SwitchToLoop, LoopInv
  <2> QED BY <1>a, <2>1, <2>2, <2>3 DEF PollInv
<1>3. CASE EpollWait
  <2>1. FdKept /\ ListKept /\ current' = current
    BY <1>3 DEF EpollWait, fdVars, flagVars
  <2>2. todo' \subseteq epoll /\ event_size' \in {event_size, 2 * event_size}
        /\ (event_size' = 2 * event_size => event_size < MaxEvents \/ event_size' = event_size)
    BY <1>0, <1>3 DEF EpollWait, Grown
  <2>3. event_size' \in Nat \ {0} /\ (event_size' = MinEvents \/ event_size' < 2 * MaxEvents)
    BY <1>0, <2>2
  <2>4. looked' \subseteq Co
    BY <1>0, <1>3 DEF EpollWait
  <2>5. TypeOK'
    BY <1>0, <1>3, <2>2, <2>3, <2>4 DEF EpollWait, TypeOK, fdVars, flagVars
  <2>6. LoopInv'
    BY <1>0, <1>3, <2>1, <2>2 DEF EpollWait, LoopInv, FdInv
  <2> QED BY <1>a, <2>1, <2>5, <2>6 DEF PollInv
<1>4. ASSUME NEW f \in Fds, VisitTimeout(f) PROVE PollInv' /\ AllActive'
  <2> DEFINE c == co[f]
  <2>1. f \in tree
    BY <1>0, <1>4 DEF VisitTimeout, LoopInv
  <2>2. c \in Co /\ f \in polls[c] /\ polls[c] # {} /\ c # current
    BY <2>1, Owner
  <2>3. /\ FdKept /\ current' = current /\ phase' = phase /\ todo' = todo \ {f}
        /\ active' = AppendedOnce(c) /\ ep_loop' = ep_loop \cup {c}
        /\ active_list' = IF c \in ep_loop THEN active_list \cup {c} ELSE active_list
    BY <1>4 DEF VisitTimeout, fdVars
  <2> HIDE DEF c
  <2>4. active' \in Seq(Co)
    BY <1>0, <2>2, <2>3 DEF AppendedOnce
  <2>5. TypeOK'
    BY <1>0, <1>4, <2>2, <2>3, <2>4 DEF VisitTimeout, TypeOK, fdVars
  <2>6. LoopInv' /\ FdInv' /\ RunInv'
    BY <1>0, <2>3 DEF LoopInv, FdInv, RunInv
  <2>7. ASSUME NEW d \in Co PROVE ActiveInv(d)'
    <3>1. ActiveInv(d) /\ ActiveInv(c)
      BY <2>2 DEF AllActive
    <3>2. CASE c \in ep_loop /\ c \notin active_list
      <4>1. Times(d, Append(active, c)) = IF d = c THEN Times(d, active) + 1 ELSE Times(d, active)
        BY <1>0, <2>2, TimesAppend
      <4>2. active' = Append(active, c) /\ active_list' = active_list \cup {c}
        BY <2>3, <3>2 DEF AppendedOnce
      <4>3. Times(c, active) = 0
        BY <1>n, <2>2, <3>1, <3>2 DEF ActiveInv
      <4>4. Times(d, active)' = IF d = c THEN 1 ELSE Times(d, active)
        BY <4>1, <4>2, <4>3
      <4> QED BY <2>2, <2>3, <3>1, <4>2, <4>4 DEF ActiveInv
    <3>3. CASE ~(c \in ep_loop /\ c \notin active_list)
      <4>1. active' = active /\ active_list' = active_list
        BY <2>3, <3>3 DEF AppendedOnce
      <4> QED BY <2>3, <3>1, <4>1 DEF ActiveInv
    <3> QED BY <3>2, <3>3
  <2> QED BY <2>5, <2>6, <2>7 DEF PollInv, AllActive
<1>5. ASSUME NEW f \in Fds, VisitEvent(f) PROVE PollInv' /\ AllActive'
  <2> DEFINE c == co[f]
  <2>1. f \in tree
    BY <1>0, <1>5 DEF VisitEvent, LoopInv
  <2>2. c \in Co /\ f \in polls[c] /\ polls[c] # {} /\ c # current
    BY <2>1, Owner
  <2>3. /\ FdKept /\ current' = current /\ phase' = phase /\ todo' = todo \ {f}
        /\ active' = MovedToEnd(c) /\ active_list' = active_list \cup {c}
    BY <1>5 DEF VisitEvent
  <2> HIDE DEF c
  <2> DEFINE s == IF c \in active_list THEN RemoveFirst(active, c) ELSE active
  <2>4. s \in Seq(Co) /\ \A d \in Co : Times(d, s) = IF d = c THEN 0 ELSE Times(d, active)
    <3>1. CASE c \in active_list
      <4>1. Times(c, active) = 1
        BY <2>2, <3>1 DEF AllActive, ActiveInv
      <4> QED BY <1>0, <2>2, <3>1, <4>1, Detached
    <3>2. CASE c \notin active_list
      <4>1. Times(c, active) = 0
        BY <1>n, <2>2, <3>2 DEF AllActive, ActiveInv
      <4> QED BY <1>0, <3>2, <4>1
    <3> QED BY <3>1, <3>2
  <2>5. active' = Append(s, c)
    BY <2>3 DEF MovedToEnd
  <2> HIDE DEF s
  <2>6. active' \in Seq(Co)
    BY <2>2, <2>4, <2>5
  <2>7. TypeOK'
    BY <1>0, <1>5, <2>2, <2>3, <2>6 DEF VisitEvent, TypeOK
  <2>8. LoopInv' /\ FdInv' /\ RunInv'
    BY <1>0, <2>3 DEF LoopInv, FdInv, RunInv
  <2>9. ASSUME NEW d \in Co PROVE ActiveInv(d)'
    <3>1. Times(d, Append(s, c)) = IF d = c THEN Times(d, s) + 1 ELSE Times(d, s)
      BY <2>2, <2>4, TimesAppend
    <3>2. Times(d, active)' = IF d = c THEN 1 ELSE Times(d, active)
      BY <2>4, <2>5, <3>1
    <3>3. ActiveInv(d)
      BY DEF AllActive
    <3> QED BY <2>2, <2>3, <3>2, <3>3 DEF ActiveInv
  <2> QED BY <2>7, <2>8, <2>9 DEF PollInv, AllActive
<1>6. ASSUME NEW c \in Co, SwitchTo(c) PROVE PollInv' /\ AllActive'
  <2>1. /\ active # <<>> /\ c = Head(active) /\ active' = Tail(active) /\ phase = "switch"
        /\ phase' = "run" /\ current' = c /\ polls' = [polls EXCEPT ![c] = {}]
        /\ epoll' = epoll \ polls[c] /\ tree' = tree \ polls[c] /\ expired' = expired \ polls[c]
        /\ todo' = todo /\ co' = co /\ active_list' = active_list
    BY <1>6 DEF SwitchTo, LeaveTree, flagVars
  <2>2. todo = {}
    BY <1>0, <2>1 DEF LoopInv
  <2>3. active' \in Seq(Co)
    BY <1>0, <2>1
  <2>4. /\ reported' \in [Co -> SUBSET Fds] /\ polls' \in [Co -> SUBSET Fds]
        /\ in_epoll' \subseteq Fds /\ looked' \subseteq Co
    BY <1>0, <1>6 DEF SwitchTo, Result
  <2>5. UNCHANGED <<event_size, by_epoll, ep_loop, readable>>
    BY <1>6 DEF SwitchTo, flagVars
  <2>6. TypeOK'
    BY <1>0, <2>1, <2>2, <2>3, <2>4, <2>5 DEF TypeOK
  <2>7. LoopInv' /\ RunInv'
    BY <1>0, <2>1, <2>2 DEF LoopInv, RunInv
  <2>8. FdInv'
    <3>1. ASSUME NEW d \in Co PROVE polls'[d] = IF d = c THEN {} ELSE polls[d]
      BY <1>0, <2>1
    <3>2. ASSUME NEW f \in Fds PROVE f \in tree' <=> \E d \in Co : f \in polls'[d]
      <4>1. ASSUME NEW d \in Co, f \in polls[d], d # c PROVE f \notin polls[c]
        BY <1>0, <4>1 DEF FdInv
      <4>2. f \in tree <=> \E d \in Co : f \in polls[d]
        BY <1>0 DEF FdInv
      <4> QED BY <2>1, <3>1, <4>1, <4>2
    <3>3. \A d \in Co : \A f \in polls'[d] : co'[f] = d
      BY <1>0, <2>1, <3>1 DEF FdInv
    <3>4. ASSUME NEW d \in Co PROVE polls'[d] \cap expired' = {} \/ polls'[d] \subseteq expired'
      <4>1. d # c => polls[d] \cap polls[c] = {}
        BY <1>0 DEF FdInv
      <4>2. polls[d] \cap expired = {} \/ polls[d] \subseteq expired
        BY <1>0 DEF FdInv
      <4> QED BY <2>1, <3>1, <4>1, <4>2
    <3>5. epoll' = tree'
      BY <1>0, <2>1 DEF FdInv
    <3> QED BY <3>2, <3>3, <3>4, <3>5 DEF FdInv
  <2>9. ASSUME NEW d \in Co PROVE ActiveInv(d)'
    <3>1. Times(d, Tail(active)) = IF d = c THEN Times(d, active) - 1 ELSE Times(d, active)
      BY <1>0, <2>1, TimesTail
    <3>2. 1 \in 1 .. Len(active) /\ active[1] = c
      BY <1>0, <2>1
    <3>3. Times(c, active) # 0
      BY <1>0, <3>2, TimesZero
    <3>4. ActiveInv(d) /\ ActiveInv(c) /\ Times(c, active) \in Nat /\ Times(d, active) \in Nat
      BY <1>n DEF AllActive
    <3>5. Times(d, active)' = IF d = c THEN 0 ELSE Times(d, active)
      BY <2>1, <3>1, <3>3, <3>4 DEF ActiveInv
    <3>6. polls'[d] = IF d = c THEN {} ELSE polls[d]
      BY <1>0, <2>1
    <3> QED BY <2>1, <3>4, <3>5, <3>6 DEF ActiveInv
  <2> QED BY <2>6, <2>7, <2>8, <2>9 DEF PollInv, AllActive
<1>7. ASSUME NEW c \in Co, NEW F \in SUBSET Fds, Poll(c, F) PROVE PollInv' /\ AllActive'
  <2>1. /\ current = c /\ F # {} /\ polls' = [polls EXCEPT ![c] = F]
        /\ co' = [f \in Fds |-> IF f \in F THEN c ELSE co[f]]
        /\ epoll' = epoll \cup F /\ tree' = tree \cup F /\ expired' = expired \ F
        /\ current' = None /\ phase' = "switch" /\ todo' = todo /\ active' = active
        /\ active_list' = active_list \ {c} /\ ep_loop' = ep_loop \ {c}
    BY <1>7 DEF Poll, FreshFlags
  <2>2. \A d \in Co : F \cap polls[d] = {}
    BY <1>7 DEF Poll, Allowed
  <2>3. todo = {} /\ polls[c] = {}
    BY <1>0, <2>1 DEF LoopInv, RunInv
  <2>4. by_epoll' \subseteq Fds /\ UNCHANGED <<event_size, in_epoll, readable, reported, looked>>
    BY <1>0, <1>7 DEF Poll, ByEpollAfter
  <2>5. polls' \in [Co -> SUBSET Fds] /\ co' \in [Fds -> Co \cup {None}]
    BY <1>0, <2>1
  <2>6. TypeOK'
    BY <1>0, <2>1, <2>3, <2>4, <2>5 DEF TypeOK
  <2>7. LoopInv' /\ RunInv'
    BY <1>0, <2>1, <2>3 DEF LoopInv, RunInv
  <2>8. FdInv'
    <3>1. ASSUME NEW d \in Co PROVE polls'[d] = IF d = c THEN F ELSE polls[d]
      BY <1>0, <2>1
    <3>2. ASSUME NEW f \in Fds PROVE f \in tree' <=> \E d \in Co : f \in polls'[d]
      <4>1. f \in tree <=> \E d \in Co : f \in polls[d]
        BY <1>0 DEF FdInv
      <4> QED BY <2>1, <2>3, <3>1, <4>1
    <3>3. ASSUME NEW d \in Co, NEW f \in polls'[d] PROVE co'[f] = d
      <4>1. f \in Fds
        BY <2>5, <3>3
      <4>2. CASE d = c
        BY <2>1, <3>1, <3>3, <4>1, <4>2
      <4>3. CASE d # c
        <5>1. f \in polls[d] /\ f \notin F
          BY <2>2, <3>1, <3>3, <4>3
        <5>2. co[f] = d
          BY <1>0, <5>1 DEF FdInv
        <5> QED BY <2>1, <4>1, <5>1, <5>2
      <4> QED BY <4>2, <4>3
    <3>4. ASSUME NEW d \in Co PROVE polls'[d] \cap expired' = {} \/ polls'[d] \subseteq expired'
      <4>1. polls[d] \cap expired = {} \/ polls[d] \subseteq expired
        BY <1>0 DEF FdInv
      <4>2. F \cap polls[d] = {}
        BY <2>2
      <4> QED BY <2>1, <3>1, <4>1, <4>2
    <3>5. epoll' = tree'
      BY <1>0, <2>1 DEF FdInv
    <3> QED BY <3>2, <3>3, <3>4, <3>5 DEF FdInv
  <2>9. ASSUME NEW d \in Co PROVE ActiveInv(d)'
    <3>1. polls'[d] = IF d = c THEN F ELSE polls[d]
      BY <1>0, <2>1
    <3>2. ActiveInv(d)
      BY DEF AllActive
    <3> QED BY <2>1, <3>1, <3>2 DEF ActiveInv
  <2> QED BY <2>6, <2>7, <2>8, <2>9 DEF PollInv, AllActive
<1>8. ASSUME NEW c \in Co, Exit(c) PROVE PollInv' /\ AllActive'
  <2>1. /\ FdKept /\ ListKept /\ current = c /\ current' = None /\ phase' = "switch" /\ todo' = todo
    BY <1>8 DEF Exit, fdVars, flagVars
  <2>2. TypeOK'
    BY <1>0, <1>8 DEF Exit, TypeOK, fdVars, flagVars
  <2>3. LoopInv' /\ FdInv' /\ RunInv'
    BY <1>0, <2>1 DEF LoopInv, FdInv, RunInv
  <2>4. ASSUME NEW d \in Co PROVE ActiveInv(d)'
    BY <2>1 DEF AllActive, ActiveInv
  <2> QED BY <2>2, <2>3, <2>4 DEF PollInv, AllActive
<1>9. ASSUME NEW c \in Co, Expire(c) PROVE PollInv' /\ AllActive'
  <2>1. /\ UNCHANGED <<polls, co, epoll, tree, active, active_list, current, phase, todo>>
        /\ expired' = expired \cup polls[c]
    BY <1>9 DEF Expire, loopVars, flagVars
  <2>2. TypeOK'
    BY <1>0, <1>9 DEF Expire, TypeOK, loopVars, flagVars
  <2>3. LoopInv' /\ RunInv'
    BY <1>0, <2>1 DEF LoopInv, RunInv
  <2>4. FdInv'
    <3>1. ASSUME NEW d \in Co PROVE polls[d] \cap expired' = {} \/ polls[d] \subseteq expired'
      <4>1. d # c => polls[d] \cap polls[c] = {}
        BY <1>0 DEF FdInv
      <4>2. polls[d] \cap expired = {} \/ polls[d] \subseteq expired
        BY <1>0 DEF FdInv
      <4> QED BY <2>1, <4>1, <4>2
    <3> QED BY <1>0, <2>1, <3>1 DEF FdInv
  <2>5. AllActive'
    BY <2>1 DEF AllActive, ActiveInv
  <2> QED BY <2>2, <2>3, <2>4, <2>5 DEF PollInv
<1>10. CASE UNCHANGED vars \/ \E f \in Fds : Arrive(f) \/ Consume(f)
  <2>1. FdKept /\ ListKept /\ ProcKept
    BY <1>10 DEF Arrive, Consume, vars, fdVars, flagVars, loopVars
  <2>2. TypeOK'
    BY <1>0, <1>10 DEF Arrive, Consume, TypeOK, vars, fdVars, flagVars, loopVars
  <2>3. LoopInv'
    BY <1>0, <2>1 DEF LoopInv
  <2> QED BY <1>a, <2>1, <2>2, <2>3 DEF PollInv
<1> QED
  BY <1>1, <1>2, <1>3, <1>4, <1>5, <1>6, <1>7, <1>8, <1>9, <1>10 DEF Next, Loop

(* A coroutine is linked into the active list once at most and never while  *)
(* it runs; between polls nothing of it is left in epoll or in the timeout  *)
(* tree, and during one every descriptor leads back to its own coroutine.   *)
THEOREM LinkedAndOwned == Spec => []WokenOnce
<1>1. PollInv /\ AllActive => WokenOnce
  <2> SUFFICES ASSUME PollInv, AllActive PROVE WokenOnce
    OBVIOUS
  <2>0. active \in Seq(Co) /\ tree \subseteq Fds /\ polls \in [Co -> SUBSET Fds] /\ FdInv
    BY DEF PollInv, TypeOK
  <2>1. ASSUME NEW c \in Co PROVE Cardinality({i \in DOMAIN active : active[i] = c}) <= 1
    <3>1. Times(c, active) <= 1
      BY DEF AllActive, ActiveInv
    <3> QED BY <3>1 DEF Times, Positions
  <2>2. current \notin ToSet(active)
    <3> SUFFICES ASSUME current \in ToSet(active) PROVE FALSE
      OBVIOUS
    <3>0. DOMAIN active = 1 .. Len(active)
      BY <2>0
    <3>1. PICK i \in 1 .. Len(active) : active[i] = current
      BY <3>0 DEF ToSet
    <3>2. current \in Co
      BY <2>0, <3>1
    <3>3. Times(current, active) = 0
      BY <3>2 DEF AllActive, ActiveInv
    <3>4. \A j \in 1 .. Len(active) : active[j] # current
      BY <2>0, <3>3, TimesZero
    <3> QED BY <3>1, <3>4
  <2>3. tree = UNION {polls[c] : c \in Co}
    BY <2>0 DEF FdInv
  <2> QED BY <2>0, <2>1, <2>2, <2>3 DEF WokenOnce, FdInv
<1>2. PollInv /\ AllActive /\ [Next]_vars => PollInv' /\ AllActive'
  BY PollStep
<1> QED BY <1>1, <1>2, PollInit, ActiveInit, PTL DEF Spec

-----------------------------------------------------------------------------
(***************************************************************************)
(* What a poll reports.  A descriptor of the tree whose by_epoll is set    *)
(* has made its coroutine active; and a coroutine is active for an event,  *)
(* or because its time has passed and epoll_wait has looked since or is    *)
(* about to: two descriptors of one poll make it active in one pass over   *)
(* the timeouts, before the epoll_wait of the same round.                  *)
(***************************************************************************)
SeenInv == \A f \in by_epoll \cap tree : co[f] \in active_list

HonestInv(c) ==
    /\ c \in ep_loop => polls[c] \subseteq expired
    /\ c \in active_list /\ polls[c] # {} =>
         \/ polls[c] \cap by_epoll # {}
         \/ polls[c] \subseteq expired /\ (c \in looked \/ phase \in {"timeout", "epoll"})

ReportInv == SeenInv /\ \A c \in Co : HonestInv(c)

LEMMA ReportInit == Init => ReportInv
  BY DEF Init, ReportInv, SeenInv, HonestInv

LEMMA ReportStep == ASSUME PollInv, AllActive, ReportInv, [Next]_vars PROVE ReportInv'
<1> USE PollAssumption
<1>0. /\ current \in Co \cup {None} /\ active \in Seq(Co) /\ polls \in [Co -> SUBSET Fds]
      /\ co \in [Fds -> Co \cup {None}] /\ tree \subseteq Fds
      /\ LoopInv /\ FdInv /\ RunInv /\ SeenInv
  BY DEF PollInv, TypeOK, ReportInv
<1> DEFINE SeenKept == UNCHANGED <<co, by_epoll, tree, active_list>>
           HonestKept == UNCHANGED <<polls, by_epoll, expired, ep_loop, active_list>>
<1>a. SeenKept => SeenInv'
  BY <1>0 DEF SeenInv
<1>1. CASE LoopTop \/ TimeoutsDone \/ EventsDone
  <2>1. /\ SeenKept /\ HonestKept /\ looked' = looked
        /\ phase \in {"timeout", "epoll"} => phase' \in {"timeout", "epoll"}
    BY <1>1 DEF LoopTop, TimeoutsDone, EventsDone, fdVars, flagVars
  <2>2. ASSUME NEW d \in Co PROVE HonestInv(d)'
    BY <2>1 DEF ReportInv, HonestInv
  <2> QED BY <1>a, <2>1, <2>2 DEF ReportInv
<1>2. CASE SwitchToLoop \/ UNCHANGED vars \/ \E f \in Fds : Arrive(f) \/ Consume(f)
  <2>1. /\ SeenKept /\ HonestKept /\ looked' = looked
        /\ phase \in {"timeout", "epoll"} => phase' \in {"timeout", "epoll"}
    BY <1>2 DEF SwitchToLoop, Arrive, Consume, vars, fdVars, flagVars, loopVars
  <2>2. ASSUME NEW d \in Co PROVE HonestInv(d)'
    BY <2>1 DEF ReportInv, HonestInv
  <2> QED BY <1>a, <2>1, <2>2 DEF ReportInv
<1>3. CASE EpollWait
  <2>1. /\ SeenKept /\ HonestKept
        /\ looked' = looked \cup {c \in Co : polls[c] # {} /\ polls[c] \subseteq expired}
    BY <1>3 DEF EpollWait, Parked, fdVars, flagVars
  <2>2. ASSUME NEW d \in Co PROVE HonestInv(d)'
    <3>1. HonestInv(d)
      BY DEF ReportInv
    <3> QED BY <2>1, <3>1 DEF HonestInv
  <2> QED BY <1>a, <2>1, <2>2 DEF ReportInv
<1>4. ASSUME NEW f \in Fds, VisitTimeout(f) PROVE ReportInv'
  <2> DEFINE c == co[f]
  <2>1. f \in tree /\ f \in expired /\ phase = "timeout"
    BY <1>0, <1>4 DEF VisitTimeout, LoopInv
  <2>2. c \in Co /\ f \in polls[c]
    BY <2>1, Owner
  <2>3. polls[c] \subseteq expired
    BY <1>0, <2>1, <2>2 DEF FdInv
  <2>4. /\ UNCHANGED <<co, by_epoll, tree, polls, expired, looked, phase>>
        /\ ep_loop' = ep_loop \cup {c}
        /\ active_list' = IF c \in ep_loop THEN active_list \cup {c} ELSE active_list
    BY <1>4 DEF VisitTimeout, fdVars
  <2> HIDE DEF c
  <2>5. SeenInv'
    BY <1>0, <2>4 DEF SeenInv
  <2>6. ASSUME NEW d \in Co PROVE HonestInv(d)'
    <3>1. HonestInv(d)
      BY DEF ReportInv
    <3> QED BY <2>1, <2>3, <2>4, <3>1 DEF HonestInv
  <2> QED BY <2>5, <2>6 DEF ReportInv
<1>5. ASSUME NEW f \in Fds, VisitEvent(f) PROVE ReportInv'
  <2> DEFINE c == co[f]
  <2>1. f \in tree
    BY <1>0, <1>5 DEF VisitEvent, LoopInv
  <2>2. c \in Co /\ f \in polls[c]
    BY <2>1, Owner
  <2>3. /\ UNCHANGED <<co, tree, polls, expired, looked, phase, ep_loop>>
        /\ by_epoll' = by_epoll \cup {f}
        /\ active_list' = active_list \cup {c} /\ c = co[f]
    BY <1>5 DEF VisitEvent
  <2> HIDE DEF c
  <2>4. SeenInv'
    BY <1>0, <2>3 DEF SeenInv
  <2>5. ASSUME NEW d \in Co PROVE HonestInv(d)'
    <3>1. HonestInv(d)
      BY DEF ReportInv
    <3> QED BY <2>2, <2>3, <3>1 DEF HonestInv
  <2> QED BY <2>4, <2>5 DEF ReportInv
<1>6. ASSUME NEW c \in Co, SwitchTo(c) PROVE ReportInv'
  <2>1. /\ UNCHANGED <<co, by_epoll, active_list, ep_loop>> /\ phase = "switch"
        /\ polls' = [polls EXCEPT ![c] = {}] /\ tree' = tree \ polls[c]
        /\ expired' = expired \ polls[c] /\ looked' = looked \ {c}
    BY <1>6 DEF SwitchTo, LeaveTree, flagVars
  <2>2. SeenInv'
    BY <1>0, <2>1 DEF SeenInv
  <2>3. ASSUME NEW d \in Co PROVE HonestInv(d)'
    <3>1. HonestInv(d)
      BY DEF ReportInv
    <3>2. polls'[d] = IF d = c THEN {} ELSE polls[d]
      BY <1>0, <2>1
    <3>3. d # c => polls[d] \cap polls[c] = {}
      BY <1>0 DEF FdInv
    <3> QED BY <2>1, <3>1, <3>2, <3>3 DEF HonestInv
  <2> QED BY <2>2, <2>3 DEF ReportInv
<1>7. ASSUME NEW c \in Co, NEW F \in SUBSET Fds, Poll(c, F) PROVE ReportInv'
  <2>1. /\ current = c /\ polls' = [polls EXCEPT ![c] = F]
        /\ co' = [f \in Fds |-> IF f \in F THEN c ELSE co[f]]
        /\ tree' = tree \cup F /\ expired' = expired \ F /\ by_epoll' = by_epoll \ F
        /\ looked' = looked /\ phase' = "switch"
        /\ active_list' = active_list \ {c} /\ ep_loop' = ep_loop \ {c}
    BY <1>7 DEF Poll, FreshFlags, ByEpollAfter
  <2>2. \A d \in Co : F \cap polls[d] = {}
    BY <1>7 DEF Poll, Allowed
  <2>3. phase = "run"
    BY <1>0, <2>1 DEF LoopInv
  <2>4. ASSUME NEW f \in by_epoll' \cap tree' PROVE co'[f] \in active_list'
    <3>1. f \in by_epoll /\ f \in tree /\ f \notin F /\ f \in Fds
      BY <1>0, <2>1
    <3>2. co'[f] = co[f] /\ co[f] \in active_list
      BY <1>0, <2>1, <3>1 DEF SeenInv
    <3>3. co[f] # c
      BY <2>1, <3>1, Owner
    <3> QED BY <2>1, <3>2, <3>3
  <2>5. ASSUME NEW d \in Co PROVE HonestInv(d)'
    <3>1. HonestInv(d)
      BY DEF ReportInv
    <3>2. polls'[d] = IF d = c THEN F ELSE polls[d]
      BY <1>0, <2>1
    <3>3. F \cap polls[d] = {}
      BY <2>2
    <3> QED BY <2>1, <2>3, <3>1, <3>2, <3>3 DEF HonestInv
  <2> QED BY <2>4, <2>5 DEF ReportInv, SeenInv
<1>8. ASSUME NEW c \in Co, Exit(c) PROVE ReportInv'
  <2>1. /\ SeenKept /\ HonestKept /\ looked' = looked /\ current = c
    BY <1>8 DEF Exit, fdVars, flagVars
  <2>2. phase = "run"
    BY <1>0, <2>1 DEF LoopInv
  <2>3. ASSUME NEW d \in Co PROVE HonestInv(d)'
    BY <2>1, <2>2 DEF ReportInv, HonestInv
  <2> QED BY <1>a, <2>1, <2>3 DEF ReportInv
<1>9. ASSUME NEW c \in Co, Expire(c) PROVE ReportInv'
  <2>1. /\ SeenKept /\ UNCHANGED <<polls, by_epoll, ep_loop, looked, phase>>
        /\ expired' = expired \cup polls[c]
    BY <1>9 DEF Expire, flagVars, loopVars
  <2>2. ASSUME NEW d \in Co PROVE HonestInv(d)'
    BY <2>1 DEF ReportInv, HonestInv
  <2> QED BY <1>a, <2>1, <2>2 DEF ReportInv
<1> QED
  BY <1>1, <1>2, <1>3, <1>4, <1>5, <1>6, <1>7, <1>8, <1>9 DEF Next, Loop

(* No event is invented: while a descriptor is polled, its by_epoll means   *)
(* that this very poll has been woken by it, never an earlier one.          *)
THEOREM NothingInvented == Spec => []ReportsOnlySeen
<1>1. PollInv /\ AllActive /\ ReportInv => ReportsOnlySeen
  <2> SUFFICES ASSUME PollInv, AllActive, ReportInv, NEW f \in by_epoll, f \in tree
               PROVE  co[f] \in ToSet(active)
    BY DEF ReportsOnlySeen
  <2>0. active \in Seq(Co)
    BY DEF PollInv, TypeOK
  <2>1. co[f] \in Co /\ polls[co[f]] # {} /\ co[f] \in active_list
    BY Owner DEF ReportInv, SeenInv
  <2>2. Times(co[f], active) = 1
    BY <2>1 DEF AllActive, ActiveInv
  <2>3. ~(\A i \in 1 .. Len(active) : active[i] # co[f])
    BY <2>0, <2>2, TimesZero
  <2>4. DOMAIN active = 1 .. Len(active)
    BY <2>0
  <2> QED BY <2>3, <2>4 DEF ToSet
<1>2. PollInv /\ AllActive /\ [Next]_vars => PollInv' /\ AllActive'
  BY PollStep
<1>3. PollInv /\ AllActive /\ ReportInv /\ [Next]_vars => ReportInv'
  BY ReportStep
<1> QED BY <1>1, <1>2, <1>3, PollInit, ActiveInit, ReportInit, PTL DEF Spec

LEMMA HonestStep ==
  ASSUME PollInv, AllActive, ReportInv, [Next]_vars, NEW c \in Co,
         polls[c] # {}, polls'[c] = {}, reported'[c] = {}
  PROVE  c \in looked /\ polls[c] \subseteq expired
<1>0. /\ active \in Seq(Co) /\ polls \in [Co -> SUBSET Fds]
      /\ reported \in [Co -> SUBSET Fds]
  BY DEF PollInv, TypeOK
<1>1. polls' # polls
  OBVIOUS
<1>2. (\E d \in Co : SwitchTo(d)) \/ \E d \in Co, F \in SUBSET Fds : Poll(d, F)
  BY <1>1 DEF Next, Loop, LoopTop, VisitTimeout, TimeoutsDone, EpollWait, VisitEvent, EventsDone,
              SwitchToLoop, Expire, Exit, Arrive, Consume, vars
<1>3. ASSUME NEW d \in Co, NEW F \in SUBSET Fds, Poll(d, F) PROVE FALSE
  <2>1. polls' = [polls EXCEPT ![d] = F] /\ F # {}
    BY <1>3 DEF Poll
  <2> QED BY <1>0, <2>1
<1>4. PICK d \in Co : SwitchTo(d)
  BY <1>2, <1>3
<1>5. /\ active # <<>> /\ d = Head(active) /\ phase = "switch"
      /\ polls' = [polls EXCEPT ![d] = {}]
      /\ reported' = [reported EXCEPT ![d] = polls[d] \cap by_epoll]
  BY <1>4 DEF SwitchTo, Result
<1>6. d = c
  BY <1>0, <1>5
<1>7. polls[c] \cap by_epoll = {}
  BY <1>0, <1>5, <1>6
<1>8. 1 \in 1 .. Len(active) /\ active[1] = c
  BY <1>0, <1>5, <1>6
<1>9. Times(c, active) # 0 /\ Times(c, active) \in Nat
  BY <1>0, <1>8, TimesZero, TimesType
<1>10. c \in active_list
  BY <1>9 DEF AllActive, ActiveInv
<1> QED BY <1>5, <1>7, <1>10 DEF ReportInv, HonestInv

(* A poll that comes back with nothing comes back because its time is over, *)
(* and after one more look of epoll_wait at its descriptors.                *)
THEOREM EmptyOnlyWhenOver == Spec => TimeoutHonest
<1> DEFINE Honest == \A c \in Co : polls[c] # {} /\ polls'[c] = {} /\ reported'[c] = {} =>
                         c \in looked /\ polls[c] \subseteq expired
<1>1. PollInv /\ AllActive /\ ReportInv /\ [Next]_vars => [Honest]_vars
  BY HonestStep
<1>2. PollInv /\ AllActive /\ [Next]_vars => PollInv' /\ AllActive'
  BY PollStep
<1>3. PollInv /\ AllActive /\ ReportInv /\ [Next]_vars => ReportInv'
  BY ReportStep
<1> QED BY <1>1, <1>2, <1>3, PollInit, ActiveInit, ReportInit, PTL DEF Spec, TimeoutHonest
=============================================================================
