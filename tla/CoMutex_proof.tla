---------------------------- MODULE CoMutex_proof ---------------------------
(* Theorems about the coroutine mutexes and conditions for every set of     *)
(* coroutines, mutexes and conditions.                                      *)
EXTENDS CoMutex, Occurrences

(***************************************************************************)
(* The inductive invariant, over values so that it can be stated of the    *)
(* moment inside an action when the caller is parked and the next          *)
(* coroutine is not chosen yet (cur = None).                               *)
(***************************************************************************)
TypeAt(cur, rdy, pcs, wnt, cl, wt, hd) ==
    /\ cur \in Co \cup {None}
    /\ rdy \in Seq(Co)
    /\ pcs \in [Co -> {"run", "lock", "cond", "relock", "exit", "ended"}]
    /\ wnt \in [Co -> Mutexes \cup {None}]
    /\ cl \in [Mutexes -> Seq(Co)]
    /\ wt \in [Conds -> Seq(Co)]
    /\ hd \in [Co -> SUBSET Mutexes]

HeadIs(c, m, cl) == cl[m] # <<>> /\ Head(cl[m]) = c

(* Ready coroutines are ready once and not at the processor; one that was   *)
(* waiting for a mutex is the head of its list.                             *)
ReadyAt(cur, rdy, pcs, wnt, cl) ==
    /\ \A i, j \in 1 .. Len(rdy) : rdy[i] = rdy[j] => i = j
    /\ \A i \in 1 .. Len(rdy) :
          /\ rdy[i] # cur
          /\ pcs[rdy[i]] \in {"run", "lock", "cond"}
          /\ pcs[rdy[i]] = "lock" => HeadIs(rdy[i], wnt[rdy[i]], cl)

(* Behind the head of a mutex stand, once, coroutines that wait for it.     *)
LineAt(pcs, wnt, cl) ==
    \A m \in Mutexes :
        /\ \A i, j \in 1 .. Len(cl[m]) : cl[m][i] = cl[m][j] => i = j
        /\ \A i \in 2 .. Len(cl[m]) : pcs[cl[m][i]] = "lock" /\ wnt[cl[m][i]] = m

(* At a condition are, once, coroutines that wait there and are not ready.  *)
CondAt(rdy, pcs, wt) ==
    /\ \A v \in Conds : \A i \in 1 .. Len(wt[v]) :
          pcs[wt[v][i]] = "cond" /\ \A k \in 1 .. Len(rdy) : rdy[k] # wt[v][i]
    /\ \A u, v \in Conds : \A i \in 1 .. Len(wt[u]), j \in 1 .. Len(wt[v]) :
          wt[u][i] = wt[v][j] => u = v /\ i = j

(* Who runs is not waiting, and who waits, or is about to lock again after  *)
(* a condition, names a mutex.                                              *)
RunAt(cur, pcs, wnt) ==
    /\ cur # None => pcs[cur] \in {"run", "relock", "exit"}
    /\ \A c \in Co : pcs[c] \in {"lock", "cond", "relock"} => wnt[c] \in Mutexes

HoldAt(cl, hd) == \A c \in Co : \A m \in hd[c] : HeadIs(c, m, cl)

InvAt(cur, rdy, pcs, wnt, cl, wt, hd) ==
    /\ TypeAt(cur, rdy, pcs, wnt, cl, wt, hd)
    /\ ReadyAt(cur, rdy, pcs, wnt, cl)
    /\ LineAt(pcs, wnt, cl)
    /\ CondAt(rdy, pcs, wt)
    /\ RunAt(cur, pcs, wnt)
    /\ HoldAt(cl, hd)

ListType == mutex_list \in [Co -> Seq(Mutexes)]

IInv == InvAt(current, ready, pc, want, colist, waiters, holds) /\ ListType

LEMMA InvInit == Init => IInv
<1> SUFFICES ASSUME Init PROVE IInv
  OBVIOUS
<1>1. Cardinality(Co) \in Nat
  BY MutexAssumption, FS_CardinalityType
<1>2. /\ ready \in [1 .. Cardinality(Co) -> Co]
      /\ \A i, j \in 1 .. Cardinality(Co) : i # j => ready[i] # ready[j]
  BY DEF Init, SetToSeqs
<1>3. ready \in Seq(Co) /\ Len(ready) = Cardinality(Co)
  BY <1>1, <1>2
<1> USE MutexAssumption DEF Init
<1>4. TypeAt(current, ready, pc, want, colist, waiters, holds) /\ ListType
  BY <1>3 DEF TypeAt, ListType
<1>5. ReadyAt(current, ready, pc, want, colist)
  BY <1>2, <1>3 DEF ReadyAt
<1>6. LineAt(pc, want, colist)
  BY DEF LineAt
<1>7. CondAt(ready, pc, waiters) /\ RunAt(current, pc, want) /\ HoldAt(colist, holds)
  BY DEF CondAt, RunAt, HoldAt
<1> QED
  BY <1>4, <1>5, <1>6, <1>7 DEF IInv, InvAt

(* zcoroutine_yield_my: once the caller is parked rightly, the switch keeps *)
(* the invariant.                                                           *)
LEMMA SwitchInv ==
  ASSUME NEW rdy, NEW pcs, NEW held,
         InvAt(None, rdy, pcs, want', colist', waiters', held),
         Switch(rdy, pcs, held),
         rdy # <<>> => want'[Head(rdy)] = want[Head(rdy)]
  PROVE  InvAt(current', ready', pc', want', colist', waiters', holds')
<1> USE MutexAssumption DEF InvAt
<1>1. CASE rdy = <<>>
  <2>1. current' = None /\ ready' = rdy /\ pc' = pcs /\ holds' = held
    BY <1>1 DEF Switch
  <2> QED BY <2>1
<1>2. CASE rdy # <<>>
  <2> DEFINE d == Head(rdy)
  <2>0. /\ rdy \in Seq(Co) /\ pcs \in [Co -> {"run", "lock", "cond", "relock", "exit", "ended"}]
        /\ held \in [Co -> SUBSET Mutexes] /\ want' \in [Co -> Mutexes \cup {None}]
    BY DEF TypeAt
  <2>1. /\ current' = d /\ ready' = Tail(rdy)
        /\ pc' = [pcs EXCEPT ![d] = IF pcs[d] = "cond" THEN "relock" ELSE "run"]
        /\ holds' = IF pcs[d] = "lock" THEN [held EXCEPT ![d] = held[d] \cup {want[d]}] ELSE held
    BY <1>2, <2>0 DEF Switch
  <2>2. d \in Co /\ d = rdy[1] /\ Len(rdy) \in Nat \ {0} /\ Tail(rdy) \in Seq(Co)
        /\ Len(Tail(rdy)) = Len(rdy) - 1
        /\ \A i \in 1 .. Len(Tail(rdy)) : Tail(rdy)[i] = rdy[i + 1]
    BY <1>2, <2>0
  <2>3. \A i \in 1 .. Len(Tail(rdy)) : Tail(rdy)[i] # d
    BY <2>2 DEF ReadyAt
  <2>4. pcs[d] = "lock" => HeadIs(d, want'[d], colist') /\ want'[d] \in Mutexes
    BY <2>2 DEF ReadyAt, RunAt
  <2>5. want'[d] = want[d]
    BY <1>2
  <2>6. TypeAt(current', ready', pc', want', colist', waiters', holds')
    BY <2>0, <2>1, <2>2, <2>4, <2>5 DEF TypeAt
  <2>7. ReadyAt(current', ready', pc', want', colist')
    BY <2>0, <2>1, <2>2, <2>3 DEF ReadyAt
  <2>8. \A m \in Mutexes : \A i \in 2 .. Len(colist'[m]) : colist'[m][i] # d
    <3> SUFFICES ASSUME NEW m \in Mutexes, NEW i \in 2 .. Len(colist'[m]), colist'[m][i] = d
                 PROVE FALSE
      OBVIOUS
    <3>1. pcs[d] = "lock" /\ want'[d] = m
      BY DEF LineAt
    <3>2. colist'[m] \in Seq(Co) /\ Head(colist'[m]) = d /\ colist'[m] # <<>>
      BY <3>1, <2>4 DEF TypeAt, HeadIs
    <3>3. colist'[m][1] = d /\ 1 \in 1 .. Len(colist'[m]) /\ i \in 1 .. Len(colist'[m])
      BY <3>2
    <3> QED BY <3>3 DEF LineAt
  <2>9. LineAt(pc', want', colist')
    <3>1. \A m \in Mutexes : \A i \in 2 .. Len(colist'[m]) : colist'[m][i] \in Co
      BY DEF TypeAt
    <3> QED BY <2>0, <2>1, <2>2, <2>8, <3>1 DEF LineAt
  <2>10. CondAt(ready', pc', waiters')
    <3>1. \A v \in Conds : \A i \in 1 .. Len(waiters'[v]) : waiters'[v][i] \in Co /\ waiters'[v][i] # d
      BY <2>2 DEF TypeAt, CondAt
    <3>2. \A v \in Conds : \A i \in 1 .. Len(waiters'[v]) : pc'[waiters'[v][i]] = "cond"
      BY <2>0, <2>1, <2>2, <3>1 DEF CondAt
    <3>3. \A k \in 1 .. Len(ready') : k + 1 \in 1 .. Len(rdy) /\ ready'[k] = rdy[k + 1]
      BY <2>1, <2>2
    <3>4. \A v \in Conds : \A i \in 1 .. Len(waiters'[v]) :
             \A k \in 1 .. Len(ready') : ready'[k] # waiters'[v][i]
      BY <3>3 DEF CondAt
    <3> QED BY <3>2, <3>4 DEF CondAt
  <2>11. RunAt(current', pc', want')
    BY <2>0, <2>1, <2>2 DEF RunAt
  <2>12. HoldAt(colist', holds')
    BY <2>0, <2>1, <2>2, <2>4, <2>5 DEF HoldAt
  <2> QED
    BY <2>6, <2>7, <2>9, <2>10, <2>11, <2>12
<1> QED BY <1>1, <1>2

(* zcoroutine_mutex_lock that takes the mutex at once.                      *)
LEMMA LockNowInv ==
  ASSUME IInv, NEW c \in Co, NEW m \in Mutexes, current = c,
         pc[c] \in {"run", "relock"}, LockNow(c, m)
  PROVE  IInv'
<1> USE MutexAssumption DEF IInv, InvAt
<1>0. /\ ready \in Seq(Co) /\ colist \in [Mutexes -> Seq(Co)]
      /\ pc \in [Co -> {"run", "lock", "cond", "relock", "exit", "ended"}]
      /\ holds \in [Co -> SUBSET Mutexes] /\ want \in [Co -> Mutexes \cup {None}]
  BY DEF TypeAt
<1>1. /\ colist' = IF colist[m] = <<>> THEN [colist EXCEPT ![m] = <<c>>] ELSE colist
      /\ holds' = [holds EXCEPT ![c] = holds[c] \cup {m}]
      /\ pc' = [pc EXCEPT ![c] = "run"]
      /\ UNCHANGED <<current, ready, want, waiters>>
      /\ colist[m] = <<>> \/ HeadIs(c, m, colist)
  BY DEF LockNow, Owns, HeadIs
<1>2. /\ colist' \in [Mutexes -> Seq(Co)] /\ HeadIs(c, m, colist')
      /\ \A n \in Mutexes : n # m \/ colist[m] # <<>> => colist'[n] = colist[n]
      /\ colist[m] = <<>> => colist'[m] = <<c>>
  BY <1>0, <1>1 DEF HeadIs
<1>3. TypeAt(current', ready', pc', want', colist', waiters', holds')
  BY <1>0, <1>1, <1>2 DEF TypeAt
<1>4. ListType'
  BY DEF ListType, LockNow, AppendMutex
<1>5. \A n \in Mutexes : \A d \in Co : HeadIs(d, n, colist) => HeadIs(d, n, colist')
  BY <1>2 DEF HeadIs
<1>6. ReadyAt(current', ready', pc', want', colist')
  <2>1. \A i \in 1 .. Len(ready) : ready[i] \in Co /\ pc'[ready[i]] = pc[ready[i]]
    BY <1>0, <1>1 DEF ReadyAt
  <2>2. \A i \in 1 .. Len(ready) : pc[ready[i]] = "lock" => want[ready[i]] \in Mutexes
    BY <1>0, <2>1 DEF RunAt
  <2> QED BY <1>1, <1>5, <2>1, <2>2 DEF ReadyAt
<1>7. LineAt(pc', want', colist')
  <2> SUFFICES ASSUME NEW n \in Mutexes
               PROVE /\ \A i, j \in 1 .. Len(colist'[n]) : colist'[n][i] = colist'[n][j] => i = j
                     /\ \A i \in 2 .. Len(colist'[n]) : pc'[colist'[n][i]] = "lock" /\ want'[colist'[n][i]] = n
    BY DEF LineAt
  <2>1. CASE colist'[n] = colist[n]
    <3>1. \A i \in 2 .. Len(colist[n]) : colist[n][i] \in Co /\ colist[n][i] # c
      BY <1>0 DEF LineAt
    <3> QED BY <1>0, <1>1, <2>1, <3>1 DEF LineAt
  <2>2. CASE colist'[n] = <<c>>
    BY <2>2
  <2> QED BY <1>2, <2>1, <2>2
<1>8. CondAt(ready', pc', waiters')
  <2>1. \A v \in Conds : \A i \in 1 .. Len(waiters[v]) : waiters[v][i] \in Co /\ waiters[v][i] # c
    BY DEF TypeAt, CondAt
  <2> QED BY <1>0, <1>1, <2>1 DEF CondAt
<1>9. RunAt(current', pc', want')
  BY <1>0, <1>1 DEF RunAt
<1>10. HoldAt(colist', holds')
  BY <1>0, <1>1, <1>2, <1>5 DEF HoldAt
<1> QED BY <1>3, <1>4, <1>6, <1>7, <1>8, <1>9, <1>10

(* zcoroutine_mutex_lock that queues up behind the owner.                   *)
LEMMA LockWaitInv ==
  ASSUME IInv, NEW c \in Co, NEW m \in Mutexes, current = c,
         pc[c] \in {"run", "relock"}, LockWait(c, m)
  PROVE  IInv'
<1> USE MutexAssumption DEF IInv, InvAt
<1> DEFINE pcs == [pc EXCEPT ![c] = "lock"]
<1>0. /\ ready \in Seq(Co) /\ colist \in [Mutexes -> Seq(Co)]
      /\ pc \in [Co -> {"run", "lock", "cond", "relock", "exit", "ended"}]
      /\ holds \in [Co -> SUBSET Mutexes] /\ want \in [Co -> Mutexes \cup {None}]
  BY DEF TypeAt
<1>1. /\ colist' = [colist EXCEPT ![m] = Append(colist[m], c)]
      /\ want' = [want EXCEPT ![c] = m]
      /\ Switch(ready, pcs, holds)
      /\ UNCHANGED <<waiters, mutex_list>>
      /\ colist[m] # <<>> /\ ~HeadIs(c, m, colist)
  BY DEF LockWait, Owns, HeadIs
<1>2. \A i \in 1 .. Len(ready) : ready[i] \in Co /\ ready[i] # c
  BY <1>0 DEF ReadyAt
<1>3. \A n \in Mutexes : \A d \in Co : HeadIs(d, n, colist) => HeadIs(d, n, colist')
  <2>1. colist[m] \in Seq(Co) /\ colist'[m] = Append(colist[m], c)
        /\ \A n \in Mutexes : n # m => colist'[n] = colist[n]
    BY <1>0, <1>1
  <2>2. colist'[m] # <<>> /\ Head(colist'[m]) = Head(colist[m])
    BY <1>1, <2>1
  <2> QED BY <2>1, <2>2 DEF HeadIs
<1>4. TypeAt(None, ready, pcs, want', colist', waiters', holds)
  BY <1>0, <1>1 DEF TypeAt
<1>5. ReadyAt(None, ready, pcs, want', colist')
  <2>1. \A i \in 1 .. Len(ready) : /\ pcs[ready[i]] = pc[ready[i]] /\ want'[ready[i]] = want[ready[i]]
                                   /\ pc[ready[i]] = "lock" => want[ready[i]] \in Mutexes
    BY <1>0, <1>1, <1>2 DEF RunAt
  <2> QED BY <1>2, <1>3, <2>1 DEF ReadyAt
<1>6. LineAt(pcs, want', colist')
  <2> SUFFICES ASSUME NEW n \in Mutexes
               PROVE /\ \A i, j \in 1 .. Len(colist'[n]) : colist'[n][i] = colist'[n][j] => i = j
                     /\ \A i \in 2 .. Len(colist'[n]) : pcs[colist'[n][i]] = "lock" /\ want'[colist'[n][i]] = n
    BY DEF LineAt
  <2>1. \A i \in 2 .. Len(colist[n]) : colist[n][i] \in Co /\ colist[n][i] # c
    BY <1>0 DEF LineAt
  <2>2. \A i \in 2 .. Len(colist[n]) : pcs[colist[n][i]] = "lock" /\ want'[colist[n][i]] = n
    BY <1>0, <1>1, <2>1 DEF LineAt
  <2>3. CASE n # m
    BY <1>0, <1>1, <2>2, <2>3 DEF LineAt
  <2>4. CASE n = m
    <3>1. /\ Len(colist'[n]) = Len(colist[n]) + 1 /\ colist'[n][Len(colist[n]) + 1] = c
          /\ \A i \in 1 .. Len(colist[n]) : colist'[n][i] = colist[n][i]
          /\ Len(colist[n]) \in Nat \ {0}
      BY <1>0, <1>1, <2>4
    <3>2. \A i \in 1 .. Len(colist[n]) : colist[n][i] # c
      BY <1>0, <1>1, <2>1, <2>4 DEF HeadIs
    <3>3. \A i \in 2 .. Len(colist'[n]) : pcs[colist'[n][i]] = "lock" /\ want'[colist'[n][i]] = n
      BY <1>0, <1>1, <2>2, <2>4, <3>1
    <3>4. \A i, j \in 1 .. Len(colist'[n]) : colist'[n][i] = colist'[n][j] => i = j
      BY <3>1, <3>2 DEF LineAt
    <3> QED BY <3>3, <3>4
  <2> QED BY <2>3, <2>4
<1>7. CondAt(ready, pcs, waiters')
  <2>1. \A v \in Conds : \A i \in 1 .. Len(waiters[v]) : waiters[v][i] \in Co /\ waiters[v][i] # c
    BY DEF TypeAt, CondAt
  <2> QED BY <1>0, <1>1, <2>1 DEF CondAt
<1>8. RunAt(None, pcs, want')
  BY <1>0, <1>1 DEF RunAt
<1>9. HoldAt(colist', holds)
  BY <1>0, <1>3 DEF HoldAt
<1>10. ready # <<>> => want'[Head(ready)] = want[Head(ready)]
  BY <1>0, <1>1, <1>2
<1>11. InvAt(None, ready, pcs, want', colist', waiters', holds)
  BY <1>4, <1>5, <1>6, <1>7, <1>8, <1>9
<1>12. InvAt(current', ready', pc', want', colist', waiters', holds')
  BY <1>1, <1>10, <1>11, SwitchInv
<1>13. ListType'
  BY <1>1 DEF ListType
<1> QED BY <1>12, <1>13

(* zcoroutine_mutex_unlock by the owner: the lists, not yet mutex_list.     *)
LEMMA HandoverInv ==
  ASSUME IInv, NEW c \in Co, NEW m \in Mutexes, current = c,
         pc[c] \in {"run", "exit"}, Owns(c, m)
  PROVE  InvAt(c, Handover(m), pc, want, [colist EXCEPT ![m] = Tail(colist[m])],
               waiters, UnlockedBy(c, m))
<1> USE MutexAssumption DEF IInv, InvAt
<1> DEFINE cl == [colist EXCEPT ![m] = Tail(colist[m])]
           rdy == Handover(m)
           hd == UnlockedBy(c, m)
<1>0. /\ ready \in Seq(Co) /\ colist \in [Mutexes -> Seq(Co)]
      /\ pc \in [Co -> {"run", "lock", "cond", "relock", "exit", "ended"}]
      /\ holds \in [Co -> SUBSET Mutexes] /\ want \in [Co -> Mutexes \cup {None}]
  BY DEF TypeAt
<1>1. /\ colist[m] # <<>> /\ colist[m] \in Seq(Co) /\ Len(colist[m]) \in Nat \ {0}
      /\ colist[m][1] = c /\ Head(colist[m]) = c
      /\ Tail(colist[m]) \in Seq(Co) /\ Len(Tail(colist[m])) = Len(colist[m]) - 1
      /\ \A i \in 1 .. Len(Tail(colist[m])) : Tail(colist[m])[i] = colist[m][i + 1]
  BY <1>0 DEF Owns
<1>2. cl \in [Mutexes -> Seq(Co)] /\ \A n \in Mutexes : n # m => cl[n] = colist[n]
  BY <1>0, <1>1
<1>3. cl[m] = Tail(colist[m])
  BY <1>0
<1>4. hd \in [Co -> SUBSET Mutexes] /\ hd[c] = holds[c] \ {m}
      /\ \A d \in Co : d # c => hd[d] = holds[d]
  BY <1>0 DEF UnlockedBy
<1>5. \A d \in Co, n \in Mutexes : HeadIs(d, n, colist) /\ (d # c \/ n # m) => HeadIs(d, n, cl)
  BY <1>1, <1>2 DEF HeadIs
<1>6. HoldAt(cl, hd)
  <2>1. \A d \in Co : m \notin hd[d]
    BY <1>1, <1>4 DEF HoldAt, HeadIs
  <2> QED BY <1>4, <1>5, <2>1 DEF HoldAt
<1>7. LineAt(pc, want, cl)
  <2> SUFFICES ASSUME NEW n \in Mutexes
               PROVE /\ \A i, j \in 1 .. Len(cl[n]) : cl[n][i] = cl[n][j] => i = j
                     /\ \A i \in 2 .. Len(cl[n]) : pc[cl[n][i]] = "lock" /\ want[cl[n][i]] = n
    BY DEF LineAt
  <2>1. CASE n # m
    BY <1>2, <2>1 DEF LineAt
  <2>2. CASE n = m
    <3>0. cl[n] = Tail(colist[n]) /\ n = m
      BY <1>3, <2>2
    <3>1. \A i \in 1 .. Len(cl[n]) : i + 1 \in 2 .. Len(colist[n]) /\ cl[n][i] = colist[n][i + 1]
      <4> HIDE DEF cl
      <4> QED BY <1>1, <3>0
    <3>2. \A i \in 2 .. Len(cl[n]) : i \in 1 .. Len(cl[n])
      BY <1>1, <1>3, <2>2
    <3>3. \A i \in 2 .. Len(colist[n]) : i \in 1 .. Len(colist[n])
      BY <1>1, <2>2
    <3>4. \A i, j \in 1 .. Len(cl[n]) : cl[n][i] = cl[n][j] => i + 1 = j + 1
      BY <3>1, <3>3 DEF LineAt
    <3> HIDE DEF cl
    <3> QED BY <3>1, <3>2, <3>4 DEF LineAt
  <2> QED BY <2>1, <2>2
<1>8. RunAt(c, pc, want)
  BY DEF RunAt
<1>9. CASE Len(colist[m]) = 1
  <2>1. Tail(colist[m]) = <<>> /\ rdy = ready
    BY <1>1, <1>9 DEF Handover
  <2>2. TypeAt(c, rdy, pc, want, cl, waiters, hd)
    BY <1>2, <1>4, <2>1 DEF TypeAt
  <2>3. ReadyAt(c, rdy, pc, want, cl)
    <3>1. \A i \in 1 .. Len(ready) : ready[i] \in Co /\ (pc[ready[i]] = "lock" => want[ready[i]] \in Mutexes)
      BY <1>0 DEF RunAt
    <3> HIDE DEF cl
    <3> QED BY <1>5, <2>1, <3>1 DEF ReadyAt
  <2>4. CondAt(rdy, pc, waiters)
    BY <2>1
  <2> QED BY <1>6, <1>7, <1>8, <2>2, <2>3, <2>4
<1>10. CASE Len(colist[m]) # 1
  <2> DEFINE d == colist[m][2]
  <2>1. /\ Tail(colist[m]) # <<>> /\ Head(Tail(colist[m])) = d /\ d \in Co
        /\ 2 \in 2 .. Len(colist[m])
    <3>0. \A k \in Nat \ {0} : k # 1 => 2 \in 2 .. k /\ 1 \in 1 .. (k - 1) /\ 2 \in 1 .. k
      OBVIOUS
    <3>1. 2 \in 2 .. Len(colist[m]) /\ 1 \in 1 .. Len(Tail(colist[m])) /\ 2 \in 1 .. Len(colist[m])
      BY <1>1, <1>10, <3>0
    <3>2. Tail(colist[m])[1] = colist[m][1 + 1] /\ d \in Co
      BY <1>1, <3>1
    <3>3. \A t \in Seq(Co) : 1 \in 1 .. Len(t) => t # <<>> /\ Head(t) = t[1]
      OBVIOUS
    <3>4. Tail(colist[m]) # <<>> /\ Head(Tail(colist[m])) = Tail(colist[m])[1]
      BY <1>1, <3>1, <3>3
    <3> QED BY <3>1, <3>2, <3>4
  <2>2. rdy = Append(ready, d)
    BY <2>1 DEF Handover
  <2>3. pc[d] = "lock" /\ want[d] = m /\ d # c
    BY <2>1 DEF LineAt
  <2>4. HeadIs(d, m, cl)
    BY <1>3, <2>1 DEF HeadIs
  <2>5. \A i \in 1 .. Len(ready) : ready[i] \in Co /\ ready[i] # d
    <3> SUFFICES ASSUME NEW i \in 1 .. Len(ready), ready[i] = d PROVE FALSE
      BY <1>0
    <3>1. Head(colist[m]) = d
      BY <2>3 DEF ReadyAt, HeadIs
    <3> QED BY <1>1, <2>3, <3>1
  <2>6. /\ rdy \in Seq(Co) /\ Len(rdy) = Len(ready) + 1 /\ rdy[Len(ready) + 1] = d
        /\ \A i \in 1 .. Len(ready) : rdy[i] = ready[i]
        /\ Len(ready) \in Nat
    BY <1>0, <2>1, <2>2
  <2>7. TypeAt(c, rdy, pc, want, cl, waiters, hd)
    BY <1>2, <1>4, <2>6 DEF TypeAt
  <2>8. ReadyAt(c, rdy, pc, want, cl)
    <3>1. \A i \in 1 .. Len(ready) : ready[i] \in Co /\ (pc[ready[i]] = "lock" => want[ready[i]] \in Mutexes)
      BY <1>0 DEF RunAt
    <3> HIDE DEF cl, rdy, d
    <3>2. \A i, j \in 1 .. Len(rdy) : rdy[i] = rdy[j] => i = j
      BY <2>5, <2>6 DEF ReadyAt
    <3>3. \A i \in 1 .. Len(ready) : /\ ready[i] # c /\ pc[ready[i]] \in {"run", "lock", "cond"}
                                     /\ pc[ready[i]] = "lock" => HeadIs(ready[i], want[ready[i]], cl)
      BY <1>5, <3>1 DEF ReadyAt
    <3>4. \A i \in 1 .. Len(rdy) : i \in 1 .. Len(ready) \/ rdy[i] = d
      BY <2>6
    <3>5. \A i \in 1 .. Len(rdy) : /\ rdy[i] # c /\ pc[rdy[i]] \in {"run", "lock", "cond"}
                                   /\ pc[rdy[i]] = "lock" => HeadIs(rdy[i], want[rdy[i]], cl)
      BY <2>3, <2>4, <2>6, <3>3, <3>4
    <3> QED BY <3>2, <3>5 DEF ReadyAt
  <2>9. CondAt(rdy, pc, waiters)
    <3> HIDE DEF rdy, d
    <3>1. \A v \in Conds : \A i \in 1 .. Len(waiters[v]) : waiters[v][i] # d
      BY <2>3 DEF CondAt
    <3>2. \A k \in 1 .. Len(rdy) : k \in 1 .. Len(ready) \/ rdy[k] = d
      BY <2>6
    <3> QED BY <2>6, <3>1, <3>2 DEF CondAt
  <2> QED BY <1>6, <1>7, <1>8, <2>7, <2>8, <2>9
<1> QED BY <1>9, <1>10

(* A running coroutine that goes to the end of the ready list.              *)
LEMMA RequeueInv ==
  ASSUME NEW c \in Co, NEW rdy, NEW wt, pc[c] = "run",
         InvAt(c, rdy, pc, want, colist, wt, holds)
  PROVE  InvAt(None, Append(rdy, c), pc, want, colist, wt, holds)
<1> USE MutexAssumption DEF InvAt
<1> DEFINE r == Append(rdy, c)
<1>1. rdy \in Seq(Co)
  BY DEF TypeAt
<1>2. /\ r \in Seq(Co) /\ Len(r) = Len(rdy) + 1 /\ r[Len(rdy) + 1] = c
      /\ \A i \in 1 .. Len(rdy) : r[i] = rdy[i]
      /\ Len(rdy) \in Nat
  BY <1>1
<1>3. \A i \in 1 .. Len(r) : r[i] \in Co /\ (i \in 1 .. Len(rdy) \/ r[i] = c)
  BY <1>2
<1> HIDE DEF r
<1>4. TypeAt(None, r, pc, want, colist, wt, holds)
  BY <1>2 DEF TypeAt
<1>5. ReadyAt(None, r, pc, want, colist)
  <2>1. \A i, j \in 1 .. Len(r) : r[i] = r[j] => i = j
    BY <1>2, <1>3 DEF ReadyAt
  <2> QED BY <1>2, <1>3, <2>1 DEF ReadyAt
<1>6. CondAt(r, pc, wt)
  <2>1. \A v \in Conds : \A i \in 1 .. Len(wt[v]) : wt[v][i] # c
    BY DEF CondAt
  <2> QED BY <1>2, <1>3, <2>1, SMTT(30) DEF CondAt
<1>7. RunAt(None, pc, want)
  BY DEF RunAt
<1> QED BY <1>4, <1>5, <1>6, <1>7 DEF r

(* A running coroutine that is parked at a condition.                       *)
LEMMA CondParkInv ==
  ASSUME NEW c \in Co, NEW v \in Conds, NEW m \in Mutexes, pc[c] = "run",
         NEW rdy, NEW cl, NEW hd, InvAt(c, rdy, pc, want, cl, waiters, hd)
  PROVE  InvAt(None, rdy, [pc EXCEPT ![c] = "cond"], [want EXCEPT ![c] = m], cl,
               [waiters EXCEPT ![v] = Append(waiters[v], c)], hd)
<1> USE MutexAssumption DEF InvAt
<1> DEFINE pcs == [pc EXCEPT ![c] = "cond"]
           wnt == [want EXCEPT ![c] = m]
           wt  == [waiters EXCEPT ![v] = Append(waiters[v], c)]
<1>0. /\ rdy \in Seq(Co) /\ cl \in [Mutexes -> Seq(Co)] /\ waiters \in [Conds -> Seq(Co)]
      /\ pc \in [Co -> {"run", "lock", "cond", "relock", "exit", "ended"}]
      /\ want \in [Co -> Mutexes \cup {None}]
  BY DEF TypeAt
<1>1. /\ pcs \in [Co -> {"run", "lock", "cond", "relock", "exit", "ended"}]
      /\ wnt \in [Co -> Mutexes \cup {None}] /\ wt \in [Conds -> Seq(Co)]
      /\ pcs[c] = "cond" /\ wnt[c] = m
      /\ \A d \in Co : d # c => pcs[d] = pc[d] /\ wnt[d] = want[d]
  BY <1>0
<1>2. /\ \A u \in Conds : u # v => wt[u] = waiters[u]
      /\ wt[v] = Append(waiters[v], c)
  BY <1>0
<1>3. \A u \in Conds : \A i \in 1 .. Len(wt[u]) :
         \/ i \in 1 .. Len(waiters[u]) /\ wt[u][i] = waiters[u][i]
         \/ u = v /\ i = Len(waiters[v]) + 1 /\ wt[u][i] = c
  <2>1. ASSUME NEW t \in Seq(Co), NEW i \in 1 .. Len(Append(t, c))
        PROVE  \/ i \in 1 .. Len(t) /\ Append(t, c)[i] = t[i]
               \/ i = Len(t) + 1 /\ Append(t, c)[i] = c
    <3>1. Len(Append(t, c)) = Len(t) + 1 /\ Len(t) \in Nat
      OBVIOUS
    <3>2. i \in 1 .. Len(t) \/ i = Len(t) + 1
      BY <3>1
    <3> QED BY <3>2
  <2> HIDE DEF wt
  <2>3. waiters[v] \in Seq(Co) /\ wt[v] = Append(waiters[v], c)
    BY <1>0, <1>2
  <2>4. \A i \in 1 .. Len(wt[v]) :
           \/ i \in 1 .. Len(waiters[v]) /\ wt[v][i] = waiters[v][i]
           \/ i = Len(waiters[v]) + 1 /\ wt[v][i] = c
    BY <2>1, <2>3
  <2>5. \A u \in Conds : u # v => \A i \in 1 .. Len(wt[u]) :
           i \in 1 .. Len(waiters[u]) /\ wt[u][i] = waiters[u][i]
    BY <1>2
  <2> TAKE u \in Conds
  <2>6. CASE u = v
    BY <2>4, <2>6
  <2>7. CASE u # v
    BY <2>5, <2>7
  <2> QED BY <2>6, <2>7
<1>4. \A u \in Conds : \A i \in 1 .. Len(waiters[u]) : waiters[u][i] \in Co /\ waiters[u][i] # c
  BY <1>0 DEF CondAt
<1>5. \A i \in 1 .. Len(rdy) : rdy[i] \in Co /\ rdy[i] # c
  BY <1>0 DEF ReadyAt
<1> HIDE DEF pcs, wnt, wt
<1>6. TypeAt(None, rdy, pcs, wnt, cl, wt, hd)
  BY <1>1 DEF TypeAt
<1>7. ReadyAt(None, rdy, pcs, wnt, cl)
  BY <1>1, <1>5 DEF ReadyAt
<1>8. LineAt(pcs, wnt, cl)
  <2>1. \A n \in Mutexes : \A i \in 2 .. Len(cl[n]) : cl[n][i] \in Co /\ cl[n][i] # c
    BY <1>0 DEF LineAt
  <2>2. ASSUME NEW n \in Mutexes, NEW i \in 2 .. Len(cl[n])
        PROVE  pcs[cl[n][i]] = "lock" /\ wnt[cl[n][i]] = n
    <3>1. cl[n][i] \in Co /\ cl[n][i] # c
      BY <2>1
    <3>2. pcs[cl[n][i]] = pc[cl[n][i]] /\ wnt[cl[n][i]] = want[cl[n][i]]
      BY <1>1, <3>1
    <3>3. pc[cl[n][i]] = "lock" /\ want[cl[n][i]] = n
      BY DEF LineAt
    <3> QED BY <3>2, <3>3
  <2>3. ASSUME NEW n \in Mutexes
        PROVE  \A i, j \in 1 .. Len(cl[n]) : cl[n][i] = cl[n][j] => i = j
    BY DEF LineAt
  <2> QED BY <2>2, <2>3 DEF LineAt
<1>9. CondAt(rdy, pcs, wt)
  <2>1. \A u \in Conds : \A i \in 1 .. Len(wt[u]) :
           pcs[wt[u][i]] = "cond" /\ \A k \in 1 .. Len(rdy) : rdy[k] # wt[u][i]
    <3> TAKE u \in Conds
    <3> TAKE i \in 1 .. Len(wt[u])
    <3>1. CASE i \in 1 .. Len(waiters[u]) /\ wt[u][i] = waiters[u][i]
      BY <1>1, <1>4, <3>1 DEF CondAt
    <3>2. CASE wt[u][i] = c
      BY <1>1, <1>5, <3>2
    <3> QED BY <1>3, <3>1, <3>2
  <2>2. \A u, w \in Conds : \A i \in 1 .. Len(wt[u]), j \in 1 .. Len(wt[w]) :
           wt[u][i] = wt[w][j] => u = w /\ i = j
    <3>0. \A u, w \in Conds : \A i \in 1 .. Len(waiters[u]), j \in 1 .. Len(waiters[w]) :
             waiters[u][i] = waiters[w][j] => u = w /\ i = j
      BY Zenon DEF CondAt
    <3> TAKE u, w \in Conds
    <3> TAKE i \in 1 .. Len(wt[u]), j \in 1 .. Len(wt[w])
    <3> HAVE wt[u][i] = wt[w][j]
    <3>1. \/ i \in 1 .. Len(waiters[u]) /\ wt[u][i] = waiters[u][i]
          \/ u = v /\ i = Len(waiters[v]) + 1 /\ wt[u][i] = c
      BY <1>3
    <3>2. \/ j \in 1 .. Len(waiters[w]) /\ wt[w][j] = waiters[w][j]
          \/ w = v /\ j = Len(waiters[v]) + 1 /\ wt[w][j] = c
      BY <1>3
    <3>3. CASE /\ i \in 1 .. Len(waiters[u]) /\ wt[u][i] = waiters[u][i]
               /\ j \in 1 .. Len(waiters[w]) /\ wt[w][j] = waiters[w][j]
      <4>1. waiters[u][i] = waiters[w][j]
        BY <3>3
      <4> QED BY <3>0, <3>3, <4>1
    <3> QED BY <1>4, <3>1, <3>2, <3>3
  <2> QED BY <2>1, <2>2 DEF CondAt
<1>10. RunAt(None, pcs, wnt)
  BY <1>1 DEF RunAt
<1> QED BY <1>6, <1>7, <1>8, <1>9, <1>10 DEF pcs, wnt, wt

(* zcoroutine_cond_signal: the first waiter becomes ready.                  *)
LEMMA SignalInv ==
  ASSUME IInv, NEW c \in Co, NEW v \in Conds, current = c, pc[c] = "run", waiters[v] # <<>>
  PROVE  InvAt(c, Append(ready, Head(waiters[v])), pc, want, colist,
               [waiters EXCEPT ![v] = Tail(waiters[v])], holds)
<1> USE MutexAssumption DEF IInv, InvAt
<1> DEFINE d == Head(waiters[v])
           r == Append(ready, d)
           wt == [waiters EXCEPT ![v] = Tail(waiters[v])]
<1>0. ready \in Seq(Co) /\ waiters \in [Conds -> Seq(Co)]
  BY DEF TypeAt
<1>1. /\ d = waiters[v][1] /\ d \in Co /\ 1 \in 1 .. Len(waiters[v])
      /\ Tail(waiters[v]) \in Seq(Co)
      /\ Len(waiters[v]) \in Nat /\ Len(Tail(waiters[v])) = Len(waiters[v]) - 1
      /\ \A i \in 1 .. Len(Tail(waiters[v])) : Tail(waiters[v])[i] = waiters[v][i + 1]
  BY <1>0
<1>2. pc[d] = "cond" /\ d # c /\ \A i \in 1 .. Len(ready) : ready[i] # d
  BY <1>1 DEF CondAt
<1>3. wt \in [Conds -> Seq(Co)] /\ wt[v] = Tail(waiters[v])
      /\ \A u \in Conds : u # v => wt[u] = waiters[u]
  BY <1>0, <1>1
<1> HIDE DEF wt
<1>4. \A i \in 1 .. Len(wt[v]) : /\ wt[v][i] = waiters[v][i + 1]
                                 /\ i + 1 \in 1 .. Len(waiters[v]) /\ i + 1 # 1
  BY <1>1, <1>3
<1>5. \A u \in Conds : \A i \in 1 .. Len(wt[u]) :
         \E k \in 1 .. Len(waiters[u]) : /\ wt[u][i] = waiters[u][k]
                                         /\ k = (IF u = v THEN i + 1 ELSE i)
  BY <1>3, <1>4
<1>6. \A u \in Conds : \A i \in 1 .. Len(wt[u]) : wt[u][i] # d
  <2> TAKE u \in Conds
  <2> TAKE i \in 1 .. Len(wt[u])
  <2>1. CASE u = v
    BY <1>1, <1>4, <2>1 DEF CondAt
  <2>2. CASE u # v
    BY <1>1, <1>3, <2>2 DEF CondAt
  <2> QED BY <2>1, <2>2
<1>7. /\ r \in Seq(Co) /\ Len(r) = Len(ready) + 1 /\ r[Len(ready) + 1] = d
      /\ \A i \in 1 .. Len(ready) : r[i] = ready[i]
      /\ Len(ready) \in Nat
  BY <1>0, <1>1
<1>8. \A i \in 1 .. Len(r) : i \in 1 .. Len(ready) \/ r[i] = d
  BY <1>7
<1> HIDE DEF r, d
<1>9. TypeAt(c, r, pc, want, colist, wt, holds)
  BY <1>3, <1>7 DEF TypeAt
<1>10. ReadyAt(c, r, pc, want, colist)
  <2>1. \A i, j \in 1 .. Len(r) : r[i] = r[j] => i = j
    BY <1>2, <1>7 DEF ReadyAt
  <2>2. \A i \in 1 .. Len(r) : /\ r[i] # c /\ pc[r[i]] \in {"run", "lock", "cond"}
                               /\ pc[r[i]] = "lock" => HeadIs(r[i], want[r[i]], colist)
    BY <1>2, <1>7, <1>8 DEF ReadyAt
  <2> QED BY <2>1, <2>2 DEF ReadyAt
<1>11. CondAt(r, pc, wt)
  <2>1. \A u \in Conds : \A i \in 1 .. Len(wt[u]) : pc[wt[u][i]] = "cond"
    BY <1>5 DEF CondAt
  <2>2. \A u \in Conds : \A i \in 1 .. Len(wt[u]) : \A k \in 1 .. Len(r) : r[k] # wt[u][i]
    BY <1>5, <1>6, <1>7, <1>8 DEF CondAt
  <2>3. \A u, w \in Conds : \A i \in 1 .. Len(wt[u]), j \in 1 .. Len(wt[w]) :
           wt[u][i] = wt[w][j] => u = w /\ i = j
    <3> TAKE u, w \in Conds
    <3> TAKE i \in 1 .. Len(wt[u]), j \in 1 .. Len(wt[w])
    <3> HAVE wt[u][i] = wt[w][j]
    <3>1. PICK k \in 1 .. Len(waiters[u]) : wt[u][i] = waiters[u][k] /\ k = (IF u = v THEN i + 1 ELSE i)
      BY <1>5
    <3>2. PICK l \in 1 .. Len(waiters[w]) : wt[w][j] = waiters[w][l] /\ l = (IF w = v THEN j + 1 ELSE j)
      BY <1>5
    <3>3. u = w /\ k = l
      <4>1. waiters[u][k] = waiters[w][l]
        BY <3>1, <3>2
      <4>2. \A a, b \in Conds : \A x \in 1 .. Len(waiters[a]), y \in 1 .. Len(waiters[b]) :
               waiters[a][x] = waiters[b][y] => a = b /\ x = y
        BY DEF CondAt
      <4> QED BY <4>1, <4>2
    <3> QED BY <3>1, <3>2, <3>3
  <2> QED BY <2>1, <2>2, <2>3 DEF CondAt
<1> QED BY <1>9, <1>10, <1>11 DEF r, wt, d, RunAt

(* zcoroutine_cond_broadcast: all waiters become ready.                     *)
LEMMA BroadcastInv ==
  ASSUME IInv, NEW c \in Co, NEW v \in Conds, current = c, pc[c] = "run"
  PROVE  InvAt(c, ready \o waiters[v], pc, want, colist,
               [waiters EXCEPT ![v] = <<>>], holds)
<1> USE MutexAssumption DEF IInv, InvAt
<1> DEFINE q == waiters[v]
           r == ready \o q
           wt == [waiters EXCEPT ![v] = <<>>]
<1>0. ready \in Seq(Co) /\ waiters \in [Conds -> Seq(Co)] /\ q \in Seq(Co)
  BY DEF TypeAt
<1>1. wt \in [Conds -> Seq(Co)] /\ wt[v] = <<>> /\ \A u \in Conds : u # v => wt[u] = waiters[u]
  BY <1>0
<1>2. /\ r \in Seq(Co) /\ Len(r) = Len(ready) + Len(q)
      /\ \A i \in 1 .. Len(ready) : r[i] = ready[i]
      /\ Len(ready) \in Nat /\ Len(q) \in Nat
  BY <1>0
<1>3. \A i \in 1 .. Len(r) : i > Len(ready) => r[i] = q[i - Len(ready)] /\ i - Len(ready) \in 1 .. Len(q)
  BY <1>0, <1>2
<1>4. \A i \in 1 .. Len(r) : i \in 1 .. Len(ready) \/ i > Len(ready)
  BY <1>2
<1>5. \A i \in 1 .. Len(q) : pc[q[i]] = "cond" /\ \A k \in 1 .. Len(ready) : ready[k] # q[i]
  BY DEF CondAt
<1>6. \A i, j \in 1 .. Len(q) : q[i] = q[j] => i = j
  BY DEF CondAt
<1>7. \A u \in Conds : \A i \in 1 .. Len(wt[u]) :
         u # v /\ wt[u] = waiters[u] /\ \A k \in 1 .. Len(q) : q[k] # wt[u][i]
  <2> TAKE u \in Conds
  <2> TAKE i \in 1 .. Len(wt[u])
  <2>1. u # v /\ wt[u] = waiters[u]
    BY <1>1
  <2> QED BY <2>1 DEF CondAt
<1> HIDE DEF r, wt, q
<1>8. TypeAt(c, r, pc, want, colist, wt, holds)
  BY <1>1, <1>2 DEF TypeAt
<1>9. ReadyAt(c, r, pc, want, colist)
  <2>1. \A i, j \in 1 .. Len(r) : r[i] = r[j] => i = j
    <3> TAKE i, j \in 1 .. Len(r)
    <3> HAVE r[i] = r[j]
    <3>1. CASE i \in 1 .. Len(ready) /\ j \in 1 .. Len(ready)
      BY <1>2, <3>1 DEF ReadyAt
    <3>2. CASE i > Len(ready) /\ j > Len(ready)
      <4>1. i - Len(ready) = j - Len(ready)
        BY <1>3, <1>6, <3>2
      <4> QED BY <1>2, <4>1
    <3>3. CASE i \in 1 .. Len(ready) /\ j > Len(ready)
      BY <1>2, <1>3, <1>5, <3>3, SMTT(30)
    <3>4. CASE j \in 1 .. Len(ready) /\ i > Len(ready)
      BY <1>2, <1>3, <1>5, <3>4, SMTT(30)
    <3> QED BY <1>4, <3>1, <3>2, <3>3, <3>4
  <2>2. ASSUME NEW i \in 1 .. Len(r)
        PROVE  /\ r[i] # c /\ pc[r[i]] \in {"run", "lock", "cond"}
               /\ pc[r[i]] = "lock" => HeadIs(r[i], want[r[i]], colist)
    <3>1. CASE i \in 1 .. Len(ready)
      BY <1>2, <3>1 DEF ReadyAt
    <3>2. CASE i > Len(ready)
      BY <1>3, <1>5, <3>2
    <3> QED BY <1>4, <3>1, <3>2
  <2> QED BY <2>1, <2>2 DEF ReadyAt
<1>10. CondAt(r, pc, wt)
  <2>1. \A u \in Conds : \A i \in 1 .. Len(wt[u]) : pc[wt[u][i]] = "cond"
    BY <1>7 DEF CondAt
  <2>2. ASSUME NEW u \in Conds, NEW i \in 1 .. Len(wt[u]), NEW k \in 1 .. Len(r)
        PROVE  r[k] # wt[u][i]
    <3>1. CASE k \in 1 .. Len(ready)
      BY <1>2, <1>7, <3>1 DEF CondAt
    <3>2. CASE k > Len(ready)
      <4>1. r[k] = q[k - Len(ready)] /\ k - Len(ready) \in 1 .. Len(q)
        BY <1>3, <3>2
      <4>2. \A x \in 1 .. Len(q) : q[x] # wt[u][i]
        BY <1>7
      <4> QED BY <4>1, <4>2
    <3> QED BY <1>4, <3>1, <3>2
  <2>3. \A u, w \in Conds : \A i \in 1 .. Len(wt[u]), j \in 1 .. Len(wt[w]) :
           wt[u][i] = wt[w][j] => u = w /\ i = j
    BY <1>7 DEF CondAt
  <2> QED BY <2>1, <2>2, <2>3 DEF CondAt
<1> QED BY <1>8, <1>9, <1>10 DEF r, wt, q, RunAt

(* zcoroutine_remove_mutex and the pop of zcoroutine_release_all_mutex      *)
(* leave a list of mutexes.                                                 *)
LEMMA RemoveMutexType ==
  ASSUME ListType, NEW c \in Co, NEW m \in Mutexes
  PROVE  RemoveMutex(c, m) \in [Co -> Seq(Mutexes)]
<1> DEFINE list == mutex_list[c]
           at == {i \in DOMAIN list : list[i] = m /\ \A j \in DOMAIN list : j < i => list[j] # m}
           k == CHOOSE i \in at : TRUE
<1>1. list \in Seq(Mutexes)
  BY DEF ListType
<1>2. CASE at = {}
  <2>1. RemoveMutex(c, m) = [mutex_list EXCEPT ![c] = list]
    BY <1>2 DEF RemoveMutex
  <2> QED BY <1>1, <2>1 DEF ListType
<1>3. CASE at # {}
  <2>1. k \in at
    BY <1>3
  <2>2. k \in 1 .. Len(list) /\ Len(list) \in Nat
    BY <1>1, <2>1
  <2>3. RemoveMutex(c, m) = [mutex_list EXCEPT ![c] = RemoveAt(list, k)]
    BY <1>3 DEF RemoveMutex
  <2> HIDE DEF k, list
  <2>4. SubSeq(list, 1, k - 1) \in Seq(Mutexes) /\ SubSeq(list, k + 1, Len(list)) \in Seq(Mutexes)
    BY <1>1, <2>2
  <2>5. RemoveAt(list, k) \in Seq(Mutexes)
    BY <2>4 DEF RemoveAt
  <2> QED BY <2>3, <2>5 DEF ListType
<1> QED BY <1>2, <1>3

LEMMA InvStep == IInv /\ [Next]_vars => IInv'
<1> SUFFICES ASSUME IInv, [Next]_vars PROVE IInv'
  OBVIOUS
<1> USE MutexAssumption
<1>0. /\ ready \in Seq(Co) /\ colist \in [Mutexes -> Seq(Co)] /\ waiters \in [Conds -> Seq(Co)]
      /\ pc \in [Co -> {"run", "lock", "cond", "relock", "exit", "ended"}]
      /\ holds \in [Co -> SUBSET Mutexes] /\ want \in [Co -> Mutexes \cup {None}]
      /\ mutex_list \in [Co -> Seq(Mutexes)]
  BY DEF IInv, InvAt, TypeAt, ListType
<1>1. CASE Start
  <2>1. InvAt(None, ready, pc, want', colist', waiters', holds)
    BY <1>1 DEF Start, IInv
  <2>2. Switch(ready, pc, holds) /\ want' = want /\ mutex_list' = mutex_list
    BY <1>1 DEF Start
  <2> QED BY <2>1, <2>2, SwitchInv DEF IInv, ListType
<1>2. ASSUME NEW c \in Co, NEW m \in Mutexes, Lock(c, m) PROVE IInv'
  BY <1>2, LockNowInv, LockWaitInv DEF Lock, Running
<1>3. ASSUME NEW c \in Co, NEW m \in Mutexes, Unlock(c, m) PROVE IInv'
  <2>1. InvAt(c, Handover(m), pc, want, [colist EXCEPT ![m] = Tail(colist[m])], waiters, UnlockedBy(c, m))
    BY <1>3, HandoverInv DEF Unlock, Running
  <2>2. /\ current' = c /\ ready' = Handover(m) /\ pc' = pc /\ want' = want /\ waiters' = waiters
        /\ colist' = [colist EXCEPT ![m] = Tail(colist[m])] /\ holds' = UnlockedBy(c, m)
        /\ mutex_list' = RemoveMutex(c, m)
    BY <1>3 DEF Unlock, Running
  <2>3. ListType'
    BY <2>2, RemoveMutexType DEF IInv, ListType
  <2> QED BY <2>1, <2>2, <2>3 DEF IInv
<1>4. ASSUME NEW c \in Co, NEW v \in Conds, NEW m \in Mutexes, CondWait(c, v, m) PROVE IInv'
  <2>1. /\ current = c /\ pc[c] = "run"
        /\ waiters' = [waiters EXCEPT ![v] = Append(waiters[v], c)]
        /\ want' = [want EXCEPT ![c] = m]
    BY <1>4 DEF CondWait, Running
  <2>2. ASSUME NEW rdy, NEW hd, InvAt(c, rdy, pc, want, colist', waiters, hd),
               Switch(rdy, [pc EXCEPT ![c] = "cond"], hd)
        PROVE  InvAt(current', ready', pc', want', colist', waiters', holds')
    <3>1. InvAt(None, rdy, [pc EXCEPT ![c] = "cond"], want', colist', waiters', hd)
      BY <2>1, <2>2, CondParkInv
    <3>2. rdy \in Seq(Co) /\ \A i \in 1 .. Len(rdy) : rdy[i] # c
      BY <2>2 DEF InvAt, TypeAt, ReadyAt
    <3>3. rdy # <<>> => want'[Head(rdy)] = want[Head(rdy)]
      <4>1. rdy # <<>> => Head(rdy) \in Co /\ Head(rdy) # c
        BY <3>2
      <4>2. \A d \in Co : d # c => want'[d] = want[d]
        BY <1>0, <2>1
      <4> QED BY <4>1, <4>2
    <3> QED BY <2>2, <3>1, <3>3, SwitchInv
  <2>3. CASE Owns(c, m)
    <3>1. InvAt(c, Handover(m), pc, want, [colist EXCEPT ![m] = Tail(colist[m])], waiters, UnlockedBy(c, m))
      BY <2>1, <2>3, HandoverInv
    <3>2. /\ colist' = [colist EXCEPT ![m] = Tail(colist[m])]
          /\ Switch(Handover(m), [pc EXCEPT ![c] = "cond"], UnlockedBy(c, m))
          /\ mutex_list' = RemoveMutex(c, m)
      BY <1>4, <2>3 DEF CondWait
    <3>3. InvAt(c, Handover(m), pc, want, colist', waiters, UnlockedBy(c, m))
      BY <3>1, <3>2
    <3>4. ListType'
      BY <3>2, RemoveMutexType DEF IInv, ListType
    <3> QED BY <2>2, <3>2, <3>3, <3>4 DEF IInv
  <2>4. CASE ~Owns(c, m)
    <3>1. colist' = colist /\ mutex_list' = mutex_list /\ Switch(ready, [pc EXCEPT ![c] = "cond"], holds)
      BY <1>4, <2>4 DEF CondWait
    <3>2. InvAt(c, ready, pc, want, colist', waiters, holds)
      BY <2>1, <3>1 DEF IInv
    <3> QED BY <2>2, <3>1, <3>2 DEF IInv, ListType
  <2> QED BY <2>3, <2>4
<1>5. ASSUME NEW c \in Co, NEW v \in Conds, CondSignal(c, v) PROVE IInv'
  <2> DEFINE rdy == Append(ready, Head(waiters[v]))
  <2>1. /\ current = c /\ pc[c] = "run" /\ waiters[v] # <<>>
        /\ waiters' = [waiters EXCEPT ![v] = Tail(waiters[v])]
        /\ want' = want /\ colist' = colist /\ mutex_list' = mutex_list
        /\ Switch(Append(rdy, c), pc, holds)
    BY <1>5 DEF CondSignal, Running
  <2>2. InvAt(c, rdy, pc, want, colist, waiters', holds)
    BY <2>1, SignalInv
  <2> HIDE DEF rdy
  <2>3. InvAt(None, Append(rdy, c), pc, want', colist', waiters', holds)
    BY <2>1, <2>2, RequeueInv
  <2> QED BY <2>1, <2>3, SwitchInv DEF IInv, ListType
<1>6. ASSUME NEW c \in Co, NEW v \in Conds, CondBroadcast(c, v) PROVE IInv'
  <2> DEFINE rdy == ready \o waiters[v]
  <2>1. /\ current = c /\ pc[c] = "run"
        /\ waiters' = [waiters EXCEPT ![v] = <<>>]
        /\ want' = want /\ colist' = colist /\ mutex_list' = mutex_list
        /\ Switch(rdy \o <<c>>, pc, holds)
    BY <1>6 DEF CondBroadcast, Running, Woken
  <2>2. InvAt(c, rdy, pc, want, colist, waiters', holds)
    BY <2>1, BroadcastInv
  <2>3. rdy \in Seq(Co)
    BY <2>2 DEF InvAt, TypeAt
  <2> HIDE DEF rdy
  <2>4. rdy \o <<c>> = Append(rdy, c)
    BY <2>3, AppendIsConcat
  <2>5. InvAt(None, Append(rdy, c), pc, want', colist', waiters', holds)
    BY <2>1, <2>2, RequeueInv
  <2> QED BY <2>1, <2>4, <2>5, SwitchInv DEF IInv, ListType
<1>7. ASSUME NEW c \in Co, Relock(c) PROVE IInv'
  <2>1. current = c /\ pc[c] = "relock" /\ want[c] \in Mutexes
    BY <1>7 DEF Relock, IInv, InvAt, RunAt
  <2> QED BY <1>7, <2>1, LockNowInv, LockWaitInv DEF Relock
<1>8. ASSUME NEW c \in Co, Yield(c) PROVE IInv'
  <2>1. /\ current = c /\ pc[c] = "run" /\ Switch(Append(ready, c), pc, holds)
        /\ want' = want /\ colist' = colist /\ waiters' = waiters /\ mutex_list' = mutex_list
    BY <1>8 DEF Yield, Running, Requeued
  <2>2. InvAt(None, Append(ready, c), pc, want', colist', waiters', holds)
    BY <2>1, RequeueInv DEF IInv
  <2> QED BY <2>1, <2>2, SwitchInv DEF IInv, ListType
<1>9. ASSUME NEW c \in Co, NEW to \in {"exit", "ended"}, NEW cur \in {c, None},
             current = c, pc[c] \in {"run", "exit"}, to = "ended" => cur = None
      PROVE  InvAt(cur, ready, [pc EXCEPT ![c] = to], want, colist, waiters, holds)
  <2> DEFINE pcs == [pc EXCEPT ![c] = to]
  <2>1. pcs \in [Co -> {"run", "lock", "cond", "relock", "exit", "ended"}]
        /\ pcs[c] = to /\ \A d \in Co : d # c => pcs[d] = pc[d]
    BY <1>0
  <2> USE <1>9 DEF IInv, InvAt
  <2> HIDE DEF pcs
  <2>2. TypeAt(cur, ready, pcs, want, colist, waiters, holds)
    BY <2>1 DEF TypeAt
  <2>3. ReadyAt(cur, ready, pcs, want, colist)
    <3>1. \A i \in 1 .. Len(ready) : ready[i] \in Co /\ ready[i] # c /\ ready[i] # None
      BY <1>0 DEF ReadyAt
    <3> QED BY <2>1, <3>1 DEF ReadyAt
  <2>4. LineAt(pcs, want, colist)
    <3>1. \A n \in Mutexes : \A i \in 2 .. Len(colist[n]) : colist[n][i] \in Co /\ colist[n][i] # c
      BY <1>0 DEF LineAt
    <3> QED BY <2>1, <3>1 DEF LineAt
  <2>5. CondAt(ready, pcs, waiters)
    <3>1. \A v \in Conds : \A i \in 1 .. Len(waiters[v]) : waiters[v][i] \in Co /\ waiters[v][i] # c
      BY <1>0 DEF CondAt
    <3> QED BY <2>1, <3>1 DEF CondAt
  <2>6. RunAt(cur, pcs, want)
    BY <2>1 DEF RunAt
  <2> QED BY <2>2, <2>3, <2>4, <2>5, <2>6 DEF pcs
<1>10. ASSUME NEW c \in Co, Exit(c) PROVE IInv'
  <2>1. /\ current = c /\ pc[c] = "run" /\ pc' = [pc EXCEPT ![c] = "exit"]
        /\ UNCHANGED <<current, ready, want, colist, waiters, mutex_list, holds>>
    BY <1>10 DEF Exit, Running
  <2>2. InvAt(c, ready, pc', want, colist, waiters, holds)
    BY <1>9, <2>1
  <2> QED BY <2>1, <2>2 DEF IInv, ListType
<1>11. ASSUME NEW c \in Co, Ended(c) PROVE IInv'
  <2>1. /\ current = c /\ pc[c] = "exit" /\ Switch(ready, [pc EXCEPT ![c] = "ended"], holds)
        /\ want' = want /\ colist' = colist /\ waiters' = waiters /\ mutex_list' = mutex_list
    BY <1>11 DEF Ended
  <2>2. InvAt(None, ready, [pc EXCEPT ![c] = "ended"], want', colist', waiters', holds)
    BY <1>9, <2>1
  <2> QED BY <2>1, <2>2, SwitchInv DEF IInv, ListType
<1>12. ASSUME NEW c \in Co, ReleaseOne(c) PROVE IInv'
  <2> DEFINE m == Last(mutex_list[c])
  <2>1. /\ current = c /\ pc[c] = "exit" /\ mutex_list[c] # <<>> /\ mutex_list[c] \in Seq(Mutexes)
        /\ mutex_list' = [mutex_list EXCEPT ![c] = Front(mutex_list[c])]
        /\ UNCHANGED <<current, pc, want, waiters>>
    BY <1>0, <1>12 DEF ReleaseOne
  <2>2. m \in Mutexes /\ Front(mutex_list[c]) \in Seq(Mutexes)
    BY <2>1 DEF Last, Front
  <2>3. ListType'
    BY <1>0, <2>1, <2>2 DEF ListType
  <2>4. CASE Owns(c, m)
    <3>1. colist' = [colist EXCEPT ![m] = Tail(colist[m])] /\ ready' = Handover(m) /\ holds' = UnlockedBy(c, m)
      BY <1>12, <2>4 DEF ReleaseOne
    <3>2. InvAt(c, Handover(m), pc, want, [colist EXCEPT ![m] = Tail(colist[m])], waiters, UnlockedBy(c, m))
      BY <2>1, <2>2, <2>4, HandoverInv
    <3> QED BY <2>1, <2>3, <3>1, <3>2 DEF IInv
  <2>5. CASE ~Owns(c, m)
    <3>1. UNCHANGED <<colist, ready, holds>>
      BY <1>12, <2>5 DEF ReleaseOne
    <3> QED BY <2>1, <2>3, <3>1 DEF IInv
  <2> QED BY <2>4, <2>5
<1>13. CASE UNCHANGED vars
  BY <1>13 DEF vars, IInv, ListType
<1> QED
  BY <1>1, <1>2, <1>3, <1>4, <1>5, <1>6, <1>7, <1>8, <1>10, <1>11, <1>12, <1>13 DEF Next, Step

(* The invariant holds in every state of every execution.                   *)
LEMMA InvAlways == Spec => []IInv
  BY InvInit, InvStep, PTL DEF Spec

(* The history of hand-overs: of whom, unlike holds, only its own actions   *)
(* speak, so its type is kept apart.                                        *)
HandedType == handed \in [Co -> SUBSET Mutexes]

LEMMA HandedStep == ASSUME IInv, HandedType, [Next]_vars PROVE HandedType'
<1>0. mutex_list \in [Co -> Seq(Mutexes)]
  BY DEF IInv, ListType
<1>1. ASSUME NEW m \in Mutexes, handed' = HandedOver(m) PROVE HandedType'
  BY <1>1 DEF HandedType, HandedOver
<1>2. ASSUME NEW c \in Co, NEW m, LockNow(c, m) \/ LockWait(c, m) PROVE HandedType'
  BY <1>2 DEF LockNow, LockWait, HandedType
<1>3. ASSUME handed' = handed PROVE HandedType'
  BY <1>3 DEF HandedType
<1>4. CASE Start
  BY <1>3, <1>4 DEF Start
<1>5. ASSUME NEW c \in Co, NEW m \in Mutexes, Lock(c, m) \/ Unlock(c, m) PROVE HandedType'
  BY <1>1, <1>2, <1>5 DEF Lock, Unlock
<1>6. ASSUME NEW c \in Co, NEW v \in Conds, CondSignal(c, v) \/ CondBroadcast(c, v) PROVE HandedType'
  BY <1>3, <1>6 DEF CondSignal, CondBroadcast
<1>7. ASSUME NEW c \in Co, NEW v \in Conds, NEW m \in Mutexes, CondWait(c, v, m) PROVE HandedType'
  BY <1>1, <1>3, <1>7 DEF CondWait
<1>8. ASSUME NEW c \in Co, Relock(c) PROVE HandedType'
  BY <1>2, <1>8 DEF Relock
<1>9. ASSUME NEW c \in Co, Yield(c) \/ Exit(c) \/ Ended(c) PROVE HandedType'
  BY <1>3, <1>9 DEF Yield, Exit, Ended
<1>10. ASSUME NEW c \in Co, ReleaseOne(c) PROVE HandedType'
  <2>1. /\ mutex_list[c] # <<>> /\ mutex_list[c] \in Seq(Mutexes)
        /\ handed' = HandedOver(Last(mutex_list[c])) \/ handed' = handed
    BY <1>0, <1>10 DEF ReleaseOne
  <2>2. Last(mutex_list[c]) \in Mutexes
    BY <2>1 DEF Last
  <2> QED BY <1>1, <1>3, <2>1, <2>2
<1>11. CASE UNCHANGED vars
  BY <1>3, <1>11 DEF vars
<1> QED
  BY <1>4, <1>5, <1>6, <1>7, <1>8, <1>9, <1>10, <1>11 DEF Next, Step

LEMMA HandedAlways == Spec => []HandedType
<1>1. Init => HandedType
  BY DEF Init, HandedType
<1>2. IInv /\ HandedType /\ [Next]_vars => HandedType'
  BY HandedStep
<1> QED BY <1>1, <1>2, InvAlways, PTL DEF Spec

(* Every list holds coroutines, every mutex_list mutexes, and every         *)
(* coroutine is in a known state: no operation on a mutex or a condition    *)
(* links a wrong pointer.                                                   *)
THEOREM TypeCorrect == Spec => []TypeOK
<1>1. IInv /\ HandedType => TypeOK
  BY DEF IInv, InvAt, TypeAt, ListType, HandedType, TypeOK
<1> QED BY <1>1, InvAlways, HandedAlways, PTL

(* zcoroutine_mutex_lock, zcoroutine_mutex_unlock, the conditions and the   *)
(* release at the end keep mutual exclusion: whoever has returned from lock *)
(* and not unlocked is the head of the mutex's list.                        *)
THEOREM Exclusion == Spec => []MutualExclusion
<1>1. IInv => MutualExclusion
  BY DEF IInv, InvAt, HoldAt, HeadIs, MutualExclusion, Owns
<1> QED BY <1>1, InvAlways, PTL

(***************************************************************************)
(* The refinement: colist as holder and line.  A step of the coroutines    *)
(* changes at most one list, and only in one of four ways.                 *)
(***************************************************************************)
Taken(c, m) == colist[m] = <<>> /\ colist' = [colist EXCEPT ![m] = <<c>>]
Joined(c, m) ==
    /\ colist[m] # <<>>
    /\ \A i \in 1 .. Len(colist[m]) : colist[m][i] # c
    /\ colist' = [colist EXCEPT ![m] = Append(colist[m], c)]
Passed(m) == colist[m] # <<>> /\ colist' = [colist EXCEPT ![m] = Tail(colist[m])]

LEMMA ListStep ==
  ASSUME IInv, [Next]_vars
  PROVE  \/ colist' = colist
         \/ \E m \in Mutexes : Passed(m) \/ \E c \in Co : Taken(c, m) \/ Joined(c, m)
<1> USE MutexAssumption
<1>0. /\ colist \in [Mutexes -> Seq(Co)] /\ mutex_list \in [Co -> Seq(Mutexes)]
  BY DEF IInv, InvAt, TypeAt, ListType
<1>1. ASSUME NEW c \in Co, NEW m \in Mutexes, LockNow(c, m)
      PROVE  colist' = colist \/ Taken(c, m)
  BY <1>1 DEF LockNow, Taken
<1>2. ASSUME NEW c \in Co, NEW m \in Mutexes, current = c, pc[c] \in {"run", "relock"}, LockWait(c, m)
      PROVE  Joined(c, m)
  <2>1. \A i \in 2 .. Len(colist[m]) : colist[m][i] # c
    BY <1>2 DEF IInv, InvAt, LineAt
  <2>2. colist[m] # <<>> /\ Head(colist[m]) # c /\ colist[m] \in Seq(Co)
    BY <1>0, <1>2 DEF LockWait, Owns
  <2>3. \A i \in 1 .. Len(colist[m]) : colist[m][i] # c
    BY <2>1, <2>2
  <2> QED BY <1>2, <2>2, <2>3 DEF LockWait, Joined
<1>3. CASE Start
  BY <1>3 DEF Start
<1>4. ASSUME NEW c \in Co, NEW m \in Mutexes, Lock(c, m)
      PROVE  colist' = colist \/ Taken(c, m) \/ Joined(c, m)
  BY <1>1, <1>2, <1>4 DEF Lock, Running
<1>5. ASSUME NEW c \in Co, NEW m \in Mutexes, Unlock(c, m) PROVE Passed(m)
  BY <1>5 DEF Unlock, Owns, Passed
<1>6. ASSUME NEW c \in Co, NEW v \in Conds, NEW m \in Mutexes, CondWait(c, v, m)
      PROVE  colist' = colist \/ Passed(m)
  BY <1>6 DEF CondWait, Owns, Passed
<1>7. ASSUME NEW c \in Co, NEW v \in Conds, CondSignal(c, v) \/ CondBroadcast(c, v)
      PROVE  colist' = colist
  BY <1>7 DEF CondSignal, CondBroadcast
<1>8. ASSUME NEW c \in Co, Relock(c)
      PROVE  \E m \in Mutexes : colist' = colist \/ Taken(c, m) \/ Joined(c, m)
  <2>1. current = c /\ pc[c] = "relock" /\ want[c] \in Mutexes
    BY <1>8 DEF Relock, IInv, InvAt, RunAt
  <2>2. colist' = colist \/ Taken(c, want[c]) \/ Joined(c, want[c])
    BY <1>1, <1>2, <1>8, <2>1 DEF Relock
  <2> QED BY <2>1, <2>2
<1>9. ASSUME NEW c \in Co, Yield(c) \/ Exit(c) \/ Ended(c) PROVE colist' = colist
  BY <1>9 DEF Yield, Exit, Ended
<1>10. ASSUME NEW c \in Co, ReleaseOne(c)
       PROVE  colist' = colist \/ \E m \in Mutexes : Passed(m)
  <2> DEFINE m == Last(mutex_list[c])
  <2>1. mutex_list[c] # <<>> /\ mutex_list[c] \in Seq(Mutexes)
    BY <1>0, <1>10 DEF ReleaseOne
  <2>2. m \in Mutexes
    BY <2>1 DEF Last
  <2>3. colist' = colist \/ Passed(m)
    BY <1>10 DEF ReleaseOne, Owns, Passed
  <2> QED BY <2>2, <2>3
<1>11. CASE UNCHANGED vars
  BY <1>11 DEF vars
<1> QED
  BY <1>3, <1>4, <1>5, <1>6, <1>7, <1>8, <1>9, <1>10, <1>11 DEF Next, Step

LEMMA RefineInit == Init => Lock0!Init
  BY DEF Init, Lock0!Init, Holder, Line

LEMMA RefineStep ==
  ASSUME IInv, IInv', [Next]_vars
  PROVE  [Lock0!Next]_(Lock0!vars)
<1> USE MutexAssumption
<1>0. colist \in [Mutexes -> Seq(Co)] /\ colist' \in [Mutexes -> Seq(Co)]
  BY DEF IInv, InvAt, TypeAt
<1>1. CASE colist' = colist
  BY <1>1 DEF Lock0!vars, Holder, Line
<1>2. ASSUME NEW m \in Mutexes, NEW c \in Co, Taken(c, m) PROVE Lock0!Next
  <2>1. Holder[m] = None /\ Line[m] = <<>>
    BY <1>2 DEF Taken, Holder, Line
  <2>2. colist'[m] = <<c>> /\ \A n \in Mutexes : n # m => colist'[n] = colist[n]
    BY <1>0, <1>2 DEF Taken
  <2>3. Holder' = [Holder EXCEPT ![m] = c]
    <3>1. colist'[m] # <<>> /\ Head(colist'[m]) = c
      BY <2>2
    <3>2. \A n \in Mutexes : n # m => (colist'[n] = colist[n])
      BY <2>2
    <3> QED BY <3>1, <3>2 DEF Holder
  <2>4. Line' = Line
    BY <1>2, <2>2 DEF Line, Taken
  <2> QED BY <2>1, <2>3, <2>4 DEF Lock0!Next, Lock0!Take
<1>3. ASSUME NEW m \in Mutexes, NEW c \in Co, Joined(c, m) PROVE Lock0!Next
  <2>1. /\ colist[m] # <<>> /\ colist[m] \in Seq(Co) /\ colist'[m] = Append(colist[m], c)
        /\ \A n \in Mutexes : n # m => colist'[n] = colist[n]
    BY <1>0, <1>3 DEF Joined
  <2>2. Holder[m] = colist[m][1] /\ Holder[m] # None /\ Holder[m] # c
    BY <1>3, <2>1 DEF Holder, Joined
  <2>3. Line[m] = Tail(colist[m])
    BY <2>1 DEF Line
  <2>4. \A i \in DOMAIN Line[m] : Line[m][i] # c
    BY <1>3, <2>1, <2>3 DEF Joined
  <2>5. /\ colist'[m] # <<>> /\ Head(colist'[m]) = Head(colist[m])
        /\ Tail(colist'[m]) = Append(Tail(colist[m]), c)
    BY <2>1, HeadTailAppend
  <2>6. Line' = [Line EXCEPT ![m] = Append(Line[m], c)]
    BY <2>1, <2>3, <2>5 DEF Line
  <2>7. Holder' = Holder
    BY <2>1, <2>5 DEF Holder
  <2> QED BY <2>2, <2>4, <2>6, <2>7 DEF Lock0!Next, Lock0!StandInLine
<1>4. ASSUME NEW m \in Mutexes, Passed(m) PROVE Lock0!Next
  <2>1. /\ colist[m] # <<>> /\ colist[m] \in Seq(Co) /\ colist'[m] = Tail(colist[m])
        /\ \A n \in Mutexes : n # m => colist'[n] = colist[n]
    BY <1>0, <1>4 DEF Passed
  <2>2. Holder[m] \in Co /\ Holder[m] # None /\ Line[m] = Tail(colist[m])
    BY <2>1 DEF Holder, Line
  <2>3. CASE Tail(colist[m]) = <<>>
    <3>1. Holder' = [Holder EXCEPT ![m] = None]
      BY <2>1, <2>3 DEF Holder
    <3>2. Line' = Line
      BY <2>1, <2>3 DEF Line
    <3> QED BY <2>2, <2>3, <3>1, <3>2 DEF Lock0!Next, Lock0!GiveBack
  <2>4. CASE Tail(colist[m]) # <<>>
    <3>1. Holder' = [Holder EXCEPT ![m] = Head(Line[m])]
      BY <2>1, <2>2, <2>4 DEF Holder
    <3>2. Line' = [Line EXCEPT ![m] = Tail(Line[m])]
      BY <2>1, <2>2, <2>4 DEF Line
    <3> QED BY <2>2, <2>4, <3>1, <3>2 DEF Lock0!Next, Lock0!PassOn
  <2> QED BY <2>3, <2>4
<1> QED BY <1>1, <1>2, <1>3, <1>4, ListStep

(* The coroutine mutexes implement first-in first-out locks: every step of  *)
(* every operation, conditions and exits included, leaves a lock alone,     *)
(* takes a free one, joins the end of a line, or passes it on to the first  *)
(* in line.                                                                 *)
THEOREM Refinement == Spec => ImplementsFifoLock
<1>1. Init => Lock0!Init
  BY RefineInit
<1>2. IInv /\ IInv' /\ [Next]_vars => [Lock0!Next]_(Lock0!vars)
  BY RefineStep
<1> QED
  BY <1>1, <1>2, InvAlways, PTL DEF Spec, ImplementsFifoLock, Lock0!Spec

-----------------------------------------------------------------------------
(***************************************************************************)
(* Nobody is lost.  IInv says that no coroutine is in two places; Placed   *)
(* says that it is in one.                                                 *)
(***************************************************************************)
InReady(d, rdy) == \E i \in 1 .. Len(rdy) : rdy[i] = d
Behind(d, cl)   == \E m \in Mutexes : \E i \in 2 .. Len(cl[m]) : cl[m][i] = d
AtCond(d, wt)   == \E v \in Conds : \E i \in 1 .. Len(wt[v]) : wt[v][i] = d

Placed(d, cur, rdy, cl, wt) ==
    cur = d \/ InReady(d, rdy) \/ Behind(d, cl) \/ AtCond(d, wt)

PlacedAt(cur, rdy, pcs, cl, wt) ==
    \A d \in Co : pcs[d] # "ended" => Placed(d, cur, rdy, cl, wt)

Everywhere == PlacedAt(current, ready, pc, colist, waiters)

LEMMA ReadyAppend ==
  ASSUME NEW rdy \in Seq(Co), NEW x \in Co, NEW d, InReady(d, rdy) \/ d = x
  PROVE  InReady(d, Append(rdy, x))
<1>1. /\ Len(Append(rdy, x)) = Len(rdy) + 1 /\ Len(rdy) \in Nat
      /\ \A i \in 1 .. Len(rdy) : Append(rdy, x)[i] = rdy[i]
      /\ Append(rdy, x)[Len(rdy) + 1] = x
  OBVIOUS
<1> QED BY <1>1 DEF InReady

LEMMA ReadyTail ==
  ASSUME NEW rdy \in Seq(Co), rdy # <<>>, NEW d, InReady(d, rdy)
  PROVE  d = Head(rdy) \/ InReady(d, Tail(rdy))
<1>1. PICK i \in 1 .. Len(rdy) : rdy[i] = d
  BY DEF InReady
<1>2. /\ Len(Tail(rdy)) = Len(rdy) - 1 /\ Len(rdy) \in Nat
      /\ \A k \in 1 .. Len(Tail(rdy)) : Tail(rdy)[k] = rdy[k + 1]
      /\ Head(rdy) = rdy[1]
  OBVIOUS
<1>3. CASE i = 1
  BY <1>1, <1>2, <1>3
<1>4. CASE i # 1
  <2>1. i - 1 \in 1 .. Len(Tail(rdy)) /\ Tail(rdy)[i - 1] = rdy[(i - 1) + 1] /\ (i - 1) + 1 = i
    BY <1>2, <1>4
  <2> QED BY <1>1, <2>1 DEF InReady
<1> QED BY <1>3, <1>4

(* Joining the line of a mutex that is taken.                               *)
LEMMA BehindAppend ==
  ASSUME NEW cl \in [Mutexes -> Seq(Co)], NEW m \in Mutexes, cl[m] # <<>>, NEW c \in Co, NEW d,
         Behind(d, cl) \/ d = c
  PROVE  Behind(d, [cl EXCEPT ![m] = Append(cl[m], c)])
<1> DEFINE q == [cl EXCEPT ![m] = Append(cl[m], c)]
<1>1. /\ q[m] = Append(cl[m], c) /\ \A n \in Mutexes : n # m => q[n] = cl[n]
      /\ cl[m] \in Seq(Co) /\ Len(cl[m]) \in Nat \ {0}
  OBVIOUS
<1>2. /\ Len(q[m]) = Len(cl[m]) + 1
      /\ \A i \in 1 .. Len(cl[m]) : q[m][i] = cl[m][i]
      /\ q[m][Len(cl[m]) + 1] = c
  BY <1>1
<1> HIDE DEF q
<1>3. CASE d = c
  <2>1. Len(cl[m]) + 1 \in 2 .. Len(q[m])
    BY <1>1, <1>2
  <2>2. Behind(d, q)
    BY <1>2, <1>3, <2>1 DEF Behind
  <2> QED BY <2>2 DEF q
<1>4. CASE Behind(d, cl)
  <2>1. PICK n \in Mutexes : \E i \in 2 .. Len(cl[n]) : cl[n][i] = d
    BY <1>4 DEF Behind
  <2>2. \E i \in 2 .. Len(q[n]) : q[n][i] = d
    <3>1. CASE n # m
      BY <1>1, <2>1, <3>1
    <3>2. CASE n = m
      BY <1>1, <1>2, <2>1, <3>2
    <3> QED BY <3>1, <3>2
  <2>3. Behind(d, q)
    BY <2>2 DEF Behind
  <2> QED BY <2>3 DEF q
<1> QED BY <1>3, <1>4

(* zcoroutine_mutex_unlock: who stood behind the owner still stands behind  *)
(* the next one, or is the next one and ready.                              *)
LEMMA BehindHandover ==
  ASSUME IInv, NEW m \in Mutexes, colist[m] # <<>>, NEW d
  PROVE  /\ Handover(m) \in Seq(Co)
         /\ InReady(d, ready) => InReady(d, Handover(m))
         /\ Behind(d, colist) => \/ Behind(d, [colist EXCEPT ![m] = Tail(colist[m])])
                                 \/ InReady(d, Handover(m))
<1> DEFINE s == colist[m]
           q == [colist EXCEPT ![m] = Tail(colist[m])]
<1>0. ready \in Seq(Co) /\ colist \in [Mutexes -> Seq(Co)] /\ s \in Seq(Co)
  BY DEF IInv, InvAt, TypeAt
<1>1. /\ Tail(s) \in Seq(Co) /\ Len(Tail(s)) = Len(s) - 1 /\ Len(s) \in Nat \ {0}
      /\ \A k \in 1 .. Len(Tail(s)) : Tail(s)[k] = s[k + 1]
  BY <1>0
<1>2. /\ q[m] = Tail(s) /\ \A n \in Mutexes : n # m => q[n] = colist[n]
  BY <1>0
<1>3. Tail(s) # <<>> => Head(Tail(s)) = s[2] /\ s[2] \in Co
  BY <1>0, <1>1
<1>4. Handover(m) \in Seq(Co) /\ (InReady(d, ready) => InReady(d, Handover(m)))
  BY <1>0, <1>3, ReadyAppend DEF Handover
<1>5. ASSUME Behind(d, colist) PROVE Behind(d, q) \/ InReady(d, Handover(m))
  <2> HIDE DEF q
  <2>1. PICK n \in Mutexes : \E i \in 2 .. Len(colist[n]) : colist[n][i] = d
    BY <1>5 DEF Behind
  <2>2. CASE n # m
    BY <1>2, <2>1, <2>2 DEF Behind
  <2>3. CASE n = m
    <3>1. PICK i \in 2 .. Len(s) : s[i] = d
      BY <2>1, <2>3
    <3>2. CASE i = 2
      <4>0. Tail(s) # <<>>
        <5> HIDE DEF s
        <5>1. Len(Tail(s)) # 0
          BY <1>1, <3>1, <3>2
        <5> QED BY <1>1, <5>1, EmptySeq
      <4>1. Tail(s) # <<>> /\ Head(Tail(s)) = d /\ d \in Co
        BY <1>3, <3>1, <3>2, <4>0
      <4>2. Handover(m) = Append(ready, d)
        BY <4>1 DEF Handover
      <4> QED BY <1>0, <4>1, <4>2, ReadyAppend
    <3>3. CASE i # 2
      <4>1. i - 1 \in 2 .. Len(Tail(s)) /\ Tail(s)[i - 1] = s[(i - 1) + 1] /\ (i - 1) + 1 = i
        BY <1>1, <3>1, <3>3
      <4>2. q[m][i - 1] = d /\ i - 1 \in 2 .. Len(q[m])
        BY <1>2, <3>1, <4>1
      <4> QED BY <4>2 DEF Behind
    <3> QED BY <3>2, <3>3
  <2> QED BY <2>2, <2>3
<1> QED BY <1>4, <1>5

LEMMA PlacedSwitch ==
  ASSUME NEW rdy \in Seq(Co), NEW pcs \in [Co -> {"run", "lock", "cond", "relock", "exit", "ended"}],
         NEW held, NEW cl, NEW wt, Switch(rdy, pcs, held), PlacedAt(None, rdy, pcs, cl, wt)
  PROVE  PlacedAt(current', ready', pc', cl, wt)
<1> SUFFICES ASSUME NEW d \in Co, pc'[d] # "ended" PROVE Placed(d, current', ready', cl, wt)
  BY DEF PlacedAt
<1>1. d # None
  BY MutexAssumption
<1>2. CASE rdy = <<>>
  <2>1. current' = None /\ ready' = rdy /\ pc' = pcs
    BY <1>2 DEF Switch
  <2> QED BY <2>1 DEF PlacedAt
<1>3. CASE rdy # <<>>
  <2>1. /\ current' = Head(rdy) /\ ready' = Tail(rdy)
        /\ pc' = [pcs EXCEPT ![Head(rdy)] = IF @ = "cond" THEN "relock" ELSE "run"]
    BY <1>3 DEF Switch
  <2>2. CASE d = Head(rdy)
    BY <2>1, <2>2 DEF Placed
  <2>3. CASE d # Head(rdy)
    <3>1. pcs[d] # "ended"
      BY <2>1, <2>3
    <3>2. Placed(d, None, rdy, cl, wt)
      BY <3>1 DEF PlacedAt
    <3>3. InReady(d, rdy) => InReady(d, Tail(rdy))
      BY <1>3, <2>3, ReadyTail
    <3> QED BY <1>1, <2>1, <3>2, <3>3 DEF Placed
  <2> QED BY <2>2, <2>3
<1> QED BY <1>2, <1>3

LEMMA EverywhereStep == ASSUME IInv, Everywhere, [Next]_vars PROVE Everywhere'
<1> USE MutexAssumption
<1>0. /\ ready \in Seq(Co) /\ colist \in [Mutexes -> Seq(Co)] /\ waiters \in [Conds -> Seq(Co)]
      /\ pc \in [Co -> {"run", "lock", "cond", "relock", "exit", "ended"}]
      /\ mutex_list \in [Co -> Seq(Mutexes)]
      /\ \A d \in Co : pc[d] # "ended" => Placed(d, current, ready, colist, waiters)
  BY DEF IInv, InvAt, TypeAt, ListType, Everywhere, PlacedAt
<1>1. CASE Start
  <2>1. /\ Switch(ready, pc, holds) /\ colist' = colist /\ waiters' = waiters
        /\ PlacedAt(None, ready, pc, colist', waiters')
    BY <1>1 DEF Start, Everywhere
  <2> QED BY <1>0, <2>1, PlacedSwitch DEF Everywhere
<1>2. ASSUME NEW c \in Co, NEW m \in Mutexes, current = c, pc[c] # "ended", LockNow(c, m)
      PROVE  Everywhere'
  <2>1. /\ colist' = colist \/ (colist[m] = <<>> /\ colist' = [colist EXCEPT ![m] = <<c>>])
        /\ pc' = [pc EXCEPT ![c] = "run"] /\ UNCHANGED <<current, ready, waiters>>
    BY <1>2 DEF LockNow
  <2>2. ASSUME NEW d \in Co, Behind(d, colist) PROVE Behind(d, colist')
    <3>1. PICK n \in Mutexes : \E i \in 2 .. Len(colist[n]) : colist[n][i] = d
      BY <2>2 DEF Behind
    <3>2. colist[n] # <<>>
      BY <3>1
    <3>3. colist'[n] = colist[n]
      BY <1>0, <2>1, <3>2
    <3> QED BY <3>1, <3>3 DEF Behind
  <2> QED BY <1>0, <1>2, <2>1, <2>2 DEF Everywhere, PlacedAt, Placed
<1>3. ASSUME NEW c \in Co, NEW m \in Mutexes, current = c, LockWait(c, m) PROVE Everywhere'
  <2> DEFINE pcs == [pc EXCEPT ![c] = "lock"]
  <2>1. /\ colist[m] # <<>> /\ colist' = [colist EXCEPT ![m] = Append(colist[m], c)]
        /\ Switch(ready, pcs, holds) /\ waiters' = waiters
    BY <1>3 DEF LockWait
  <2>2. \A d \in Co : Behind(d, colist) \/ d = c => Behind(d, colist')
    BY <1>0, <2>1, BehindAppend
  <2>3. pcs \in [Co -> {"run", "lock", "cond", "relock", "exit", "ended"}]
    BY <1>0
  <2>4. PlacedAt(None, ready, pcs, colist', waiters')
    BY <1>0, <1>3, <2>1, <2>2 DEF PlacedAt, Placed
  <2> HIDE DEF pcs
  <2> QED BY <1>0, <2>1, <2>3, <2>4, PlacedSwitch DEF Everywhere
<1>4. ASSUME NEW c \in Co, NEW m \in Mutexes, Lock(c, m) PROVE Everywhere'
  BY <1>2, <1>3, <1>4 DEF Lock, Running
<1>5. ASSUME NEW c \in Co, Relock(c) PROVE Everywhere'
  <2>1. current = c /\ pc[c] = "relock" /\ want[c] \in Mutexes
    BY <1>5 DEF Relock, IInv, InvAt, RunAt
  <2> QED BY <1>2, <1>3, <1>5, <2>1 DEF Relock
<1>6. ASSUME NEW m \in Mutexes, colist[m] # <<>>, ready' = Handover(m),
             colist' = [colist EXCEPT ![m] = Tail(colist[m])], UNCHANGED <<current, pc, waiters>>
      PROVE  Everywhere'
  BY <1>0, <1>6, BehindHandover DEF Everywhere, PlacedAt, Placed
<1>7. ASSUME NEW c \in Co, NEW m \in Mutexes, Unlock(c, m) PROVE Everywhere'
  BY <1>6, <1>7 DEF Unlock, Owns
<1>8. ASSUME NEW c \in Co, NEW v \in Conds, NEW m \in Mutexes, CondWait(c, v, m) PROVE Everywhere'
  <2> DEFINE pcs == [pc EXCEPT ![c] = "cond"]
  <2>1. current = c /\ waiters' = [waiters EXCEPT ![v] = Append(waiters[v], c)]
    BY <1>8 DEF CondWait, Running
  <2>2. pcs \in [Co -> {"run", "lock", "cond", "relock", "exit", "ended"}]
        /\ \A d \in Co : d # c => pcs[d] = pc[d]
    BY <1>0
  <2>3. /\ waiters'[v] = Append(waiters[v], c) /\ \A u \in Conds : u # v => waiters'[u] = waiters[u]
        /\ waiters[v] \in Seq(Co)
    BY <1>0, <2>1
  <2>4. /\ Len(waiters'[v]) = Len(waiters[v]) + 1 /\ Len(waiters[v]) \in Nat
        /\ \A i \in 1 .. Len(waiters[v]) : waiters'[v][i] = waiters[v][i]
        /\ waiters'[v][Len(waiters[v]) + 1] = c
    BY <2>3
  <2>5. AtCond(c, waiters')
    BY <2>4 DEF AtCond
  <2>6. ASSUME NEW d \in Co, AtCond(d, waiters) PROVE AtCond(d, waiters')
    BY <2>3, <2>4, <2>6 DEF AtCond
  <2> HIDE DEF pcs
  <2>7. CASE Owns(c, m)
    <3>1. /\ colist' = [colist EXCEPT ![m] = Tail(colist[m])] /\ colist[m] # <<>>
          /\ Switch(Handover(m), pcs, UnlockedBy(c, m))
      BY <1>8, <2>7 DEF CondWait, Owns, pcs
    <3>2. PlacedAt(None, Handover(m), pcs, colist', waiters')
      BY <1>0, <2>1, <2>2, <2>5, <2>6, <3>1, BehindHandover DEF PlacedAt, Placed
    <3>3. Handover(m) \in Seq(Co)
      BY <3>1, BehindHandover
    <3> QED BY <2>2, <3>1, <3>2, <3>3, PlacedSwitch DEF Everywhere
  <2>8. CASE ~Owns(c, m)
    <3>1. colist' = colist /\ Switch(ready, pcs, holds)
      BY <1>8, <2>8 DEF CondWait, pcs
    <3>2. PlacedAt(None, ready, pcs, colist', waiters')
      BY <1>0, <2>1, <2>2, <2>5, <2>6, <3>1 DEF PlacedAt, Placed
    <3> QED BY <1>0, <2>2, <3>1, <3>2, PlacedSwitch DEF Everywhere
  <2> QED BY <2>7, <2>8
<1>9. ASSUME NEW c \in Co, NEW rdy \in Seq(Co), current = c, colist' = colist,
             Switch(Append(rdy, c), pc, holds),
             \A d \in Co : InReady(d, ready) \/ AtCond(d, waiters) => InReady(d, rdy) \/ AtCond(d, waiters')
      PROVE  Everywhere'
  <2>1. \A d \in Co : InReady(d, rdy) \/ d = c => InReady(d, Append(rdy, c))
    BY ReadyAppend
  <2>2. PlacedAt(None, Append(rdy, c), pc, colist', waiters')
    BY <1>0, <1>9, <2>1 DEF PlacedAt, Placed
  <2>3. Append(rdy, c) \in Seq(Co)
    OBVIOUS
  <2> QED BY <1>0, <1>9, <2>2, <2>3, PlacedSwitch DEF Everywhere
<1>10. ASSUME NEW c \in Co, NEW v \in Conds, CondSignal(c, v) PROVE Everywhere'
  <2> DEFINE x == Head(waiters[v])
             rdy == Append(ready, x)
  <2>1. /\ current = c /\ waiters[v] # <<>> /\ colist' = colist
        /\ waiters' = [waiters EXCEPT ![v] = Tail(waiters[v])] /\ Switch(Append(rdy, c), pc, holds)
    BY <1>10 DEF CondSignal, Running
  <2>2. waiters[v] \in Seq(Co) /\ x \in Co /\ rdy \in Seq(Co)
    BY <1>0, <2>1
  <2>3. ASSUME NEW d \in Co, AtCond(d, waiters) PROVE InReady(d, rdy) \/ AtCond(d, waiters')
    <3>1. PICK u \in Conds : InReady(d, waiters[u])
      BY <2>3 DEF AtCond, InReady
    <3>2. CASE u # v
      <4>1. waiters'[u] = waiters[u]
        BY <1>0, <2>1, <3>2
      <4> QED BY <3>1, <4>1 DEF AtCond, InReady
    <3>3. CASE u = v
      <4>1. d = x \/ InReady(d, Tail(waiters[v]))
        BY <2>1, <2>2, <3>1, <3>3, ReadyTail
      <4>2. waiters'[v] = Tail(waiters[v])
        BY <1>0, <2>1
      <4>3. d = x => InReady(d, rdy)
        BY <1>0, <2>2, ReadyAppend
      <4> QED BY <4>1, <4>2, <4>3 DEF AtCond, InReady
    <3> QED BY <3>2, <3>3
  <2>4. \A d \in Co : InReady(d, ready) => InReady(d, rdy)
    BY <1>0, <2>2, ReadyAppend
  <2> HIDE DEF rdy, x
  <2> QED BY <1>9, <2>1, <2>2, <2>3, <2>4
<1>11. ASSUME NEW c \in Co, NEW v \in Conds, CondBroadcast(c, v) PROVE Everywhere'
  <2> DEFINE rdy == ready \o waiters[v]
  <2>1. /\ current = c /\ colist' = colist
        /\ waiters' = [waiters EXCEPT ![v] = <<>>] /\ Switch(rdy \o <<c>>, pc, holds)
    BY <1>11 DEF CondBroadcast, Running, Woken
  <2>2. waiters[v] \in Seq(Co)
    BY <1>0
  <2>3. /\ rdy \in Seq(Co) /\ Len(rdy) = Len(ready) + Len(waiters[v])
        /\ \A i \in 1 .. Len(ready) : rdy[i] = ready[i]
        /\ \A i \in 1 .. Len(waiters[v]) : rdy[Len(ready) + i] = waiters[v][i]
        /\ Len(ready) \in Nat /\ Len(waiters[v]) \in Nat
    BY <1>0, <2>2
  <2> HIDE DEF rdy
  <2>4. \A d \in Co : InReady(d, ready) => InReady(d, rdy)
    BY <2>3 DEF InReady
  <2>5. ASSUME NEW d \in Co, AtCond(d, waiters) PROVE InReady(d, rdy) \/ AtCond(d, waiters')
    <3>1. PICK u \in Conds : \E i \in 1 .. Len(waiters[u]) : waiters[u][i] = d
      BY <2>5 DEF AtCond
    <3>2. CASE u # v
      <4>1. waiters'[u] = waiters[u]
        BY <1>0, <2>1, <3>2
      <4> QED BY <3>1, <4>1 DEF AtCond
    <3>3. CASE u = v
      <4>1. PICK i \in 1 .. Len(waiters[v]) : waiters[v][i] = d
        BY <3>1, <3>3
      <4>2. Len(ready) + i \in 1 .. Len(rdy) /\ rdy[Len(ready) + i] = d
        BY <2>3, <4>1
      <4> QED BY <4>2 DEF InReady
    <3> QED BY <3>2, <3>3
  <2>6. rdy \o <<c>> = Append(rdy, c)
    BY <2>3, AppendIsConcat
  <2> QED BY <1>9, <2>1, <2>3, <2>4, <2>5, <2>6
<1>12. ASSUME NEW c \in Co, Yield(c) PROVE Everywhere'
  <2>1. current = c /\ Switch(Append(ready, c), pc, holds) /\ colist' = colist /\ waiters' = waiters
    BY <1>12 DEF Yield, Running, Requeued
  <2> QED BY <1>0, <1>9, <2>1
<1>13. ASSUME NEW c \in Co, Exit(c) PROVE Everywhere'
  <2>1. /\ current = c /\ pc' = [pc EXCEPT ![c] = "exit"]
        /\ UNCHANGED <<current, ready, colist, waiters>>
    BY <1>13 DEF Exit, Running
  <2> QED BY <1>0, <2>1 DEF Everywhere, PlacedAt, Placed
<1>14. ASSUME NEW c \in Co, ReleaseOne(c) PROVE Everywhere'
  <2> DEFINE m == Last(mutex_list[c])
  <2>1. mutex_list[c] # <<>> /\ mutex_list[c] \in Seq(Mutexes) /\ UNCHANGED <<current, pc, waiters>>
    BY <1>0, <1>14 DEF ReleaseOne
  <2>2. m \in Mutexes
    BY <2>1 DEF Last
  <2>3. CASE Owns(c, m)
    <3>1. colist[m] # <<>> /\ ready' = Handover(m) /\ colist' = [colist EXCEPT ![m] = Tail(colist[m])]
      BY <1>14, <2>3 DEF ReleaseOne, Owns
    <3> HIDE DEF m
    <3> QED BY <1>6, <2>1, <2>2, <3>1
  <2>4. CASE ~Owns(c, m)
    <3>1. UNCHANGED <<colist, ready>>
      BY <1>14, <2>4 DEF ReleaseOne
    <3> QED BY <2>1, <3>1 DEF Everywhere
  <2> QED BY <2>3, <2>4
<1>15. ASSUME NEW c \in Co, Ended(c) PROVE Everywhere'
  <2> DEFINE pcs == [pc EXCEPT ![c] = "ended"]
  <2>1. current = c /\ Switch(ready, pcs, holds) /\ colist' = colist /\ waiters' = waiters
    BY <1>15 DEF Ended
  <2>2. pcs \in [Co -> {"run", "lock", "cond", "relock", "exit", "ended"}]
        /\ PlacedAt(None, ready, pcs, colist', waiters')
    BY <1>0, <2>1 DEF PlacedAt, Placed
  <2> HIDE DEF pcs
  <2> QED BY <1>0, <2>1, <2>2, PlacedSwitch DEF Everywhere
<1>16. CASE UNCHANGED vars
  BY <1>16 DEF vars, Everywhere
<1> QED
  BY <1>1, <1>4, <1>5, <1>7, <1>8, <1>10, <1>11, <1>12, <1>13, <1>14, <1>15, <1>16 DEF Next, Step

LEMMA OneIsOne ==
  ASSUME NEW S, NEW x, S \subseteq {x} PROVE Cardinality(S) = IF S = {} THEN 0 ELSE 1
<1>1. S = {} \/ S = {x}
  OBVIOUS
<1>2. Cardinality({}) = 0
  BY FS_EmptySet
<1>3. Cardinality({x}) = 1
  BY FS_Singleton
<1> QED BY <1>1, <1>2, <1>3

LEMMA PlacesCount == ASSUME IInv, Everywhere PROVE OnePlace
<1> USE MutexAssumption
<1> SUFFICES ASSUME NEW c \in Co
             PROVE  LET behind == {m \in Mutexes : c \in ToSet(colist[m]) /\ ~Owns(c, m)}
                        at     == {v \in Conds : c \in ToSet(waiters[v])}
                    IN  /\ \A m \in Mutexes : Occurs(c, colist[m]) <= 1
                        /\ \A v \in Conds : Occurs(c, waiters[v]) <= 1
                        /\ Occurs(c, ready) + Cardinality(behind) + Cardinality(at)
                             + (IF current = c THEN 1 ELSE 0) = IF pc[c] = "ended" THEN 0 ELSE 1
  BY DEF OnePlace
<1> DEFINE behind == {m \in Mutexes : c \in ToSet(colist[m]) /\ ~Owns(c, m)}
           at     == {v \in Conds : c \in ToSet(waiters[v])}
<1>0. /\ ready \in Seq(Co) /\ colist \in [Mutexes -> Seq(Co)] /\ waiters \in [Conds -> Seq(Co)]
      /\ pc \in [Co -> {"run", "lock", "cond", "relock", "exit", "ended"}] /\ c # None
  BY DEF IInv, InvAt, TypeAt
<1>1. ASSUME NEW s \in Seq(Co) PROVE Occurs(c, s) = Times(c, s)
  BY DEF Occurs, Times, Positions
<1>2. \A m \in Mutexes : Occurs(c, colist[m]) <= 1
  <2> TAKE m \in Mutexes
  <2>1. colist[m] \in Seq(Co) /\ \A i, j \in 1 .. Len(colist[m]) : colist[m][i] = colist[m][j] => i = j
    BY <1>0 DEF IInv, InvAt, LineAt
  <2>2. Times(c, colist[m]) <= 1
    BY <2>1, TimesOnce
  <2> QED BY <1>1, <2>1, <2>2
<1>3. \A v \in Conds : Occurs(c, waiters[v]) <= 1
  <2> TAKE v \in Conds
  <2>1. waiters[v] \in Seq(Co) /\ \A i, j \in 1 .. Len(waiters[v]) : waiters[v][i] = waiters[v][j] => i = j
    BY <1>0 DEF IInv, InvAt, CondAt
  <2>2. Times(c, waiters[v]) <= 1
    BY <2>1, TimesOnce
  <2> QED BY <1>1, <2>1, <2>2
<1>4. Occurs(c, ready) = IF InReady(c, ready) THEN 1 ELSE 0
  <2>1. \A i, j \in 1 .. Len(ready) : ready[i] = ready[j] => i = j
    BY DEF IInv, InvAt, ReadyAt
  <2>2. Times(c, ready) <= 1
    BY <1>0, <2>1, TimesOnce
  <2>3. Times(c, ready) = 0 <=> ~InReady(c, ready)
    BY <1>0, TimesZero DEF InReady
  <2>4. Times(c, ready) \in Nat
    BY <1>0, TimesType
  <2> QED BY <1>0, <1>1, <2>2, <2>3, <2>4
<1>5. ASSUME NEW m \in Mutexes
      PROVE  m \in behind <=> \E i \in 2 .. Len(colist[m]) : colist[m][i] = c
  <2>1. /\ colist[m] \in Seq(Co) /\ DOMAIN colist[m] = 1 .. Len(colist[m]) /\ Len(colist[m]) \in Nat
        /\ colist[m] # <<>> => Head(colist[m]) = colist[m][1]
        /\ \A i, j \in 1 .. Len(colist[m]) : colist[m][i] = colist[m][j] => i = j
    BY <1>0 DEF IInv, InvAt, LineAt
  <2>2. c \in ToSet(colist[m]) <=> \E i \in 1 .. Len(colist[m]) : colist[m][i] = c
    BY <2>1 DEF ToSet
  <2>3. \A i \in 1 .. Len(colist[m]) : colist[m] # <<>>
    BY <2>1
  <2>4. Owns(c, m) <=> colist[m] # <<>> /\ colist[m][1] = c
    BY <2>1 DEF Owns
  <2>5. ASSUME m \in behind PROVE \E i \in 2 .. Len(colist[m]) : colist[m][i] = c
    <3>1. PICK i \in 1 .. Len(colist[m]) : colist[m][i] = c
      BY <2>2, <2>5
    <3>2. i # 1
      BY <2>3, <2>4, <2>5, <3>1
    <3> QED BY <2>1, <3>1, <3>2
  <2>6. ASSUME NEW i \in 2 .. Len(colist[m]), colist[m][i] = c PROVE m \in behind
    <3>1. i \in 1 .. Len(colist[m]) /\ 1 \in 1 .. Len(colist[m]) /\ i # 1
      BY <2>1
    <3>2. colist[m][1] # c
      BY <2>1, <2>6, <3>1
    <3> QED BY <2>2, <2>4, <2>6, <3>1, <3>2
  <2> QED BY <2>5, <2>6
<1>6. behind # {} <=> Behind(c, colist)
  BY <1>5 DEF Behind
<1>7. behind \subseteq {want[c]} /\ (behind # {} => pc[c] = "lock")
  BY <1>5 DEF IInv, InvAt, LineAt
<1>8. at # {} <=> AtCond(c, waiters)
  <2>1. \A v \in Conds : v \in at <=> \E i \in 1 .. Len(waiters[v]) : waiters[v][i] = c
    BY <1>0 DEF ToSet
  <2> QED BY <2>1 DEF AtCond
<1>9. \E u : at \subseteq {u}
  <2>1. \A v \in at : v \in Conds /\ \E i \in 1 .. Len(waiters[v]) : waiters[v][i] = c
    BY <1>0 DEF ToSet
  <2> HIDE DEF at
  <2>2. \A u, v \in at : u = v
    BY <2>1 DEF IInv, InvAt, CondAt
  <2> QED BY <2>2
<1> HIDE DEF behind, at
<1>10. Cardinality(behind) = (IF Behind(c, colist) THEN 1 ELSE 0)
       /\ Cardinality(at) = (IF AtCond(c, waiters) THEN 1 ELSE 0)
  BY <1>6, <1>7, <1>8, <1>9, OneIsOne
<1>11. /\ current = c => pc[c] \in {"run", "relock", "exit"}
       /\ InReady(c, ready) => /\ pc[c] \in {"run", "lock", "cond"} /\ current # c
       /\ Behind(c, colist) => pc[c] = "lock"
       /\ AtCond(c, waiters) => pc[c] = "cond" /\ ~InReady(c, ready)
  <2>1. current = c => pc[c] \in {"run", "relock", "exit"}
    BY <1>0 DEF IInv, InvAt, RunAt
  <2>2. InReady(c, ready) => /\ pc[c] \in {"run", "lock", "cond"} /\ current # c
    BY DEF IInv, InvAt, ReadyAt, InReady
  <2>3. AtCond(c, waiters) => pc[c] = "cond" /\ ~InReady(c, ready)
    BY DEF IInv, InvAt, CondAt, AtCond, InReady
  <2> QED BY <1>6, <1>7, <2>1, <2>2, <2>3
<1>12. InReady(c, ready) => ~Behind(c, colist)
  <2> SUFFICES ASSUME InReady(c, ready), Behind(c, colist) PROVE FALSE
    OBVIOUS
  <2>1. PICK m \in Mutexes : m \in behind
    BY <1>6 DEF behind
  <2>2. want[c] = m /\ pc[c] = "lock"
    BY <1>7, <2>1
  <2>3. HeadIs(c, m, colist)
    BY <2>2 DEF IInv, InvAt, ReadyAt, InReady
  <2> QED BY <2>1, <2>3 DEF behind, Owns, HeadIs
<1>13. pc[c] # "ended" => current = c \/ InReady(c, ready) \/ Behind(c, colist) \/ AtCond(c, waiters)
  BY DEF Everywhere, PlacedAt, Placed
<1>14. Occurs(c, ready) + Cardinality(behind) + Cardinality(at)
         + (IF current = c THEN 1 ELSE 0) = IF pc[c] = "ended" THEN 0 ELSE 1
  BY <1>4, <1>10, <1>11, <1>12, <1>13
<1> QED BY <1>2, <1>3, <1>14 DEF behind, at

(* Every coroutine that has not ended is at the processor, ready, behind    *)
(* the owner of one mutex or at one condition, in exactly one of these: no  *)
(* order of locks, hand-overs, signals, broadcasts and exits loses a        *)
(* coroutine or links it twice.                                             *)
THEOREM InOnePlace == Spec => []OnePlace
<1>1. Init => Everywhere
  <2> SUFFICES ASSUME Init, NEW d \in Co PROVE InReady(d, ready)
    BY DEF Everywhere, PlacedAt, Placed
  <2>1. IsFiniteSet(Co) /\ Cardinality(Co) \in Nat
    BY MutexAssumption, FS_CardinalityType
  <2> DEFINE n == Cardinality(Co)
  <2>2. ready \in [1 .. n -> Co] /\ \A i, j \in 1 .. n : i # j => ready[i] # ready[j]
    BY DEF Init, SetToSeqs
  <2>3. ready \in Seq(Co) /\ Len(ready) = n
    BY <2>1, <2>2
  <2>4. IsFiniteSet(1 .. n) /\ Cardinality(1 .. n) = n
    BY <2>1, FS_Interval
  <2>5. ready \in Injection(1 .. n, Co)
    BY <2>2 DEF Injection, IsInjective
  <2>6. ready \in Surjection(1 .. n, Co)
    BY <2>1, <2>4, <2>5, FS_Injection
  <2> QED BY <2>3, <2>6 DEF InReady, Surjection
<1>2. IInv /\ Everywhere /\ [Next]_vars => Everywhere'
  BY EverywhereStep
<1>3. IInv /\ Everywhere => OnePlace
  BY PlacesCount
<1> QED BY <1>1, <1>2, <1>3, InvAlways, PTL DEF Spec

-----------------------------------------------------------------------------
(***************************************************************************)
(* What a coroutine leaves behind.  Its mutex_list names, once each,       *)
(* mutexes it owns and none that was handed to it, and leaves out of those *)
(* it owns only what was handed to it.                                     *)
(***************************************************************************)
Listed(ml, c, m) == \E i \in 1 .. Len(ml[c]) : ml[c][i] = m

ListedAt(ml, cl) ==
    \A c \in Co :
        /\ \A i, j \in 1 .. Len(ml[c]) : ml[c][i] = ml[c][j] => i = j
        /\ \A i \in 1 .. Len(ml[c]) : HeadIs(c, ml[c][i], cl)

HandedAt(ml, cl, hn) ==
    \A c \in Co, m \in Mutexes :
        /\ HeadIs(c, m, cl) /\ m \notin hn[c] => Listed(ml, c, m)
        /\ Listed(ml, c, m) => m \notin hn[c]

EndedAt(ml, pcs) == \A c \in Co : pcs[c] = "ended" => ml[c] = <<>>

ExitInv ==
    /\ ListedAt(mutex_list, colist)
    /\ HandedAt(mutex_list, colist, handed)
    /\ EndedAt(mutex_list, pc)

LEMMA EndedSwitch ==
  ASSUME NEW rdy \in Seq(Co), NEW pcs \in [Co -> {"run", "lock", "cond", "relock", "exit", "ended"}],
         NEW held, Switch(rdy, pcs, held), EndedAt(mutex_list', pcs)
  PROVE  EndedAt(mutex_list', pc')
<1>1. CASE rdy = <<>>
  BY <1>1 DEF Switch
<1>2. CASE rdy # <<>>
  <2> DEFINE d == Head(rdy)
  <2>1. /\ d \in Co
        /\ pc' = [pcs EXCEPT ![d] = IF pcs[d] = "cond" THEN "relock" ELSE "run"]
    BY <1>2 DEF Switch
  <2> HIDE DEF d
  <2>2. pc'[d] \in {"relock", "run"} /\ \A c \in Co : c # d => pc'[c] = pcs[c]
    BY <2>1
  <2> QED BY <2>2 DEF EndedAt
<1> QED BY <1>1, <1>2

(* zcoroutine_remove_mutex takes the mutex out of a list that names it at   *)
(* most once.                                                               *)
(* t is mutex_list with m taken out of the list of c.                       *)
Without(t, c, m) ==
    /\ \A d \in Co : d # c => t[d] = mutex_list[d]
    /\ \A i, j \in 1 .. Len(t[c]) : t[c][i] = t[c][j] => i = j
    /\ \A i \in 1 .. Len(t[c]) : t[c][i] # m /\ \E j \in 1 .. Len(mutex_list[c]) : mutex_list[c][j] = t[c][i]
    /\ \A j \in 1 .. Len(mutex_list[c]) :
          mutex_list[c][j] = m \/ \E i \in 1 .. Len(t[c]) : t[c][i] = mutex_list[c][j]

LEMMA RemovedMutex ==
  ASSUME ListType, NEW c \in Co, NEW m \in Mutexes,
         \A i, j \in 1 .. Len(mutex_list[c]) : mutex_list[c][i] = mutex_list[c][j] => i = j
  PROVE  Without(RemoveMutex(c, m), c, m)
<1> DEFINE list == mutex_list[c]
           at == {i \in DOMAIN list : list[i] = m /\ \A j \in DOMAIN list : j < i => list[j] # m}
           k == CHOOSE i \in at : TRUE
           t == RemoveMutex(c, m)
<1>1. mutex_list \in [Co -> Seq(Mutexes)] /\ list \in Seq(Mutexes) /\ DOMAIN list = 1 .. Len(list)
      /\ Len(list) \in Nat
  BY DEF ListType
<1>2. CASE at = {}
  <2>1. t = [mutex_list EXCEPT ![c] = list]
    BY <1>2 DEF RemoveMutex
  <2>2. t = mutex_list
    BY <1>1, <2>1
  <2>3. ASSUME NEW i \in 1 .. Len(list), list[i] = m PROVE FALSE
    <3>1. \A j \in DOMAIN list : j < i => list[j] # m
      BY <1>1, <2>3
    <3> QED BY <1>1, <1>2, <2>3, <3>1
  <2>4. \A i \in 1 .. Len(list) : list[i] # m
    BY <2>3
  <2> HIDE DEF t
  <2>5. /\ \A d \in Co : d # c => t[d] = mutex_list[d]
        /\ \A i, j \in 1 .. Len(t[c]) : t[c][i] = t[c][j] => i = j
        /\ \A i \in 1 .. Len(t[c]) : t[c][i] # m
        /\ \A i \in 1 .. Len(t[c]) : \E j \in 1 .. Len(mutex_list[c]) : mutex_list[c][j] = t[c][i]
        /\ \A j \in 1 .. Len(mutex_list[c]) : \E i \in 1 .. Len(t[c]) : t[c][i] = mutex_list[c][j]
    BY <2>2, <2>4
  <2>6. Without(t, c, m)
    BY <2>5, Zenon DEF Without
  <2> QED BY <2>6 DEF t
<1>3. CASE at # {}
  <2>1. k \in at
    BY <1>3
  <2>2. k \in 1 .. Len(list) /\ list[k] = m
    BY <1>1, <2>1
  <2>3. t = [mutex_list EXCEPT ![c] = RemoveAt(list, k)]
    BY <1>3 DEF RemoveMutex
  <2>4. RemoveAt(list, k) = Cut(list, k)
    BY DEF RemoveAt, Cut
  <2> HIDE DEF k, at, t
  <2>5. t[c] = Cut(list, k) /\ \A d \in Co : d # c => t[d] = mutex_list[d]
    BY <1>1, <2>3, <2>4
  <2> DEFINE r == Cut(list, k)
  <2>6. /\ Len(r) = Len(list) - 1
        /\ \A i \in 1 .. Len(list) - 1 : r[i] = IF i < k THEN list[i] ELSE list[i + 1]
    <3> HIDE DEF list
    <3>1. list \in Seq(Mutexes) /\ k \in 1 .. Len(list)
      BY <1>1, <2>2
    <3> QED BY <3>1, CutProperties
  <2>7. \A i, j \in 1 .. Len(list) : list[i] = list[j] => i = j
    OBVIOUS
  <2> HIDE DEF list, r
  <2>8. \A i \in 1 .. Len(r) : r[i] # m /\ \E j \in 1 .. Len(list) : list[j] = r[i]
    <3> SUFFICES ASSUME NEW i \in 1 .. Len(r)
                 PROVE  r[i] # m /\ \E j \in 1 .. Len(list) : list[j] = r[i]
      OBVIOUS
    <3>1. CASE i < k
      BY <1>1, <2>2, <2>6, <2>7, <3>1
    <3>2. CASE ~(i < k)
      <4>1. r[i] = list[i + 1] /\ i + 1 \in 1 .. Len(list) /\ i + 1 # k
        BY <1>1, <2>2, <2>6, <3>2
      <4> QED BY <2>2, <2>7, <4>1
    <3> QED BY <3>1, <3>2
  <2>9. \A i, j \in 1 .. Len(r) : r[i] = r[j] => i = j
    <3> SUFFICES ASSUME NEW i \in 1 .. Len(r), NEW j \in 1 .. Len(r), r[i] = r[j] PROVE i = j
      OBVIOUS
    <3> DEFINE up(x) == IF x < k THEN x ELSE x + 1
    <3>1. /\ r[i] = list[up(i)] /\ up(i) \in 1 .. Len(list)
          /\ r[j] = list[up(j)] /\ up(j) \in 1 .. Len(list)
      BY <1>1, <2>2, <2>6
    <3>2. up(i) = up(j)
      BY <2>7, <3>1
    <3> QED BY <2>2, <3>2
  <2>10. \A j \in 1 .. Len(list) : list[j] = m \/ \E i \in 1 .. Len(r) : r[i] = list[j]
    <3> SUFFICES ASSUME NEW j \in 1 .. Len(list), list[j] # m
                 PROVE  \E i \in 1 .. Len(r) : r[i] = list[j]
      OBVIOUS
    <3>1. CASE j < k
      BY <1>1, <2>2, <2>6, <3>1
    <3>2. CASE ~(j < k)
      <4>1. j - 1 \in 1 .. Len(r) /\ r[j - 1] = list[j]
        BY <1>1, <2>2, <2>6, <3>2
      <4> QED BY <4>1
    <3> QED BY <3>1, <3>2
  <2>11. Without(t, c, m)
    BY <2>5, <2>8, <2>9, <2>10 DEF r, list, Without
  <2> QED BY <2>11 DEF t
<1> QED BY <1>2, <1>3

LEMMA FrontOnce ==
  ASSUME NEW l \in Seq(Mutexes), l # <<>>,
         \A i, j \in 1 .. Len(l) : l[i] = l[j] => i = j
  PROVE  /\ \A i, j \in 1 .. Len(Front(l)) : Front(l)[i] = Front(l)[j] => i = j
         /\ \A i \in 1 .. Len(Front(l)) :
               Front(l)[i] # Last(l) /\ \E j \in 1 .. Len(l) : l[j] = Front(l)[i]
         /\ \A j \in 1 .. Len(l) : l[j] = Last(l) \/ \E i \in 1 .. Len(Front(l)) : Front(l)[i] = l[j]
<1>1. Len(l) \in Nat \ {0}
  OBVIOUS
<1>2. PICK k \in 1 .. Len(l) : k = Len(l)
  BY <1>1
<1> DEFINE f == SubSeq(l, 1, k - 1)
<1>3. Len(f) = k - 1 /\ \A i \in 1 .. k - 1 : f[i] = l[i]
  BY <1>1, <1>2
<1>4. Front(l) = f /\ Last(l) = l[k]
  BY <1>2 DEF Front, Last
<1> HIDE DEF f
<1> QED BY <1>1, <1>2, <1>3, <1>4

(* The owner of m lets it go, out of its list and on to the next in line,   *)
(* to whom it is handed.                                                    *)
LEMMA ExitHandover ==
  ASSUME IInv, ExitInv, HandedType, NEW c \in Co, NEW m \in Mutexes, Owns(c, m), NEW ml,
         \A d \in Co : d # c => ml[d] = mutex_list[d],
         \A i, j \in 1 .. Len(ml[c]) : ml[c][i] = ml[c][j] => i = j,
         \A i \in 1 .. Len(ml[c]) :
             ml[c][i] # m /\ \E j \in 1 .. Len(mutex_list[c]) : mutex_list[c][j] = ml[c][i],
         \A j \in 1 .. Len(mutex_list[c]) :
             mutex_list[c][j] = m \/ \E i \in 1 .. Len(ml[c]) : ml[c][i] = mutex_list[c][j],
         pc[c] \notin {"ended", "lock"}
  PROVE  /\ ListedAt(ml, [colist EXCEPT ![m] = Tail(colist[m])])
         /\ HandedAt(ml, [colist EXCEPT ![m] = Tail(colist[m])], HandedOver(m))
         /\ EndedAt(ml, pc)
<1> DEFINE cl == [colist EXCEPT ![m] = Tail(colist[m])]
           hn == HandedOver(m)
<1>0. /\ colist \in [Mutexes -> Seq(Co)] /\ mutex_list \in [Co -> Seq(Mutexes)]
      /\ colist[m] \in Seq(Co) /\ colist[m] # <<>> /\ Head(colist[m]) = c
  BY DEF IInv, InvAt, TypeAt, ListType, Owns
<1>1. cl[m] = Tail(colist[m]) /\ \A n \in Mutexes : n # m => cl[n] = colist[n]
  BY <1>0
<1>2. /\ hn[c] = handed[c] \ {m}
      /\ \A d \in Co : d # c /\ Len(colist[m]) > 1 /\ d = colist[m][2] => hn[d] = handed[d] \cup {m}
      /\ \A d \in Co : d # c /\ ~(Len(colist[m]) > 1 /\ d = colist[m][2]) => hn[d] = handed[d]
  BY <1>0 DEF HandedOver
<1> HIDE DEF cl, hn
<1>3. \A d \in Co, n \in Mutexes : n # m => (HeadIs(d, n, cl) <=> HeadIs(d, n, colist))
  BY <1>1 DEF HeadIs
<1>4. \A d \in Co : HeadIs(d, m, colist) => d = c
  BY <1>0 DEF HeadIs
<1>5. \A d \in Co, n \in Mutexes : d # c => (Listed(ml, d, n) <=> Listed(mutex_list, d, n))
  BY DEF Listed
<1>6. \A n \in Mutexes : n # m => (Listed(ml, c, n) <=> Listed(mutex_list, c, n))
  BY DEF Listed
<1>7. ~Listed(ml, c, m)
  BY DEF Listed
<1>8. \A d \in Co, n \in Mutexes : n # m => (n \in hn[d] <=> n \in handed[d])
  BY <1>2
<1>9. \A d \in Co : HeadIs(d, m, cl) => d # c /\ Len(colist[m]) > 1 /\ d = colist[m][2]
  <2> SUFFICES ASSUME NEW d \in Co, HeadIs(d, m, cl)
               PROVE  d # c /\ Len(colist[m]) > 1 /\ d = colist[m][2]
    OBVIOUS
  <2>1. Tail(colist[m]) # <<>> /\ Head(Tail(colist[m])) = d
    BY <1>1 DEF HeadIs
  <2>2. Len(colist[m]) > 1 /\ colist[m][2] = d /\ 2 \in 2 .. Len(colist[m])
    BY <1>0, <2>1
  <2>3. pc[d] = "lock"
    BY <2>2 DEF IInv, InvAt, LineAt
  <2> QED BY <2>2, <2>3
<1>10. ListedAt(ml, cl)
  <2> SUFFICES ASSUME NEW d \in Co
               PROVE  /\ \A i, j \in 1 .. Len(ml[d]) : ml[d][i] = ml[d][j] => i = j
                      /\ \A i \in 1 .. Len(ml[d]) : HeadIs(d, ml[d][i], cl)
    BY DEF ListedAt
  <2>0. \A i \in 1 .. Len(mutex_list[d]) : mutex_list[d][i] \in Mutexes /\ HeadIs(d, mutex_list[d][i], colist)
    BY <1>0 DEF ExitInv, ListedAt
  <2>1. CASE d = c
    BY <1>3, <2>0, <2>1
  <2>2. CASE d # c
    <3>1. ml[d] = mutex_list[d]
      BY <2>2
    <3>2. \A i \in 1 .. Len(mutex_list[d]) : HeadIs(d, mutex_list[d][i], cl)
      BY <1>3, <1>4, <2>0, <2>2
    <3> QED BY <3>1, <3>2 DEF ExitInv, ListedAt
  <2> QED BY <2>1, <2>2
<1>11. HandedAt(ml, cl, hn)
  <2> SUFFICES ASSUME NEW d \in Co, NEW n \in Mutexes
               PROVE  /\ HeadIs(d, n, cl) /\ n \notin hn[d] => Listed(ml, d, n)
                      /\ Listed(ml, d, n) => n \notin hn[d]
    BY DEF HandedAt
  <2>0. /\ HeadIs(d, n, colist) /\ n \notin handed[d] => Listed(mutex_list, d, n)
        /\ Listed(mutex_list, d, n) => n \notin handed[d]
    BY DEF ExitInv, HandedAt
  <2>1. CASE n # m
    BY <1>3, <1>5, <1>6, <1>8, <2>0, <2>1
  <2>2. CASE n = m /\ d = c
    BY <1>2, <1>7, <1>9, <2>2
  <2>3. CASE n = m /\ d # c
    <3>1. ~Listed(mutex_list, d, m)
      BY <1>4, <2>3 DEF ExitInv, ListedAt, Listed
    <3> QED BY <1>2, <1>5, <1>9, <2>3, <3>1
  <2> QED BY <2>1, <2>2, <2>3
<1>12. EndedAt(ml, pc)
  BY DEF ExitInv, EndedAt
<1> QED BY <1>10, <1>11, <1>12 DEF cl, hn

LEMMA ExitStep == ASSUME IInv, ExitInv, HandedType, [Next]_vars PROVE ExitInv'
<1> USE MutexAssumption
<1>0. /\ ready \in Seq(Co) /\ colist \in [Mutexes -> Seq(Co)] /\ waiters \in [Conds -> Seq(Co)]
      /\ pc \in [Co -> {"run", "lock", "cond", "relock", "exit", "ended"}]
      /\ mutex_list \in [Co -> Seq(Mutexes)] /\ ListType
  BY DEF IInv, InvAt, TypeAt, ListType
<1>1. ASSUME NEW rdy \in Seq(Co), Switch(rdy, pc, holds), UNCHANGED <<colist, mutex_list, handed>>
      PROVE  ExitInv'
  <2>1. EndedAt(mutex_list', pc)
    BY <1>1 DEF ExitInv
  <2>2. EndedAt(mutex_list', pc')
    BY <1>0, <1>1, <2>1, EndedSwitch
  <2> QED BY <1>1, <2>2 DEF ExitInv
<1>2. CASE Start
  BY <1>0, <1>1, <1>2 DEF Start
<1>3. ASSUME NEW c \in Co, NEW m \in Mutexes, current = c, pc[c] \in {"run", "relock"}, LockNow(c, m)
      PROVE  ExitInv'
  <2>1. /\ colist[m] = <<>> \/ Owns(c, m)
        /\ colist' = IF colist[m] = <<>> THEN [colist EXCEPT ![m] = <<c>>] ELSE colist
        /\ mutex_list' = AppendMutex(c, m)
        /\ handed' = [handed EXCEPT ![c] = handed[c] \ {m}]
        /\ pc' = [pc EXCEPT ![c] = "run"]
    BY <1>3 DEF LockNow
  <2>2. /\ \A n \in Mutexes : n # m => colist'[n] = colist[n]
        /\ HeadIs(c, m, colist') /\ \A d \in Co : HeadIs(d, m, colist) => HeadIs(d, m, colist')
    BY <1>0, <2>1 DEF HeadIs, Owns
  <2>3. \A d \in Co, n \in Mutexes : HeadIs(d, n, colist) => HeadIs(d, n, colist')
    BY <2>2 DEF HeadIs
  <2>4. \A d \in Co : d # c => mutex_list'[d] = mutex_list[d]
    BY <1>0, <2>1 DEF AppendMutex
  <2>5. mutex_list[c] \in Seq(Mutexes)
        /\ \A i \in 1 .. Len(mutex_list[c]) : mutex_list[c][i] \in Mutexes /\ HeadIs(c, mutex_list[c][i], colist')
    BY <1>0, <2>3 DEF ExitInv, ListedAt
  <2>6. \/ mutex_list'[c] = mutex_list[c] /\ \E i \in 1 .. Len(mutex_list[c]) : mutex_list[c][i] = m
        \/ mutex_list'[c] = Append(mutex_list[c], m) /\ \A i \in 1 .. Len(mutex_list[c]) : mutex_list[c][i] # m
    BY <1>0, <2>1 DEF AppendMutex, ToSet
  <2>7. /\ \A i, j \in 1 .. Len(mutex_list'[c]) : mutex_list'[c][i] = mutex_list'[c][j] => i = j
        /\ \A i \in 1 .. Len(mutex_list'[c]) : HeadIs(c, mutex_list'[c][i], colist')
        /\ \A n \in Mutexes : Listed(mutex_list', c, n) <=> n = m \/ Listed(mutex_list, c, n)
    <3>1. CASE mutex_list'[c] = mutex_list[c] /\ \E i \in 1 .. Len(mutex_list[c]) : mutex_list[c][i] = m
      BY <2>5, <3>1 DEF ExitInv, ListedAt, Listed
    <3>2. CASE mutex_list'[c] = Append(mutex_list[c], m) /\ \A i \in 1 .. Len(mutex_list[c]) : mutex_list[c][i] # m
      <4> DEFINE s == mutex_list[c]
                 t == mutex_list'[c]
      <4>1. /\ Len(t) = Len(s) + 1 /\ Len(s) \in Nat /\ t[Len(s) + 1] = m
            /\ \A i \in 1 .. Len(s) : t[i] = s[i]
        BY <2>5, <3>2, AppendProperties
      <4>2. \A i, j \in 1 .. Len(s) : s[i] = s[j] => i = j
        BY DEF ExitInv, ListedAt
      <4> HIDE DEF s, t
      <4>3. \A i \in 1 .. Len(t) : i \in 1 .. Len(s) \/ i = Len(s) + 1
        BY <4>1
      <4>4. \A i \in 1 .. Len(s) : s[i] # m
        BY <3>2 DEF s
      <4>5. \A i, j \in 1 .. Len(t) : t[i] = t[j] => i = j
        BY <4>1, <4>2, <4>3, <4>4
      <4>6. \A i \in 1 .. Len(t) : HeadIs(c, t[i], colist')
        BY <2>2, <2>5, <4>1, <4>3 DEF s
      <4>7. ASSUME NEW n \in Mutexes
            PROVE  (\E i \in 1 .. Len(t) : t[i] = n) <=> n = m \/ \E i \in 1 .. Len(s) : s[i] = n
        BY <4>1, <4>3
      <4> QED BY <4>5, <4>6, <4>7 DEF s, t, Listed
    <3> QED BY <2>6, <3>1, <3>2
  <2>8. ListedAt(mutex_list', colist') /\ EndedAt(mutex_list', pc')
    <3> SUFFICES ASSUME NEW d \in Co
                 PROVE  /\ \A i, j \in 1 .. Len(mutex_list'[d]) : mutex_list'[d][i] = mutex_list'[d][j] => i = j
                        /\ \A i \in 1 .. Len(mutex_list'[d]) : HeadIs(d, mutex_list'[d][i], colist')
                        /\ pc'[d] = "ended" => mutex_list'[d] = <<>>
      BY DEF ListedAt, EndedAt
    <3>1. CASE d = c
      BY <1>0, <2>1, <2>7, <3>1
    <3>2. CASE d # c
      <4>1. mutex_list'[d] = mutex_list[d] /\ pc'[d] = pc[d]
        BY <1>0, <2>1, <2>4, <3>2
      <4>2. \A i \in 1 .. Len(mutex_list[d]) : mutex_list[d][i] \in Mutexes /\ HeadIs(d, mutex_list[d][i], colist)
        BY <1>0 DEF ExitInv, ListedAt
      <4> QED BY <2>3, <4>1, <4>2 DEF ExitInv, ListedAt, EndedAt
    <3> QED BY <3>1, <3>2
  <2>9. HandedAt(mutex_list', colist', handed')
    <3> SUFFICES ASSUME NEW d \in Co, NEW n \in Mutexes
                 PROVE  /\ HeadIs(d, n, colist') /\ n \notin handed'[d] => Listed(mutex_list', d, n)
                        /\ Listed(mutex_list', d, n) => n \notin handed'[d]
      BY DEF HandedAt
    <3>0. /\ HeadIs(d, n, colist) /\ n \notin handed[d] => Listed(mutex_list, d, n)
          /\ Listed(mutex_list, d, n) => n \notin handed[d]
      BY DEF ExitInv, HandedAt
    <3>1. handed'[c] = handed[c] \ {m} /\ \A e \in Co : e # c => handed'[e] = handed[e]
      BY <2>1 DEF HandedType
    <3>2. n # m => (HeadIs(d, n, colist') <=> HeadIs(d, n, colist))
      BY <2>2 DEF HeadIs
    <3>3. CASE d = c
      BY <2>7, <3>0, <3>1, <3>2, <3>3
    <3>4. CASE d # c
      <4>1. Listed(mutex_list', d, n) <=> Listed(mutex_list, d, n)
        BY <2>4, <3>4 DEF Listed
      <4>2. n = m => ~HeadIs(d, n, colist')
        BY <2>2, <3>4 DEF HeadIs
      <4> QED BY <3>0, <3>1, <3>2, <3>4, <4>1, <4>2
    <3> QED BY <3>3, <3>4
  <2> QED BY <2>8, <2>9 DEF ExitInv
<1>4. ASSUME NEW c \in Co, NEW m \in Mutexes, current = c, pc[c] \in {"run", "relock"}, LockWait(c, m)
      PROVE  ExitInv'
  <2> DEFINE pcs == [pc EXCEPT ![c] = "lock"]
  <2>1. /\ colist[m] # <<>> /\ colist' = [colist EXCEPT ![m] = Append(colist[m], c)]
        /\ Switch(ready, pcs, holds) /\ mutex_list' = mutex_list /\ handed' = handed
    BY <1>4 DEF LockWait
  <2>2. colist[m] \in Seq(Co) /\ colist'[m] = Append(colist[m], c)
        /\ \A n \in Mutexes : n # m => colist'[n] = colist[n]
    BY <1>0, <2>1
  <2>3. colist'[m] # <<>> /\ Head(colist'[m]) = Head(colist[m])
    BY <2>1, <2>2, AppendProperties, HeadTailAppend
  <2>4. \A d \in Co, n \in Mutexes : HeadIs(d, n, colist') <=> HeadIs(d, n, colist)
    BY <2>1, <2>2, <2>3 DEF HeadIs
  <2>5. pcs \in [Co -> {"run", "lock", "cond", "relock", "exit", "ended"}]
        /\ pcs[c] = "lock" /\ \A d \in Co : d # c => pcs[d] = pc[d]
    BY <1>0
  <2> HIDE DEF pcs
  <2>6. ListedAt(mutex_list', colist')
    <3>1. \A d \in Co : \A i \in 1 .. Len(mutex_list[d]) : mutex_list[d][i] \in Mutexes
      BY <1>0
    <3> QED BY <2>1, <2>4, <3>1 DEF ExitInv, ListedAt
  <2>7. HandedAt(mutex_list', colist', handed')
    BY <2>1, <2>4 DEF ExitInv, HandedAt
  <2>8. EndedAt(mutex_list', pcs)
    BY <2>1, <2>5 DEF ExitInv, EndedAt
  <2>9. EndedAt(mutex_list', pc')
    BY <1>0, <2>1, <2>5, <2>8, EndedSwitch
  <2> QED BY <2>6, <2>7, <2>9 DEF ExitInv
<1>5. ASSUME NEW c \in Co, NEW m \in Mutexes, Lock(c, m) PROVE ExitInv'
  BY <1>3, <1>4, <1>5 DEF Lock, Running
<1>6. ASSUME NEW c \in Co, Relock(c) PROVE ExitInv'
  <2>1. current = c /\ pc[c] = "relock" /\ want[c] \in Mutexes
    BY <1>6 DEF Relock, IInv, InvAt, RunAt
  <2> QED BY <1>3, <1>4, <1>6, <2>1 DEF Relock
<1>7. ASSUME NEW c \in Co, NEW m \in Mutexes, Owns(c, m), pc[c] \notin {"ended", "lock"}
      PROVE  /\ ListedAt(RemoveMutex(c, m), [colist EXCEPT ![m] = Tail(colist[m])])
             /\ HandedAt(RemoveMutex(c, m), [colist EXCEPT ![m] = Tail(colist[m])], HandedOver(m))
             /\ EndedAt(RemoveMutex(c, m), pc)
  <2>1. \A i, j \in 1 .. Len(mutex_list[c]) : mutex_list[c][i] = mutex_list[c][j] => i = j
    BY DEF ExitInv, ListedAt
  <2> DEFINE t == RemoveMutex(c, m)
  <2>2. /\ \A d \in Co : d # c => t[d] = mutex_list[d]
        /\ \A i, j \in 1 .. Len(t[c]) : t[c][i] = t[c][j] => i = j
        /\ \A i \in 1 .. Len(t[c]) : t[c][i] # m /\ \E j \in 1 .. Len(mutex_list[c]) : mutex_list[c][j] = t[c][i]
        /\ \A j \in 1 .. Len(mutex_list[c]) :
              mutex_list[c][j] = m \/ \E i \in 1 .. Len(t[c]) : t[c][i] = mutex_list[c][j]
    <3>1. Without(t, c, m)
      BY <1>0, <2>1, RemovedMutex
    <3> HIDE DEF t
    <3> QED BY <3>1 DEF Without
  <2> HIDE DEF t
  <2>3. /\ ListedAt(t, [colist EXCEPT ![m] = Tail(colist[m])])
        /\ HandedAt(t, [colist EXCEPT ![m] = Tail(colist[m])], HandedOver(m))
        /\ EndedAt(t, pc)
    BY <1>7, <2>2, ExitHandover
  <2> QED BY <2>3 DEF t
<1>8. ASSUME NEW c \in Co, NEW m \in Mutexes, Unlock(c, m) PROVE ExitInv'
  <2>1. /\ Owns(c, m) /\ pc[c] = "run" /\ pc' = pc /\ handed' = HandedOver(m)
        /\ colist' = [colist EXCEPT ![m] = Tail(colist[m])]
        /\ mutex_list' = RemoveMutex(c, m)
    BY <1>8 DEF Unlock, Running
  <2> QED BY <1>7, <2>1 DEF ExitInv
<1>9. ASSUME NEW c \in Co, NEW v \in Conds, NEW m \in Mutexes, CondWait(c, v, m) PROVE ExitInv'
  <2> DEFINE pcs == [pc EXCEPT ![c] = "cond"]
  <2>1. current = c /\ pc[c] = "run"
    BY <1>9 DEF CondWait, Running
  <2>2. pcs \in [Co -> {"run", "lock", "cond", "relock", "exit", "ended"}]
        /\ pcs[c] = "cond" /\ (\A d \in Co : d # c => pcs[d] = pc[d])
    BY <1>0
  <2> HIDE DEF pcs
  <2>3. ASSUME NEW rdy \in Seq(Co), NEW hd, Switch(rdy, pcs, hd), EndedAt(mutex_list', pc)
        PROVE  EndedAt(mutex_list', pc')
    <3>1. EndedAt(mutex_list', pcs)
      BY <2>2, <2>3 DEF EndedAt
    <3> QED BY <2>2, <2>3, <3>1, EndedSwitch
  <2>4. CASE Owns(c, m)
    <3>1. /\ colist' = [colist EXCEPT ![m] = Tail(colist[m])] /\ mutex_list' = RemoveMutex(c, m)
          /\ Switch(Handover(m), pcs, UnlockedBy(c, m)) /\ handed' = HandedOver(m)
      BY <1>9, <2>4 DEF CondWait, pcs
    <3>2. InvAt(c, Handover(m), pc, want, [colist EXCEPT ![m] = Tail(colist[m])], waiters, UnlockedBy(c, m))
      BY <2>1, <2>4, HandoverInv
    <3>3. Handover(m) \in Seq(Co)
      BY <3>2 DEF InvAt, TypeAt
    <3>4. /\ ListedAt(mutex_list', colist') /\ HandedAt(mutex_list', colist', handed')
          /\ EndedAt(mutex_list', pc)
      BY <1>7, <2>1, <2>4, <3>1
    <3> QED BY <2>3, <3>1, <3>3, <3>4 DEF ExitInv
  <2>5. CASE ~Owns(c, m)
    <3>1. colist' = colist /\ mutex_list' = mutex_list /\ handed' = handed /\ Switch(ready, pcs, holds)
      BY <1>9, <2>5 DEF CondWait, pcs
    <3> QED BY <1>0, <2>3, <3>1 DEF ExitInv
  <2> QED BY <2>4, <2>5
<1>10. ASSUME NEW c \in Co, NEW v \in Conds, CondSignal(c, v) PROVE ExitInv'
  <2> DEFINE rdy == Append(Append(ready, Head(waiters[v])), c)
  <2>1. Switch(rdy, pc, holds) /\ UNCHANGED <<colist, mutex_list, handed>> /\ waiters[v] # <<>>
    BY <1>10 DEF CondSignal
  <2>2. Head(waiters[v]) \in Co
    BY <1>0, <2>1
  <2>3. rdy \in Seq(Co)
    BY <1>0, <2>2
  <2> HIDE DEF rdy
  <2> QED BY <1>1, <2>1, <2>3
<1>11. ASSUME NEW c \in Co, NEW v \in Conds, CondBroadcast(c, v) PROVE ExitInv'
  <2> DEFINE rdy == ready \o waiters[v] \o <<c>>
  <2>1. Switch(rdy, pc, holds) /\ UNCHANGED <<colist, mutex_list, handed>>
    BY <1>11 DEF CondBroadcast, Woken
  <2>2. rdy \in Seq(Co)
    BY <1>0
  <2> HIDE DEF rdy
  <2> QED BY <1>1, <2>1, <2>2
<1>12. ASSUME NEW c \in Co, Yield(c) PROVE ExitInv'
  <2>1. Append(ready, c) \in Seq(Co)
    BY <1>0
  <2> QED BY <1>1, <1>12, <2>1 DEF Yield, Requeued
<1>13. ASSUME NEW c \in Co, Exit(c) PROVE ExitInv'
  <2>1. /\ pc[c] = "run" /\ pc' = [pc EXCEPT ![c] = "exit"]
        /\ UNCHANGED <<colist, mutex_list, handed>>
    BY <1>13 DEF Exit, Running
  <2>2. pc'[c] = "exit" /\ \A d \in Co : d # c => pc'[d] = pc[d]
    BY <1>0, <2>1
  <2>3. EndedAt(mutex_list, pc')
    BY <2>1, <2>2 DEF ExitInv, EndedAt
  <2> QED BY <2>1, <2>3 DEF ExitInv
<1>14. ASSUME NEW c \in Co, ReleaseOne(c) PROVE ExitInv'
  <2> DEFINE l == mutex_list[c]
             m == Last(l)
  <2>1. /\ pc[c] = "exit" /\ l # <<>> /\ l \in Seq(Mutexes)
        /\ mutex_list' = [mutex_list EXCEPT ![c] = Front(l)]
        /\ UNCHANGED pc
    BY <1>0, <1>14 DEF ReleaseOne
  <2>2. m \in Mutexes /\ Len(l) \in 1 .. Len(l) /\ m = l[Len(l)]
    BY <2>1 DEF Last
  <2>3. Owns(c, m)
    BY <2>2 DEF ExitInv, ListedAt, HeadIs, Owns
  <2>4. colist' = [colist EXCEPT ![m] = Tail(colist[m])] /\ handed' = HandedOver(m)
    BY <1>14, <2>3 DEF ReleaseOne
  <2>5. \A i, j \in 1 .. Len(l) : l[i] = l[j] => i = j
    BY DEF ExitInv, ListedAt
  <2>6. /\ \A d \in Co : d # c => mutex_list'[d] = mutex_list[d]
        /\ mutex_list'[c] = Front(l)
    BY <1>0, <2>1
  <2>7. /\ \A i, j \in 1 .. Len(Front(l)) : Front(l)[i] = Front(l)[j] => i = j
        /\ \A i \in 1 .. Len(Front(l)) : Front(l)[i] # m /\ \E j \in 1 .. Len(l) : l[j] = Front(l)[i]
        /\ \A j \in 1 .. Len(l) : l[j] = m \/ \E i \in 1 .. Len(Front(l)) : Front(l)[i] = l[j]
    BY <2>1, <2>5, FrontOnce
  <2> DEFINE ml == mutex_list'
  <2>9. /\ \A d \in Co : d # c => ml[d] = mutex_list[d]
        /\ \A i, j \in 1 .. Len(ml[c]) : ml[c][i] = ml[c][j] => i = j
        /\ \A i \in 1 .. Len(ml[c]) :
              ml[c][i] # m /\ \E j \in 1 .. Len(mutex_list[c]) : mutex_list[c][j] = ml[c][i]
        /\ \A j \in 1 .. Len(mutex_list[c]) :
              mutex_list[c][j] = m \/ \E i \in 1 .. Len(ml[c]) : ml[c][i] = mutex_list[c][j]
    BY <2>6, <2>7
  <2>10. pc[c] \notin {"ended", "lock"}
    BY <2>1
  <2> HIDE DEF m, ml
  <2>8. /\ ListedAt(ml, [colist EXCEPT ![m] = Tail(colist[m])])
        /\ HandedAt(ml, [colist EXCEPT ![m] = Tail(colist[m])], HandedOver(m))
        /\ EndedAt(ml, pc)
    BY <2>2, <2>3, <2>9, <2>10, ExitHandover
  <2> QED BY <2>1, <2>4, <2>8 DEF ExitInv, ml
<1>15. ASSUME NEW c \in Co, Ended(c) PROVE ExitInv'
  <2> DEFINE pcs == [pc EXCEPT ![c] = "ended"]
  <2>1. /\ mutex_list[c] = <<>> /\ Switch(ready, pcs, holds)
        /\ colist' = colist /\ mutex_list' = mutex_list /\ handed' = handed
    BY <1>15 DEF Ended
  <2>2. pcs \in [Co -> {"run", "lock", "cond", "relock", "exit", "ended"}]
        /\ pcs[c] = "ended" /\ \A d \in Co : d # c => pcs[d] = pc[d]
    BY <1>0
  <2> HIDE DEF pcs
  <2>3. EndedAt(mutex_list', pcs)
    BY <2>1, <2>2 DEF ExitInv, EndedAt
  <2>4. EndedAt(mutex_list', pc')
    BY <1>0, <2>1, <2>2, <2>3, EndedSwitch
  <2> QED BY <2>1, <2>4 DEF ExitInv
<1>16. CASE UNCHANGED vars
  BY <1>16 DEF vars, ExitInv
<1> QED
  BY <1>2, <1>5, <1>6, <1>8, <1>9, <1>10, <1>11, <1>12, <1>13, <1>14, <1>15, <1>16 DEF Next, Step

(* What zcoroutine_release_all_mutex works through is, at any time, what    *)
(* the coroutine owns without what was handed to it: an exit unlocks no     *)
(* mutex of another coroutine and every one it locked itself.               *)
THEOREM ExitReleases == Spec => []ExitReleasesListed
<1>1. Init => ExitInv
  BY DEF Init, ExitInv, ListedAt, HandedAt, EndedAt, Listed, HeadIs
<1>2. IInv /\ HandedType /\ ExitInv /\ [Next]_vars => ExitInv'
  BY ExitStep
<1>3. IInv /\ ExitInv => ExitReleasesListed
  <2> SUFFICES ASSUME IInv, ExitInv PROVE ExitReleasesListed
    OBVIOUS
  <2>0. colist \in [Mutexes -> Seq(Co)] /\ mutex_list \in [Co -> Seq(Mutexes)]
    BY DEF IInv, InvAt, TypeAt, ListType
  <2>1. ASSUME NEW c \in Co
        PROVE  ToSet(mutex_list[c]) = {m \in Mutexes : Owns(c, m)} \ handed[c]
    <3>1. DOMAIN mutex_list[c] = 1 .. Len(mutex_list[c])
      BY <2>0
    <3>2. ASSUME NEW m \in Mutexes PROVE m \in ToSet(mutex_list[c]) <=> Listed(mutex_list, c, m)
      BY <3>1 DEF ToSet, Listed
    <3>3. ToSet(mutex_list[c]) \subseteq Mutexes
      BY <2>0, <3>1 DEF ToSet
    <3>4. ASSUME NEW m \in Mutexes PROVE Listed(mutex_list, c, m) => Owns(c, m)
      BY DEF Listed, ExitInv, ListedAt, HeadIs, Owns
    <3>5. ASSUME NEW m \in Mutexes
          PROVE  Listed(mutex_list, c, m) <=> Owns(c, m) /\ m \notin handed[c]
      BY <3>4 DEF ExitInv, HandedAt, HeadIs, Owns
    <3> QED BY <3>2, <3>3, <3>5
  <2>2. ASSUME NEW c \in Co, pc[c] = "ended", NEW m \in Mutexes, c \in ToSet(colist[m])
        PROVE  Owns(c, m) /\ m \in handed[c]
    <3>0. DOMAIN colist[m] = 1 .. Len(colist[m]) /\ Len(colist[m]) \in Nat
      BY <2>0
    <3>1. PICK i \in 1 .. Len(colist[m]) : colist[m][i] = c
      BY <2>2, <3>0 DEF ToSet
    <3>2. i = 1
      <4>1. i # 1 => i \in 2 .. Len(colist[m])
        BY <3>0
      <4> QED BY <2>2, <3>1, <4>1 DEF IInv, InvAt, LineAt
    <3>3. HeadIs(c, m, colist)
      BY <2>0, <3>1, <3>2 DEF HeadIs
    <3>4. ~Listed(mutex_list, c, m)
      BY <2>2 DEF ExitInv, EndedAt, Listed
    <3> QED BY <3>3, <3>4 DEF Owns, HeadIs, ExitInv, HandedAt
  <2> QED BY <2>1, <2>2 DEF ExitReleasesListed
<1> QED BY <1>1, <1>2, <1>3, InvAlways, HandedAlways, PTL DEF Spec
=============================================================================
