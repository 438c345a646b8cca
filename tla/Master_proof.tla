---------------------------- MODULE Master_proof ----------------------------
(* Theorems about the master and its processes, for every number of         *)
(* processes, services, addresses and configurations and any number of      *)
(* reloads.                                                                  *)
EXTENDS Master, FiniteSetTheorems, TLAPS

(* The types the other parts rest on.                                       *)
MasterType ==
    /\ loaded \in Configs \cup {Empty}
    /\ gen \in Nat
    /\ count \in [Names -> Int]
    /\ todo \in [Names -> Seq(Uris)]
    /\ listens \in [Uris -> Nat]
    /\ used \subseteq Uris
    /\ given \in [Names -> SUBSET Uris]
    /\ children \subseteq Procs
    /\ server \in [Procs -> Names \cup {None}]
    /\ uris \in [Procs -> SUBSET Uris]
    /\ state \in [Procs -> {"dead", "forked", "serving"}]
    /\ pipe \in [Procs -> Nat]
    /\ detach \in [Procs -> {"no", "asked", "dealt"}]

(* No process holds a pipe of a generation to come: a reload makes every    *)
(* running process one of an older generation.                              *)
PipeBound == \A p \in Procs : pipe[p] <= gen

(* What a reload has done so far: every address of the configuration is     *)
(* given to its service or still to come, an address that is marked is      *)
(* open, and nobody has been forked in the new generation.                  *)
Reloading ==
    /\ \A s \in Names : given[s] \cup ToSet(todo[s]) = Wanted(loaded, s)
    /\ \A u \in used : listens[u] # 0
    /\ IF Preparing
       THEN gen > 0 /\ (\A s \in Names : count[s] = 0) /\ \A p \in Procs : pipe[p] < gen
       ELSE \A s \in Names : todo[s] = <<>>

IInv == MasterType /\ PipeBound /\ NoDangling /\ CountMatches /\ ListenExact /\ Reloading

-----------------------------------------------------------------------------
LEMMA InConfig == Configs \cup {Empty} \subseteq Config
<1>1. <<>> \in Seq(Uris) /\ 0 \in Nat
  OBVIOUS
<1>2. Empty \in Config
  BY <1>1 DEF Empty, Config
<1> QED BY <1>2, MasterAssumption

LEMMA ConfigType ==
  ASSUME NEW c \in Configs \cup {Empty}
  PROVE  /\ \A s \in Names : Limit(c, s) \in Nat
         /\ AllWanted(c) \subseteq Uris
         /\ \A s \in Names : Wanted(c, s) \subseteq Uris
<1>1. c \in Config
  BY InConfig
<1>2. \A s \in Names : c[s].uris \in Seq(Uris) /\ c[s].limit \in Nat
  BY <1>1 DEF Config
<1>3. \A s \in Names : Wanted(c, s) \subseteq Uris
  BY <1>2 DEF Wanted, ToSet
<1> QED BY <1>2, <1>3 DEF Limit, AllWanted

LEMMA ConfigUris ==
  ASSUME NEW c \in Configs \cup {Empty}
  PROVE  [s \in Names |-> c[s].uris] \in [Names -> Seq(Uris)]
<1>1. c \in Config
  BY InConfig
<1> QED BY <1>1 DEF Config

LEMMA ToSetEmpty == ToSet(<<>>) = {}
BY DEF ToSet

LEMMA ToSetHead ==
  ASSUME NEW w \in Seq(Uris), w # <<>>
  PROVE  /\ Head(w) \in Uris /\ Tail(w) \in Seq(Uris)
         /\ ToSet(w) = {Head(w)} \cup ToSet(Tail(w))
<1>1. /\ Head(w) \in Uris /\ Tail(w) \in Seq(Uris) /\ Head(w) = w[1] /\ Len(w) \in Nat \ {0}
      /\ Len(Tail(w)) = Len(w) - 1
      /\ \A i \in 1..Len(Tail(w)) : Tail(w)[i] = w[i + 1]
  OBVIOUS
<1>2. ToSet(Tail(w)) \subseteq ToSet(w)
  BY <1>1 DEF ToSet
<1>3. ASSUME NEW i \in 1..Len(w) PROVE w[i] \in {Head(w)} \cup ToSet(Tail(w))
  <2>1. CASE i = 1
    BY <1>1, <2>1
  <2>2. CASE i # 1
    <3>1. PICK j \in 1..Len(Tail(w)) : j = i - 1
      BY <1>1, <2>2
    <3>2. Tail(w)[j] = w[i]
      BY <1>1, <3>1
    <3>3. Tail(w)[j] \in ToSet(Tail(w))
      <4>1. DOMAIN Tail(w) = 1..Len(Tail(w))
        BY <1>1
      <4> QED BY <4>1, Zenon DEF ToSet
    <3> QED BY <3>2, <3>3
  <2> QED BY <2>1, <2>2
<1> QED BY <1>1, <1>2, <1>3 DEF ToSet

LEMMA EmptyWants ==
  AllWanted(Empty) = {} /\ \A s \in Names : Limit(Empty, s) = 0 /\ Wanted(Empty, s) = {}
<1>1. \A s \in Names : Empty[s].uris = <<>>
  BY DEF Empty
<1>2. \A s \in Names : Wanted(Empty, s) = {}
  BY <1>1 DEF Wanted, ToSet
<1> QED BY <1>1, <1>2 DEF AllWanted, Limit

(* When nothing is left to do, what is given is what is wanted.             *)
LEMMA GivenAll ==
  ASSUME Reloading, \A s \in Names : todo[s] = <<>>, ListenExact
  PROVE  (\A s \in Names : given[s] = Wanted(loaded, s)) /\ used = AllWanted(loaded)
<1>1. \A s \in Names : given[s] = Wanted(loaded, s)
  BY ToSetEmpty DEF Reloading
<1> QED BY <1>1 DEF ListenExact, AllWanted

LEMMA InvInit == Init => IInv
<1> SUFFICES ASSUME Init PROVE IInv
  OBVIOUS
<1>1. MasterType
  <2>1. /\ gen \in Nat /\ count \in [Names -> Int] /\ listens \in [Uris -> Nat]
        /\ server \in [Procs -> Names \cup {None}] /\ uris \in [Procs -> SUBSET Uris]
    BY DEF Init
  <2>2. /\ state \in [Procs -> {"dead", "forked", "serving"}] /\ pipe \in [Procs -> Nat]
        /\ detach \in [Procs -> {"no", "asked", "dealt"}]
    BY DEF Init, ServiceInitState
  <2>3. loaded = Empty /\ children = {} /\ used = {} /\ given \in [Names -> SUBSET Uris]
    BY DEF Init
  <2>4. todo \in [Names -> Seq(Uris)]
    <3>1. <<>> \in Seq(Uris)
      OBVIOUS
    <3> QED BY <3>1 DEF Init
  <2> QED BY <2>1, <2>2, <2>3, <2>4 DEF MasterType
<1>2. PipeBound
  <2>1. gen = 0 /\ pipe = [p \in Procs |-> 0]
    BY DEF Init, ServiceInitState
  <2> SUFFICES ASSUME NEW p \in Procs PROVE pipe[p] <= gen
    BY DEF PipeBound
  <2> QED BY <2>1
<1>3. NoDangling
  BY DEF Init, NoDangling
<1>4. CountMatches
  <2>1. NoneUncounted
    BY DEF Init, ServiceInitState, NoneUncounted, Alive
  <2>2. \A s \in Names : {p \in children : server[p] = s} = {}
    BY DEF Init
  <2>3. \A s \in Names : count[s] = 0 /\ Limit(loaded, s) = 0
    BY EmptyWants DEF Init
  <2> QED BY <2>1, <2>2, <2>3, FS_EmptySet DEF CountMatches
<1>5. ListenExact
  BY EmptyWants DEF Init, ListenExact
<1>6. Reloading
  BY EmptyWants, ToSetEmpty DEF Init, Reloading, Preparing
<1> QED BY <1>1, <1>2, <1>3, <1>4, <1>5, <1>6 DEF IInv
-----------------------------------------------------------------------------
(* The steps of the master's loop.                                          *)

LEMMA ReloadInv ==
  ASSUME IInv, NEW c \in Configs \cup {Empty}, ReloadServer(c) PROVE IInv'
<1> USE MasterAssumption DEF IInv
<1>0. /\ loaded' = c /\ gen' = gen + 1 /\ count' = [s \in Names |-> 0]
      /\ todo' = [s \in Names |-> c[s].uris] /\ used' = {} /\ given' = [s \in Names |-> {}]
      /\ UNCHANGED <<listens, children, server, uris, state, pipe, detach>>
      /\ gen \in Nat /\ pipe \in [Procs -> Nat] /\ Preparing'
  BY DEF ReloadServer, SetUnused, MasterType, childVars, procVars, Preparing
<1>1. MasterType'
  BY <1>0, ConfigUris DEF MasterType
<1>2. PipeBound'
  BY <1>0 DEF PipeBound
<1>3. NoDangling'
  BY <1>0 DEF NoDangling
<1>4. \A p \in Procs : pipe'[p] < gen'
  BY <1>0 DEF PipeBound
<1>5. CountMatches'
  <2>1. \A p \in Procs : pipe'[p] # gen'
    BY <1>0 DEF PipeBound
  <2>2. NoneUncounted'
    BY <2>1 DEF NoneUncounted
  <2>3. \A s \in Names : count'[s] = 0 /\ Limit(loaded', s) \in Nat
    BY <1>0, ConfigType
  <2> QED BY <1>0, <2>2, <2>3 DEF CountMatches
<1>6. ListenExact'
  BY <1>0 DEF ListenExact
<1>7. Reloading'
  <2>1. gen' > 0 /\ \A s \in Names : count'[s] = 0
    BY <1>0
  <2>2. \A s \in Names : given'[s] \cup ToSet(todo'[s]) = Wanted(loaded', s)
    BY <1>0 DEF Wanted
  <2> QED BY <1>0, <1>4, <2>1, <2>2 DEF Reloading
<1> QED BY <1>1, <1>2, <1>3, <1>5, <1>6, <1>7

(* One address: it is nobody's yet, and open and marked afterwards.         *)
LEMMA PrepareInv ==
  ASSUME IInv, NEW s \in Names, PrepareListen(s) PROVE IInv'
<1> USE MasterAssumption DEF IInv
<1> DEFINE u == Head(todo[s])
<1>0. /\ Preparing /\ todo[s] # <<>> /\ u \notin used
      /\ todo' = [todo EXCEPT ![s] = Tail(todo[s])]
      /\ listens' = [listens EXCEPT ![u] = Opened(u)]
      /\ used' = used \cup {u} /\ given' = [given EXCEPT ![s] = given[s] \cup {u}]
      /\ UNCHANGED <<phase, loaded, gen, count, childVars, procVars>>
  BY DEF PrepareListen, Turn, Marked
<1>1. /\ u \in Uris /\ Tail(todo[s]) \in Seq(Uris)
      /\ ToSet(todo[s]) = {u} \cup ToSet(Tail(todo[s]))
  BY <1>0, ToSetHead DEF MasterType
<1>2. Opened(u) \in Nat /\ Opened(u) # 0
  BY <1>0, <1>1 DEF Opened, MasterType, Reloading
<1> HIDE DEF u
<1>3. MasterType'
  <2>1. listens' \in [Uris -> Nat]
    BY <1>0, <1>1, <1>2 DEF MasterType
  <2>2. todo' \in [Names -> Seq(Uris)] /\ given' \in [Names -> SUBSET Uris] /\ used' \subseteq Uris
    BY <1>0, <1>1 DEF MasterType
  <2> QED BY <1>0, <2>1, <2>2 DEF MasterType, childVars, procVars
<1>4. PipeBound'
  BY <1>0 DEF PipeBound, procVars
<1>5. Preparing' /\ Ended' = Ended
  BY <1>0 DEF Preparing, Ended
<1>6. NoDangling'
  BY <1>5 DEF NoDangling
<1>7. CountMatches'
  BY <1>0, <1>5 DEF CountMatches, NoneUncounted, childVars, procVars, Alive, StatusClosed
<1>8. ListenExact'
  <2>1. \A t \in Names : u \notin given[t]
    BY <1>0 DEF ListenExact
  <2>2. \A t \in Names : given'[t] = IF t = s THEN given[t] \cup {u} ELSE given[t]
    BY <1>0 DEF MasterType
  <2>3. used' = UNION {given'[t] : t \in Names}
    <3>1. u \in given'[s] /\ \A t \in Names : given[t] \subseteq given'[t]
                                           /\ given'[t] \subseteq given[t] \cup {u}
      BY <2>2
    <3>2. used = UNION {given[t] : t \in Names}
      BY DEF ListenExact
    <3>3. used' = used \cup {u}
      BY <1>0
    <3>4. ASSUME NEW v PROVE v \in used' <=> \E t \in Names : v \in given'[t]
      <4>1. v \in used <=> \E t \in Names : v \in given[t]
        BY <3>2
      <4> QED BY ONLY <3>1, <3>3, <4>1, s \in Names
    <3> QED BY <3>4
  <2>4. \A r, t \in Names : r # t => given'[r] \cap given'[t] = {}
    BY <2>1, <2>2 DEF ListenExact
  <2> QED BY <1>5, <2>3, <2>4 DEF ListenExact
<1>9. Reloading'
  <2>1. \A t \in Names : given'[t] \cup ToSet(todo'[t]) = Wanted(loaded', t)
    BY <1>0, <1>1 DEF Reloading, MasterType
  <2>2. \A v \in used' : listens'[v] # 0
    BY <1>0, <1>1, <1>2 DEF Reloading, MasterType
  <2> QED BY <1>0, <1>5, <2>1, <2>2 DEF Reloading, procVars
<1> QED BY <1>3, <1>4, <1>6, <1>7, <1>8, <1>9

(* release_unused_listen and remove_old_child: what is open is what is      *)
(* marked, and what is marked is what the configuration wants.              *)
LEMMA ReleaseInv ==
  ASSUME IInv, ReleaseUnused PROVE IInv'
<1> USE MasterAssumption DEF IInv
<1>0. /\ Preparing /\ \A s \in Names : todo[s] = <<>>
      /\ phase' \in {"initstart", "start"}
      /\ listens' = [u \in Uris |-> Released(u)]
      /\ server' = [p \in Procs |-> None]
      /\ UNCHANGED <<loaded, gen, count, todo, used, given, children, uris, state, pipe, detach>>
  BY DEF ReleaseUnused, Forgotten
<1>1. ~Preparing'
  BY <1>0 DEF Preparing
<1>2. \A u \in Uris : Released(u) \in Nat /\ (Released(u) # 0 <=> u \in used)
  BY DEF Released, Reloading, MasterType
<1>3. MasterType'
  BY <1>0, <1>2 DEF MasterType
<1>4. PipeBound'
  BY <1>0 DEF PipeBound
<1>5. NoDangling'
  BY <1>0 DEF NoDangling
<1>6. CountMatches'
  <2>1. \A p \in Procs : pipe'[p] # gen'
    BY <1>0 DEF Reloading, MasterType
  <2>2. NoneUncounted'
    BY <2>1 DEF NoneUncounted
  <2>3. \A s \in Names : {p \in children' : server'[p] = s} = {}
    BY <1>0 DEF MasterType
  <2>4. \A s \in Names : count'[s] = 0 /\ count'[s] <= Limit(loaded', s)
    BY <1>0 DEF Reloading, CountMatches
  <2> QED BY <2>2, <2>3, <2>4, FS_EmptySet DEF CountMatches
<1>7. ListenExact'
  <2>1. (\A s \in Names : given[s] = Wanted(loaded, s)) /\ used = AllWanted(loaded)
    BY <1>0, GivenAll
  <2>2. {u \in Uris : listens'[u] # 0} = used
    BY <1>0, <1>2 DEF MasterType
  <2> QED BY <1>0, <2>1, <2>2 DEF ListenExact
<1>8. Reloading'
  BY <1>0, <1>1, <1>2 DEF Reloading, MasterType
<1> QED BY <1>3, <1>4, <1>5, <1>6, <1>7, <1>8

(* start_all_child: whoever is forked was no child, and is counted.         *)
LEMMA StartInv ==
  ASSUME IInv, NEW f \in Starts, StartAllChild(f) PROVE IInv'
<1> USE MasterAssumption DEF IInv
<1> DEFINE started == Started(f)
<1>0. /\ count' = [s \in Names |-> count[s] + Cardinality(Forked(f, s))]
      /\ children' = children \cup started
      /\ server' = [p \in Procs |-> IF p \in started THEN f[p] ELSE server[p]]
      /\ uris' = [p \in Procs |-> IF p \in started THEN given[f[p]] ELSE uris[p]]
      /\ state' = [p \in Procs |-> IF p \in started THEN "forked" ELSE state[p]]
      /\ pipe' = [p \in Procs |-> IF p \in started THEN gen ELSE pipe[p]]
      /\ UNCHANGED <<loaded, gen, todo, listens, used, given, detach>>
      /\ \A s \in Names : Forked(f, s) # {} => MayStart(s, Cardinality(Forked(f, s)))
      /\ phase \in {"initstart", "start"} /\ phase' = "run"
  BY DEF StartAllChild, Round, Fork, listenVars
<1>9. /\ ~Preparing /\ ~Preparing' /\ \A s \in Names : given[s] = Wanted(loaded, s)
  BY <1>0 DEF Preparing, ListenExact
<1>1. /\ Free \subseteq Procs /\ Free \cap children = {} /\ started \subseteq Free
      /\ \A p \in started : f[p] \in Names
  BY DEF Free, Starts, Started
<1>2. ASSUME NEW s \in Names
      PROVE  /\ IsFiniteSet(Forked(f, s)) /\ Cardinality(Forked(f, s)) \in Nat
             /\ Forked(f, s) = {p \in started : f[p] = s}
             /\ Forked(f, s) \subseteq Free
  <2>1. Forked(f, s) = {p \in started : f[p] = s} /\ Forked(f, s) \subseteq Free
    BY DEF Forked, Started
  <2>2. Forked(f, s) \in SUBSET Procs
    BY <1>1, <2>1
  <2>3. IsFiniteSet(Forked(f, s))
    BY <2>2, FS_Subset
  <2> QED BY <2>1, <2>3, FS_CardinalityType
<1> HIDE DEF started
<1>3. MasterType'
  <2>1. count' \in [Names -> Int]
    BY <1>0, <1>2 DEF MasterType
  <2>2. \A p \in started : given[f[p]] \subseteq Uris
    BY <1>1 DEF MasterType
  <2> QED BY <1>0, <1>1, <2>1, <2>2 DEF MasterType
<1>4. PipeBound'
  BY <1>0 DEF PipeBound, MasterType
<1>5. NoDangling'
  BY <1>0, <1>1, <1>9 DEF NoDangling, MasterType, Alive
<1>6. CountMatches'
  <2>1. NoneUncounted'
    BY <1>0, <1>1 DEF NoneUncounted, CountMatches, MasterType, Alive, StatusClosed, Ended
  <2>2. ASSUME NEW s \in Names
        PROVE  /\ count'[s] = Cardinality({p \in children' : server'[p] = s})
               /\ count'[s] <= Limit(loaded', s)
    <3> DEFINE B == {p \in children : server[p] = s}
    <3>1. {p \in children' : server'[p] = s} = B \cup Forked(f, s)
      BY <1>0, <1>1, <1>2 DEF MasterType
    <3>2. B \cap Forked(f, s) = {}
      BY <1>1, <1>2
    <3>3. IsFiniteSet(B)
      <4>1. B \in SUBSET Procs
        BY DEF MasterType
      <4> QED BY <4>1, FS_Subset
    <3>4. Cardinality(B \cup Forked(f, s)) = Cardinality(B) + Cardinality(Forked(f, s))
      <4>1. /\ IsFiniteSet(Forked(f, s)) /\ Cardinality(B) \in Nat
            /\ Cardinality(Forked(f, s)) \in Nat /\ Cardinality(B \cap Forked(f, s)) = 0
        BY <1>2, <3>2, <3>3, FS_EmptySet, FS_CardinalityType
      <4> HIDE DEF B
      <4>2. Cardinality(B \cup Forked(f, s)) =
               Cardinality(B) + Cardinality(Forked(f, s)) - Cardinality(B \cap Forked(f, s))
        BY <3>3, <4>1, FS_Union
      <4> QED BY <4>1, <4>2
    <3>5. count[s] = Cardinality(B) /\ count[s] <= Limit(loaded, s) /\ Limit(loaded, s) \in Nat
      BY <1>9, ConfigType DEF CountMatches, MasterType
    <3>6. count'[s] <= Limit(loaded, s)
      <4>1. CASE Forked(f, s) = {}
        <5>1. count'[s] = count[s] + 0
          BY <1>0, <4>1, FS_EmptySet
        <5> QED BY <3>5, <5>1 DEF MasterType
      <4>2. CASE Forked(f, s) # {}
        BY <1>0, <4>2 DEF MayStart
      <4> QED BY <4>1, <4>2
    <3> QED BY <1>0, <3>1, <3>4, <3>5, <3>6
  <2> QED BY <2>1, <2>2 DEF CountMatches
<1>7. ListenExact'
  BY <1>0, <1>9 DEF ListenExact
<1>8. Reloading'
  BY <1>0, <1>9 DEF Reloading
<1> QED BY <1>3, <1>4, <1>5, <1>6, <1>7, <1>8

(* The loop's turns that read a flag only.                                  *)
LEMMA LoopInv ==
  ASSUME IInv, LoopReload \/ LoopStart \/ Sighup \/ Sigterm \/ EditConfig
               \/ (\E s \in Names : Permit(s)) \/ UNCHANGED vars
  PROVE  IInv'
<1>1. /\ UNCHANGED <<loaded, gen, count, listenVars, childVars, procVars>>
      /\ phase' = phase \/ (phase = "run" /\ phase' \in {"reload", "start"})
  BY DEF LoopReload, LoopStart, Sighup, Sigterm, EditConfig, Permit, vars,
         masterVars, listenVars, childVars, procVars
<1>5. Preparing' = Preparing
  BY <1>1 DEF Preparing
<1>2. MasterType' /\ PipeBound' /\ NoDangling'
  BY <1>1, <1>5 DEF IInv, MasterType, PipeBound, NoDangling, listenVars, childVars, procVars, Alive
<1>3. CountMatches'
  <2>1. Ended' = Ended
    BY <1>1 DEF Ended
  <2> QED BY <1>1, <1>5, <2>1 DEF IInv, CountMatches, NoneUncounted, childVars, procVars, Alive,
                                  StatusClosed
<1>4. ListenExact' /\ Reloading'
  BY <1>1, <1>5 DEF IInv, ListenExact, Reloading, listenVars, procVars
<1> QED BY <1>2, <1>3, <1>4 DEF IInv

(* fini_all, and the end of the master however it comes: nothing is left to *)
(* count or to listen to.                                                   *)
LEMMA EndInv ==
  ASSUME IInv, \/ LoopStop \/ MasterExit \/ ReloadFatal
               \/ \E s \in Names : PrepareFatal(s)
               \/ \E f \in Starts : StartFatal(f)
  PROVE  IInv'
<1>0. /\ loaded' = Empty /\ count' = [s \in Names |-> 0] /\ listens' = [u \in Uris |-> 0]
      /\ used' = {} /\ given' = [s \in Names |-> {}]
      /\ server' = [p \in Procs |-> None] /\ phase' \in {"fini", "gone"}
      /\ UNCHANGED <<gen, detach>>
      /\ \/ UNCHANGED <<children, uris>>
         \/ children' = {} /\ uris' = [p \in Procs |-> {}]
  BY DEF LoopStop, MasterExit, ReloadFatal, PrepareFatal, StartFatal, Fork, ExitMaster, Forgotten,
         SetUnused, procVars
<1>1. \/ UNCHANGED <<state, pipe>>
      \/ \E f \in Starts : Fork(f)
  BY DEF LoopStop, MasterExit, ReloadFatal, PrepareFatal, StartFatal, procVars
<1>2. \/ phase = "run" /\ UNCHANGED todo
      \/ todo' = [s \in Names |-> <<>>]
  BY DEF LoopStop, MasterExit, ReloadFatal, PrepareFatal, StartFatal, ExitMaster
<1>3. ~Preparing' /\ Ended' /\ \A s \in Names : todo'[s] = <<>>
  BY <1>0, <1>2 DEF Preparing, Ended, IInv, Reloading
<1>4. MasterType' /\ PipeBound'
  <2>1. /\ state' \in [Procs -> {"dead", "forked", "serving"}] /\ pipe' \in [Procs -> Nat]
        /\ PipeBound'
    <3>1. CASE UNCHANGED <<state, pipe>>
      BY <1>0, <3>1 DEF IInv, MasterType, PipeBound
    <3>2. ASSUME NEW f \in Starts, Fork(f)
          PROVE  /\ state' \in [Procs -> {"dead", "forked", "serving"}] /\ pipe' \in [Procs -> Nat]
                 /\ PipeBound'
      BY <1>0, <3>2 DEF IInv, MasterType, PipeBound, Fork
    <3> QED BY <1>1, <3>1, <3>2
  <2>2. todo' \in [Names -> Seq(Uris)]
    <3>1. <<>> \in Seq(Uris)
      OBVIOUS
    <3> QED BY <1>2, <3>1 DEF IInv, MasterType
  <2> QED BY <1>0, <2>1, <2>2 DEF IInv, MasterType
<1>5. NoDangling'
  BY <1>0 DEF NoDangling
<1>6. CountMatches'
  <2>1. NoneUncounted'
    BY <1>3 DEF NoneUncounted
  <2>2. \A s \in Names : {p \in children' : server'[p] = s} = {}
    BY <1>0, <1>4, MasterAssumption DEF MasterType
  <2>3. \A s \in Names : count'[s] = 0 /\ Limit(loaded', s) = 0
    BY <1>0, EmptyWants
  <2> QED BY <2>1, <2>2, <2>3, FS_EmptySet DEF CountMatches
<1>7. ListenExact'
  BY <1>0, EmptyWants DEF ListenExact
<1>8. Reloading'
  BY <1>0, <1>3, EmptyWants, ToSetEmpty DEF Reloading
<1> QED BY <1>4, <1>5, <1>6, <1>7, <1>8 DEF IInv

(* child_strike: the child that goes is one of its service's, or of none.   *)
LEMMA StrikeInv ==
  ASSUME IInv, NEW p \in Procs, NEW a \in Ages, ChildStrike(p, a) PROVE IInv'
<1> USE MasterAssumption DEF IInv
<1>0. /\ phase = "run" /\ phase' = phase /\ p \in children /\ StatusClosed(p)
      /\ children' = children \ {p}
      /\ server' = [server EXCEPT ![p] = None]
      /\ uris' = [uris EXCEPT ![p] = {}]
      /\ UNCHANGED <<loaded, gen, todo, listens, used, given, state, pipe, detach>>
      /\ IF server[p] = None THEN count' = count
         ELSE count' = [count EXCEPT ![server[p]] = count[server[p]] - 1]
  BY DEF ChildStrike, Remaining, CountAfterStrike, listenVars, procVars
<1>9. ~Preparing /\ ~Preparing'
  BY <1>0 DEF Preparing
<1>1. MasterType'
  <2>1. count' \in [Names -> Int]
    BY <1>0 DEF MasterType
  <2> QED BY <1>0, <2>1 DEF MasterType
<1>2. PipeBound'
  BY <1>0 DEF PipeBound
<1>3. NoDangling'
  BY <1>0, <1>9 DEF NoDangling, MasterType, Alive
<1>4. CountMatches'
  <2>1. NoneUncounted'
    BY <1>0 DEF NoneUncounted, CountMatches, MasterType, Alive, StatusClosed, Ended
  <2>2. ASSUME NEW s \in Names
        PROVE  /\ count'[s] = Cardinality({q \in children' : server'[q] = s})
               /\ count'[s] <= Limit(loaded', s)
    <3> DEFINE B == {q \in children : server[q] = s}
    <3>1. {q \in children' : server'[q] = s} = B \ {p}
      BY <1>0 DEF MasterType
    <3>2. IsFiniteSet(B)
      <4>1. B \in SUBSET Procs
        BY DEF MasterType
      <4> QED BY <4>1, FS_Subset
    <3>3. count[s] = Cardinality(B) /\ count[s] <= Limit(loaded, s) /\ Limit(loaded, s) \in Nat
          /\ count[s] \in Int
      BY <1>9, ConfigType DEF CountMatches, MasterType
    <3>4. CASE server[p] = s
      <4>1. p \in B /\ count'[s] = count[s] - 1
        BY <1>0, <3>4 DEF MasterType
      <4>2. Cardinality(B \ {p}) = Cardinality(B) - 1
        BY <3>2, <4>1, FS_RemoveElement
      <4>3. count[s] - 1 <= Limit(loaded, s)
        BY <3>3
      <4> QED BY <1>0, <3>1, <3>3, <4>1, <4>2, <4>3
    <3>5. CASE server[p] # s
      <4>1. B \ {p} = B /\ count'[s] = count[s]
        BY <1>0, <3>5 DEF MasterType
      <4> QED BY <1>0, <3>1, <3>3, <4>1
    <3> QED BY <3>4, <3>5
  <2> QED BY <2>1, <2>2 DEF CountMatches
<1>5. ListenExact' /\ Reloading'
  BY <1>0, <1>9 DEF ListenExact, Reloading
<1> QED BY <1>1, <1>2, <1>3, <1>4, <1>5

(* A process ends, or stays as it is but for its flags and timers.          *)
LEMMA ProcessInv ==
  ASSUME IInv, NEW p \in Procs, Process(p) \/ Application(p) PROVE IInv'
<1> USE DEF IInv
<1>0. UNCHANGED <<phase, loaded, gen, count, todo, listens, used, given, children, server, uris>>
  BY DEF Process, Application, masterVars, listenVars, childVars
<1>1. \/ /\ state' = [state EXCEPT ![p] = "dead"] /\ pipe' = [pipe EXCEPT ![p] = 0]
         /\ detach' = [detach EXCEPT ![p] = "no"]
      \/ /\ state[p] = "forked" /\ state' = [state EXCEPT ![p] = "serving"]
         /\ UNCHANGED <<pipe, detach>>
      \/ /\ UNCHANGED <<state, pipe>>
         /\ detach' = detach \/ (detach[p] = "no" /\ detach' = [detach EXCEPT ![p] = "asked"])
            \/ detach' = [detach EXCEPT ![p] = "dealt"]
  BY DEF Process, Application, ServiceInit, OnMasterSoftstop, StopNow, MainLoopOrphan,
         MainLoopDetach, Signalled, SigtermLost, StopNotify, DetachFromMaster, Crash, Die
<1>2. MasterType' /\ PipeBound'
  <2>1. \A q \in Procs : pipe'[q] = pipe[q] \/ pipe'[q] = 0
    BY <1>1 DEF MasterType
  <2>2. PipeBound'
    <3> SUFFICES ASSUME NEW q \in Procs PROVE pipe'[q] <= gen'
      BY DEF PipeBound
    <3>1. pipe[q] <= gen /\ pipe[q] \in Nat /\ gen \in Nat
      BY DEF MasterType, PipeBound
    <3> QED BY <1>0, <2>1, <3>1
  <2>3. MasterType'
    <3>1. /\ state' \in [Procs -> {"dead", "forked", "serving"}]
          /\ detach' \in [Procs -> {"no", "asked", "dealt"}]
      BY <1>1, Zenon DEF MasterType
    <3>2. pipe' \in [Procs -> Nat]
      BY <1>1 DEF MasterType
    <3> QED BY <1>0, <3>1, <3>2 DEF MasterType
  <2> QED BY <2>2, <2>3
<1>3. \A q \in Procs : /\ Alive(q)' => Alive(q) /\ pipe'[q] = pipe[q]
                       /\ ~StatusClosed(q)' => ~StatusClosed(q)
  BY <1>1 DEF MasterType, Alive, StatusClosed
<1>7. Preparing' = Preparing
  BY <1>0 DEF Preparing
<1>4. NoDangling'
  BY <1>0, <1>3, <1>7 DEF NoDangling
<1>5. CountMatches'
  <2>1. NoneUncounted'
    BY <1>0, <1>3 DEF NoneUncounted, CountMatches, Ended
  <2> QED BY <1>0, <1>7, <2>1 DEF CountMatches
<1>6. ListenExact'
  BY <1>0, <1>7 DEF ListenExact
<1>8. Reloading'
  <2>1. \A q \in Procs : pipe'[q] = pipe[q] \/ pipe'[q] = 0
    BY <1>1 DEF MasterType
  <2>2. Preparing => \A q \in Procs : pipe'[q] < gen
    BY <2>1 DEF Reloading, MasterType
  <2> QED BY <1>0, <1>7, <2>2 DEF Reloading
<1> QED BY <1>2, <1>4, <1>5, <1>6, <1>8

LEMMA InvStep == IInv /\ [Next]_vars => IInv'
BY ReloadInv, PrepareInv, ReleaseInv, StartInv, LoopInv, EndInv, StrikeInv, ProcessInv DEF Next

LEMMA InvAlways == Spec => []IInv
BY InvInit, InvStep, PTL DEF Spec
-----------------------------------------------------------------------------
(* No child keeps a pointer to a server_info_t that a reload has freed, and *)
(* what child_strike will write to is the service the child was forked for. *)
THEOREM PointersValid == Spec => []NoDangling
<1>1. IInv => NoDangling
  BY DEF IInv
<1> QED BY <1>1, InvAlways, PTL

(* proc_count is the number of the service's children and within the limit, *)
(* through forks, strikes, detached processes and reloads, and every        *)
(* running process of the generation is among them.                         *)
THEOREM CountCorrect == Spec => []CountMatches
<1>1. IInv => CountMatches
  BY DEF IInv
<1> QED BY <1>1, InvAlways, PTL

(* Step by step through a reload the used flags are exactly the addresses   *)
(* given out, to one service each, and when it is done the open sockets are *)
(* those of the configuration.                                              *)
THEOREM SocketsExact == Spec => []ListenExact
<1>1. IInv => ListenExact
  BY DEF IInv
<1> QED BY <1>1, InvAlways, PTL

(* An open socket that the files still ask for is never closed or opened    *)
(* again, neither by the service that takes it over nor by the release of   *)
(* the unused ones.                                                         *)
THEOREM SocketsKept == Spec => SocketKept
<1>1. ASSUME IInv, [Next]_vars, NEW u \in Uris, listens[u] # 0, u \in AllWanted(loaded'), ~Ended'
      PROVE  listens'[u] = listens[u]
  <2>1. ASSUME NEW s \in Names, PrepareListen(s) PROVE listens'[u] = listens[u]
    BY <1>1, <2>1 DEF PrepareListen, Opened, IInv, MasterType
  <2>2. CASE ReleaseUnused
    <3>1. used = AllWanted(loaded)
      BY <1>1, <2>2, GivenAll DEF IInv, ReleaseUnused
    <3>2. loaded' = loaded /\ listens'[u] = Released(u)
      BY <2>2 DEF ReleaseUnused
    <3> QED BY <1>1, <3>1, <3>2 DEF Released
  <2>3. CASE Ended'
    BY <1>1, <2>3
  <2>4. CASE UNCHANGED listens
    BY <2>4
  <2>5. UNCHANGED listens \/ Ended' \/ ReleaseUnused \/ \E s \in Names : PrepareListen(s)
    BY <1>1 DEF Next, ReloadServer, ReloadFatal, PrepareFatal, StartFatal, LoopReload, LoopStart,
                LoopStop, MasterExit, ExitMaster, Ended, StartAllChild, Process, Application,
                ChildStrike, Sighup, Sigterm, EditConfig, Permit, vars, masterVars,
                listenVars
  <2> QED BY <2>1, <2>2, <2>3, <2>4, <2>5
<1>2. IInv /\ [Next]_vars =>
         \A u \in Uris : listens[u] # 0 /\ u \in AllWanted(loaded') /\ ~Ended'
                           => listens'[u] = listens[u]
  BY <1>1
<1> QED BY <1>2, InvAlways, PTL DEF Spec, SocketKept
=============================================================================
