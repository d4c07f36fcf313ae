------------------------ MODULE CacheRememberProofs ------------------------
(***************************************************************************)
(* The safety of CacheRemember for every number of callers and processes,  *)
(* changes of the source and failures.                                     *)
(***************************************************************************)
EXTENDS CacheRemember, TLAPS

\* What the leader's loader returned is a version of the source.
CacheInv ==
  TypeOK /\ OneFlight /\ StaleOnlyForAReason
    /\ \A c \in Callers : pc[c] = "set" => loaded[c] # Miss

\* Every caller runs in a process.
LEMMA ProcessOf == \A c \in Callers : Process[c] \in Processes
BY DEF Processes

\* An empty cache satisfies the invariant.
LEMMA InitCache == Init => CacheInv
<1> SUFFICES ASSUME Init PROVE CacheInv
  OBVIOUS
<1> USE CacheAssumption, ProcessOf DEF Init
<1>1. TypeOK
  <2>1. source \in 0 .. MaxVersion /\ upsets \in 0 .. MaxUpsets
    OBVIOUS
  <2>2. /\ pc \in [Callers -> {"idle", "get", "do", "wait", "load", "set"}]
        /\ flight \in [Processes -> Callers \cup {NoCaller}]
        /\ loaded \in [Callers -> {Miss} \cup 0 .. MaxVersion]
    OBVIOUS
  <2>3. /\ writing \in BOOLEAN /\ excused \in BOOLEAN
        /\ expires \in BOOLEAN /\ (expires <=> entry # Miss)
        /\ entry \in {Miss} \cup 0 .. MaxVersion
    BY Zenon
  <2> QED
    BY <2>1, <2>2, <2>3, Zenon DEF TypeOK
<1>2. OneFlight
  BY DEF OneFlight
<1>3. StaleOnlyForAReason /\ \A c \in Callers : pc[c] = "set" => loaded[c] # Miss
  BY DEF StaleOnlyForAReason
<1> QED
  BY <1>1, <1>2, <1>3 DEF CacheInv

\* The end of a flight frees its process and every caller that waited for it.
LEMMA FlightLands ==
  ASSUME CacheInv, NEW c \in Callers, pc[c] \in {"load", "set"}, Land(c)
  PROVE  /\ pc' \in [Callers -> {"idle", "get", "do", "wait", "load", "set"}]
         /\ flight' \in [Processes -> Callers \cup {NoCaller}]
         /\ loaded' \in [Callers -> {Miss} \cup 0 .. MaxVersion]
         /\ OneFlight'
         /\ \A d \in Callers : pc'[d] = "set" => loaded'[d] # Miss
<1> USE CacheAssumption, ProcessOf DEF CacheInv, TypeOK, Land
<1>1. pc' \in [Callers -> {"idle", "get", "do", "wait", "load", "set"}]
  OBVIOUS
<1>2. flight' \in [Processes -> Callers \cup {NoCaller}]
  OBVIOUS
<1>3. loaded' \in [Callers -> {Miss} \cup 0 .. MaxVersion]
  OBVIOUS
<1>4. ASSUME NEW d \in Callers
      PROVE  /\ pc'[d] \in {"load", "set"} <=> flight'[Process[d]] = d
             /\ pc'[d] = "wait" => flight'[Process[d]] # NoCaller
  <2>1. CASE Process[d] = Process[c]
    <3>1. flight'[Process[d]] = NoCaller
      BY <2>1
    <3>2. flight[Process[d]] = c
      BY <2>1 DEF OneFlight
    <3>3. pc'[d] \notin {"load", "set", "wait"}
      BY <2>1, <3>2 DEF OneFlight
    <3> QED
      BY <3>1, <3>3
  <2>2. CASE Process[d] # Process[c]
    BY <2>2 DEF OneFlight
  <2> QED
    BY <2>1, <2>2
<1>5. \A d \in Callers : pc'[d] = "set" => loaded'[d] # Miss
  OBVIOUS
<1> QED
  BY <1>1, <1>2, <1>3, <1>4, <1>5 DEF OneFlight

\* Every step of callers, the writer and Redis keeps the invariant.
LEMMA CacheStep == CacheInv /\ [Next]_vars => CacheInv'
<1> SUFFICES ASSUME CacheInv, [Next]_vars PROVE CacheInv'
  OBVIOUS
<1> USE CacheAssumption, ProcessOf DEF writerVars, entryVars
<1>1. CASE Expire \/ Update \/ Delete \/ DeleteFails
  <2>1. UNCHANGED <<pc, flight, loaded>>
    BY <1>1 DEF Expire, Update, Delete, DeleteFails
  <2>2. /\ source' \in 0 .. MaxVersion /\ upsets' \in 0 .. MaxUpsets
        /\ entry' \in {Miss} \cup 0 .. MaxVersion
    BY <1>1
    DEF CacheInv, TypeOK, Expire, Update, Delete, DeleteFails, Remove, Upset
  <2>3. /\ writing' \in BOOLEAN /\ excused' \in BOOLEAN
        /\ expires' \in BOOLEAN /\ (expires' <=> entry' # Miss)
    <3>1. CASE Remove
      BY <1>1, <3>1, Zenon
      DEF CacheInv, TypeOK, Expire, Update, Delete, DeleteFails, Remove
    <3>2. CASE Update
      BY <3>2, Zenon DEF CacheInv, TypeOK, Update
    <3>3. CASE DeleteFails /\ ~ Remove
      <4>1. /\ writing' = FALSE /\ excused' = (entry # Miss)
            /\ entry' = entry /\ expires' = expires
        BY <3>3, Zenon DEF DeleteFails
      <4>2. excused' \in BOOLEAN
        BY <4>1, Zenon
      <4> QED
        BY <4>1, <4>2, Zenon DEF CacheInv, TypeOK
    <3> QED
      BY <1>1, <3>1, <3>2, <3>3, Zenon DEF Expire, Delete
  <2>4. StaleOnlyForAReason'
    BY <1>1
    DEF CacheInv, TypeOK, StaleOnlyForAReason, Expire, Update, Delete, DeleteFails,
        Remove
  <2>5. TypeOK'
    BY <2>1, <2>2, <2>3, Zenon DEF CacheInv, TypeOK
  <2> QED
    BY <2>1, <2>4, <2>5 DEF CacheInv, OneFlight
<1>2. ASSUME NEW c \in Callers, Call(c) \/ Get(c) \/ GetFails(c) PROVE CacheInv'
  BY <1>2
  DEF CacheInv, TypeOK, OneFlight, StaleOnlyForAReason, Call, Get, GetFails, Goto, Upset
<1>3. ASSUME NEW c \in Callers, Do(c) PROVE CacheInv'
  <2>1. TypeOK'
    BY <1>3 DEF CacheInv, TypeOK, Do, Goto
  <2>2. OneFlight'
    BY <1>3 DEF CacheInv, TypeOK, OneFlight, Do, Goto
  <2>3. StaleOnlyForAReason' /\ \A d \in Callers : pc'[d] = "set" => loaded'[d] # Miss
    BY <1>3 DEF CacheInv, TypeOK, StaleOnlyForAReason, Do, Goto
  <2> QED
    BY <2>1, <2>2, <2>3 DEF CacheInv
<1>4. ASSUME NEW c \in Callers, Load(c) PROVE CacheInv'
  <2>1. TypeOK' /\ StaleOnlyForAReason'
    BY <1>4 DEF CacheInv, TypeOK, StaleOnlyForAReason, Load, Goto
  <2>2. OneFlight'
    BY <1>4 DEF CacheInv, TypeOK, OneFlight, Load, Goto
  <2>3. \A d \in Callers : pc'[d] = "set" => loaded'[d] # Miss
    BY <1>4 DEF CacheInv, TypeOK, Load, Goto, Miss
  <2> QED
    BY <2>1, <2>2, <2>3 DEF CacheInv
<1>5. ASSUME NEW c \in Callers, LoadFails(c) \/ Set(c) \/ SetFails(c) PROVE CacheInv'
  <2>1. pc[c] \in {"load", "set"} /\ Land(c)
    BY <1>5 DEF LoadFails, Set, SetFails
  <2>2. CASE UNCHANGED entryVars
    <3>1. UNCHANGED <<source, writing, entry, expires, excused>>
      BY <1>5, <2>2 DEF LoadFails, Set, SetFails
    <3>2. upsets' \in 0 .. MaxUpsets
      BY <1>5 DEF CacheInv, TypeOK, LoadFails, Set, SetFails, Upset
    <3>3. TypeOK'
      BY <2>1, <3>1, <3>2, FlightLands DEF CacheInv, TypeOK
    <3>4. StaleOnlyForAReason'
      BY <3>1 DEF CacheInv, StaleOnlyForAReason
    <3> QED
      BY <2>1, <3>3, <3>4, FlightLands DEF CacheInv
  <2>3. CASE pc[c] = "set" /\ Store(loaded[c])
    <3>1. UNCHANGED writerVars /\ upsets' \in 0 .. MaxUpsets
      BY <1>5 DEF CacheInv, TypeOK, LoadFails, Set, SetFails, Upset
    <3>2. loaded[c] \in 0 .. MaxVersion
      BY <2>3 DEF CacheInv, TypeOK
    <3>3. /\ entry' \in {Miss} \cup 0 .. MaxVersion /\ entry' # Miss
          /\ expires' = TRUE
      BY <2>3, <3>2 DEF Store, CacheInv
    <3>4. excused' \in BOOLEAN /\ (entry' # source => excused')
      BY <2>3, Zenon DEF Store
    <3>5. TypeOK'
      BY <2>1, <3>1, <3>3, <3>4, FlightLands DEF CacheInv, TypeOK
    <3>6. StaleOnlyForAReason'
      BY <3>1, <3>4 DEF StaleOnlyForAReason
    <3> QED
      BY <2>1, <3>5, <3>6, FlightLands DEF CacheInv
  <2> QED
    BY <1>5, <2>2, <2>3 DEF LoadFails, Set, SetFails
<1>6. CASE UNCHANGED vars
  BY <1>6 DEF CacheInv, TypeOK, OneFlight, StaleOnlyForAReason, vars
<1> QED
  BY <1>1, <1>2, <1>3, <1>4, <1>5, <1>6 DEF Next, Remember

\* The invariant holds in every reachable state, for all callers and processes.
THEOREM CacheInvariance == Spec => []CacheInv
BY InitCache, CacheStep, PTL DEF Spec

\* Every variable has its type (redis.go:58-88).
THEOREM TypeCorrect == Spec => []TypeOK
<1>1. CacheInv => TypeOK
  BY DEF CacheInv
<1> QED
  BY <1>1, CacheInvariance, PTL

\* At most one loader per process, and nobody waits for a flight that is gone
\* (redis.go:79-88).
THEOREM FlightsAreShared == Spec => []OneFlight
<1>1. CacheInv => OneFlight
  BY DEF CacheInv
<1> QED
  BY <1>1, CacheInvariance, PTL

\* An outdated entry has one of the three named causes (redis.go:58-88).
THEOREM StaleEntriesAreExplained == Spec => []StaleOnlyForAReason
<1>1. CacheInv => StaleOnlyForAReason
  BY DEF CacheInv
<1> QED
  BY <1>1, CacheInvariance, PTL

-----------------------------------------------------------------------------
(* Why EventuallyFresh can hold: once the writer is done, what is cached   *)
(* and what every flight has loaded agree with the source, and they go on  *)
(* doing so until the source changes again, whatever fails meanwhile.      *)

Settled ==
  /\ ~ writing
  /\ entry = Miss \/ entry = source
  /\ \A c \in Callers : pc[c] = "set" => loaded[c] = source

SettledStays == [][Settled /\ source' = source => Settled']_vars

\* No step but a change of the source unsettles what is settled.
LEMMA SettledStep ==
  ASSUME CacheInv, [Next]_vars, Settled, source' = source
  PROVE  Settled'
<1> USE DEF Settled, writerVars, entryVars, Goto
<1>1. CASE Expire \/ Delete \/ DeleteFails
  BY <1>1 DEF Expire, Delete, DeleteFails, Remove
<1>2. CASE Update
  BY <1>2 DEF Update, CacheInv, TypeOK
<1>3. ASSUME NEW c \in Callers, Call(c) \/ Get(c) \/ GetFails(c) \/ Do(c)
      PROVE  Settled'
  BY <1>3 DEF Call, Get, GetFails, Do, CacheInv, TypeOK
<1>4. ASSUME NEW c \in Callers, Load(c) PROVE Settled'
  BY <1>4 DEF Load, CacheInv, TypeOK
<1>5. ASSUME NEW c \in Callers, LoadFails(c) \/ Set(c) \/ SetFails(c) PROVE Settled'
  <2>1. \A d \in Callers : pc'[d] = "set" => pc[d] = "set" /\ loaded'[d] = loaded[d]
    BY <1>5 DEF LoadFails, Set, SetFails, Land, CacheInv, TypeOK
  <2>2. UNCHANGED <<source, writing>> /\ (entry' = entry \/ entry' = source)
    BY <1>5 DEF LoadFails, Set, SetFails, Store
  <2> QED
    BY <2>1, <2>2
<1>6. CASE UNCHANGED vars
  BY <1>6 DEF vars
<1> QED
  BY <1>1, <1>2, <1>3, <1>4, <1>5, <1>6 DEF Next, Remember

\* No caller, no failed SET or DEL and no expiry brings an outdated entry back
\* (redis.go:48-88).
THEOREM FreshnessIsStable == Spec => SettledStays
<1>1. CacheInv /\ [Next]_vars => [Settled /\ source' = source => Settled']_vars
  BY SettledStep
<1> QED
  BY <1>1, CacheInvariance, PTL DEF Spec, SettledStays

-----------------------------------------------------------------------------
(* When a Delete is enough.                                                *)

\* Every Delete is executed, and at a time when no flight is between a load of
\* an older version and its Set.
DeletesMeetNoOldFlight ==
  [][writing /\ ~ writing' =>
       Remove /\ \A c \in Callers : pc[c] = "set" => loaded[c] = source]_vars

\* A cached value is outdated only while the writer is at work.
FreshAfterDelete == ~ writing => entry = Miss \/ entry = source

\* Apart from a Delete that fails, only a flight that has loaded before the
\* change and is still to store when Delete comes can leave an outdated entry:
\* without one, nothing outdated is cached once Delete has returned, whatever
\* else races or fails (redis.go:48-88).
THEOREM OnlyOldFlightsUndoDelete ==
  Spec /\ DeletesMeetNoOldFlight => []FreshAfterDelete
<1> DEFINE Quiet == ~ writing => Settled
           Undisturbed ==
             writing /\ ~ writing' =>
               Remove /\ \A c \in Callers : pc[c] = "set" => loaded[c] = source
<1>1. Init => Quiet
  BY DEF Init, Settled
<1>2. ASSUME CacheInv, Quiet, [Next]_vars, [Undisturbed]_vars PROVE Quiet'
  <2> SUFFICES ASSUME ~ writing' PROVE Settled'
    OBVIOUS
  <2>1. CASE writing
    <3>1. Remove /\ \A c \in Callers : pc[c] = "set" => loaded[c] = source
      BY <1>2, <2>1 DEF vars
    <3>2. Delete \/ DeleteFails
      BY <1>2, <2>1
      DEF Next, Remember, Expire, Update, Call, Get, GetFails, Do, Load, LoadFails, Set,
          SetFails, writerVars, vars
    <3>3. UNCHANGED <<source, pc, loaded>> /\ entry' = Miss
      BY <3>1, <3>2 DEF Delete, DeleteFails, Remove
    <3> QED
      BY <3>1, <3>3 DEF Settled
  <2>2. CASE ~ writing
    <3>1. source' = source
      BY <1>2, <2>2
      DEF Next, Remember, Expire, Update, Delete, DeleteFails, Call, Get, GetFails, Do,
          Load, LoadFails, Set, SetFails, writerVars, vars
    <3> QED
      BY <1>2, <2>2, <3>1, SettledStep
  <2> QED
    BY <2>1, <2>2
<1>3. Quiet => FreshAfterDelete
  BY DEF Settled, FreshAfterDelete
<1> QED
  BY <1>1, <1>2, <1>3, CacheInvariance, PTL DEF Spec, DeletesMeetNoOldFlight

-----------------------------------------------------------------------------
(* Why RememberReturns can hold.                                           *)

\* Who has to take the next step for the call of c: itself, or the leader of the
\* flight it waits for.
Runner(c) == IF pc[c] = "wait" THEN flight[Process[c]] ELSE c

\* The steps of the runner that are left at most.
StepsLeft == [get |-> 4, do |-> 3, load |-> 2, set |-> 1, idle |-> 0]
ToReturn(c) == StepsLeft[pc[Runner(c)]]

\* A call is at most four steps from its return, no step of anyone takes it
\* further away, and each step of its runner brings it closer.
ComesCloser(c) ==
  pc[c] # "idle" =>
    /\ Runner(c) \in Callers /\ ToReturn(c) \in 1 .. 4
    /\ ToReturn(c)' <= ToReturn(c)
    /\ Remember(Runner(c)) => ToReturn(c)' < ToReturn(c)

CallsComeCloser == [][\A c \in Callers : ComesCloser(c)]_vars

\* A flight is led by a caller of its process.
LedAtHome ==
  \A x \in Processes : flight[x] # NoCaller => Process[flight[x]] = x

\* Flights begin at home.
LEMMA FlightsStayHome == CacheInv /\ LedAtHome /\ [Next]_vars => LedAtHome'
<1> SUFFICES ASSUME CacheInv, LedAtHome, [Next]_vars PROVE LedAtHome'
  OBVIOUS
<1> USE CacheAssumption, ProcessOf
<1>1. CASE UNCHANGED flight
  BY <1>1 DEF LedAtHome
<1>2. ASSUME NEW c \in Callers, flight' = [flight EXCEPT ![Process[c]] = c]
      PROVE  LedAtHome'
  BY <1>2 DEF LedAtHome, CacheInv, TypeOK
<1>3. ASSUME NEW c \in Callers, flight' = [flight EXCEPT ![Process[c]] = NoCaller]
      PROVE  LedAtHome'
  BY <1>3 DEF LedAtHome, CacheInv, TypeOK
<1> QED
  BY <1>1, <1>2, <1>3
  DEF Next, Expire, Update, Delete, DeleteFails, Call, Remember, Get, GetFails, Do, Load,
      LoadFails, Set, SetFails, Land, vars

\* Where a call stands: a runner never waits.
LEMMA CallPlaces ==
  ASSUME CacheInv, LedAtHome, NEW c \in Callers
  PROVE  /\ Runner(c) \in Callers
         /\ pc[Runner(c)] \in {"idle", "get", "do", "load", "set"}
         /\ pc[c] = "wait" => /\ pc[Runner(c)] \in {"load", "set"}
                              /\ Process[Runner(c)] = Process[c]
                              /\ Runner(c) = flight[Process[c]]
         /\ pc[c] # "wait" => Runner(c) = c
<1>1. CASE pc[c] = "wait"
  <2>1. /\ Process[c] \in Processes /\ flight[Process[c]] \in Callers
        /\ Process[flight[Process[c]]] = Process[c]
    BY <1>1, ProcessOf DEF CacheInv, TypeOK, OneFlight, LedAtHome
  <2>2. PICK d \in Callers : d = flight[Process[c]]
    BY <2>1
  <2> QED
    BY <1>1, <2>1, <2>2 DEF Runner, CacheInv, OneFlight
<1>2. CASE pc[c] # "wait"
  BY <1>2 DEF Runner, CacheInv, TypeOK
<1> QED
  BY <1>1, <1>2

\* A caller that takes a step of Remember gets to another place.
LEMMA StepsMove ==
  ASSUME CacheInv, NEW c \in Callers, Remember(c)
  PROVE  pc'[c] # pc[c]
BY DEF CacheInv, TypeOK, Remember, Get, GetFails, Do, Load, LoadFails, Set, SetFails, Land, Goto

\* While neither the runner nor its place changes, the call is as far as it was.
LEMMA CallStays ==
  ASSUME CacheInv, LedAtHome, NEW c \in Callers, pc[c] # "idle",
         Runner(c)' = Runner(c), pc'[Runner(c)] = pc[Runner(c)]
  PROVE  ComesCloser(c)
<1>1. /\ Runner(c) \in Callers /\ pc[Runner(c)] \in {"get", "do", "load", "set"}
      /\ ToReturn(c) \in 1 .. 4
  BY CallPlaces DEF ToReturn, StepsLeft
<1>2. ToReturn(c)' = ToReturn(c)
  BY DEF ToReturn, StepsLeft
<1>3. ~Remember(Runner(c))
  BY <1>1, StepsMove
<1> QED
  BY <1>1, <1>2, <1>3 DEF ComesCloser

\* A step of anyone leaves a call no further away.
LEMMA CallCloser ==
  ASSUME CacheInv, LedAtHome, Next, NEW c \in Callers, pc[c] # "idle"
  PROVE  ComesCloser(c)
<1> DEFINE r == Runner(c)
<1>1. /\ r \in Callers /\ pc[r] \in {"get", "do", "load", "set"}
      /\ ToReturn(c) \in 1 .. 4 /\ ToReturn(c) = StepsLeft[pc[r]]
  BY CallPlaces DEF ToReturn, StepsLeft
<1>2. /\ pc[c] = "wait" => /\ pc[r] \in {"load", "set"} /\ Process[r] = Process[c]
                           /\ r = flight[Process[c]]
      /\ pc[c] # "wait" => r = c
  BY CallPlaces
<1> HIDE DEF r
<1>3. CASE Expire \/ Update \/ Delete \/ DeleteFails \/ \E d \in Callers : Call(d)
  <2>1. flight' = flight /\ \A d \in Callers : pc[d] # "idle" => pc'[d] = pc[d]
    BY <1>3 DEF Expire, Update, Delete, DeleteFails, Call, Goto, CacheInv, TypeOK
  <2>2. Runner(c)' = r /\ pc'[r] = pc[r]
    BY <1>1, <2>1 DEF Runner, r
  <2> QED
    BY <2>2, CallStays DEF r
<1>4. ASSUME NEW d \in Callers, Get(d) \/ GetFails(d) \/ Load(d) PROVE ComesCloser(c)
  <2>1. /\ flight' = flight
        /\ \/ pc[d] = "get" /\ pc'[d] \in {"do", "idle"}
           \/ pc[d] = "load" /\ pc'[d] = "set"
        /\ \A e \in Callers : e # d => pc'[e] = pc[e]
    BY <1>4 DEF Get, GetFails, Load, Goto, CacheInv, TypeOK
  <2>2. Runner(c)' = r
    BY <1>2, <2>1 DEF Runner
  <2>3. CASE d = r
    <3>1. ToReturn(c)' = StepsLeft[pc'[r]]
      BY <2>2 DEF ToReturn, StepsLeft
    <3>2. ToReturn(c)' < ToReturn(c)
      BY <1>1, <2>1, <2>3, <3>1 DEF StepsLeft
    <3> QED
      BY <1>1, <2>1, <2>3, <3>1, <3>2 DEF ComesCloser, StepsLeft, r
  <2>4. CASE d # r
    BY <1>1, <2>1, <2>2, <2>4, CallStays DEF r
  <2> QED
    BY <2>3, <2>4
<1>5. ASSUME NEW d \in Callers, Do(d) PROVE ComesCloser(c)
  <2>1. /\ pc[d] = "do"
        /\ \A e \in Callers : e # d => pc'[e] = pc[e]
        /\ \/ /\ pc'[d] = "load" /\ flight[Process[d]] = NoCaller
              /\ flight' = [flight EXCEPT ![Process[d]] = d]
           \/ /\ pc'[d] = "wait" /\ flight[Process[d]] # NoCaller /\ flight' = flight
    BY <1>5 DEF Do, Goto, CacheInv, TypeOK
  <2>2. CASE c = d
    <3>1. ToReturn(c) = 3
      BY <1>1, <1>2, <2>1, <2>2 DEF StepsLeft
    <3>2. CASE pc'[d] = "load"
      <4>1. ToReturn(c)' = 2
        BY <2>2, <3>2 DEF ToReturn, Runner, StepsLeft
      <4> QED
        BY <1>1, <3>1, <4>1 DEF ComesCloser, r
    <3>3. CASE pc'[d] = "wait"
      <4>1. flight' = flight /\ Runner(c)' = flight[Process[c]]
        BY <2>1, <2>2, <3>3 DEF Runner
      <4>2. PICK l \in Callers : l = flight[Process[c]] /\ Process[l] = Process[c]
        BY <2>1, <2>2, <3>3, ProcessOf DEF CacheInv, TypeOK, LedAtHome
      <4>3. pc[l] \in {"load", "set"}
        BY <4>2 DEF CacheInv, OneFlight
      <4>4. pc'[l] \in {"load", "set"}
        BY <2>1, <4>3
      <4>5. ToReturn(c)' = StepsLeft[pc'[l]]
        BY <4>1, <4>2 DEF ToReturn, StepsLeft
      <4>6. ToReturn(c)' \in 1 .. 2
        BY <4>4, <4>5 DEF StepsLeft
      <4> QED
        BY <1>1, <3>1, <4>6 DEF ComesCloser, r
    <3> QED
      BY <2>1, <3>2, <3>3
  <2>3. CASE c # d
    <3>1. r # d /\ pc'[r] = pc[r] /\ pc'[c] = pc[c]
      BY <1>1, <1>2, <2>1, <2>3
    <3>2. pc[c] = "wait" => flight'[Process[c]] = flight[Process[c]]
      BY <1>1, <1>2, <2>1, CacheAssumption, ProcessOf DEF CacheInv, TypeOK
    <3>3. Runner(c)' = r
      BY <1>2, <3>1, <3>2 DEF Runner
    <3> QED
      BY <3>1, <3>3, CallStays DEF r
  <2> QED
    BY <2>2, <2>3
<1>6. ASSUME NEW d \in Callers, LoadFails(d) \/ Set(d) \/ SetFails(d) PROVE ComesCloser(c)
  <2>1. pc[d] \in {"load", "set"} /\ Land(d)
    BY <1>6 DEF LoadFails, Set, SetFails
  <2>2. /\ \A x \in Processes : x # Process[d] => flight'[x] = flight[x]
        /\ \A e \in Callers :
             pc'[e] = IF e = d \/ (pc[e] = "wait" /\ Process[e] = Process[d])
                        THEN "idle" ELSE pc[e]
    BY <2>1 DEF Land, CacheInv, TypeOK
  <2>3. CASE pc'[c] = "idle"
    <3>1. ToReturn(c)' = 0
      BY <2>3 DEF ToReturn, Runner, StepsLeft
    <3> QED
      BY <1>1, <3>1 DEF ComesCloser, r
  <2>4. CASE pc'[c] # "idle"
    <3>1. pc'[c] = pc[c] /\ c # d /\ (pc[c] = "wait" => Process[c] # Process[d])
      BY <2>2, <2>4
    <3>2. Runner(c)' = r
      BY <1>2, <2>2, <3>1, ProcessOf DEF Runner
    <3>3. pc'[r] = pc[r]
      BY <1>1, <1>2, <2>2, <3>1
    <3> QED
      BY <3>2, <3>3, CallStays DEF r
  <2> QED
    BY <2>3, <2>4
<1> QED
  BY <1>3, <1>4, <1>5, <1>6 DEF Next, Remember

\* Every call of Remember is at most four steps of its own, or of the leader it
\* waits for, from its return, and nobody else's step takes it back: the safety
\* half of RememberReturns (redis.go:58-88).
THEOREM CallsAreBounded == Spec => CallsComeCloser
<1>1. Init => LedAtHome
  BY CacheAssumption DEF Init, LedAtHome
<1>2. Spec => []LedAtHome
  BY <1>1, FlightsStayHome, CacheInvariance, PTL DEF Spec
<1>3. CacheInv /\ LedAtHome /\ [Next]_vars
      => [\A c \in Callers : ComesCloser(c)]_vars
  BY CallCloser DEF ComesCloser
<1> QED
  BY <1>2, <1>3, CacheInvariance, PTL DEF Spec, CallsComeCloser
=============================================================================
