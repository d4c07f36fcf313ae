------------------------ MODULE AlertNotifierProofs ------------------------
(***************************************************************************)
(* The properties of AlertNotifier for every number of alerts, keys and    *)
(* sinks and every window.  The invariant relates the map to its two       *)
(* histories, and every stamp to a sink that accepted.                     *)
(***************************************************************************)
EXTENDS AlertNotifier, TLAPS

\* A stamp in the map is of a key that some sink has accepted an alert of, and
\* not newer than the newest one committed.
StampsEarned ==
  \A k \in Keys : last[k] # Absent =>
    k \in accepted /\ newest[k] # Absent /\ last[k] <= newest[k]

\* So is the delivery that will write one.
CommitsEarned ==
  \A a \in Alerts :
    (pc[a] \in {"stamp", "commit"} \/ (pc[a] = "deliver" /\ anyOK[a]))
      => key[a] \in accepted

DedupInv == TypeOK /\ CleanupKeepsWindow /\ StampsEarned /\ CommitsEarned

\* A new Notifier has no stamps (notifier.go).
LEMMA InitDedup == Init => DedupInv
BY AlertAssumption
DEF Init, DedupInv, TypeOK, Absent, CleanupKeepsWindow, StampsEarned, CommitsEarned

\* Every step keeps the types.
LEMMA TypeStep == TypeOK /\ [Next]_vars => TypeOK'
<1> SUFFICES ASSUME TypeOK, [Next]_vars PROVE TypeOK'
  OBVIOUS
<1> USE AlertAssumption DEF TypeOK, Absent
<1>1. CASE Tick
  BY <1>1 DEF Tick, deliveryVars
<1>2. ASSUME NEW a \in Alerts, NEW k \in Keys, Send(a, k) PROVE TypeOK'
  BY <1>2 DEF Send, Goto, ReadClock, mapVars, deliveryVars
<1>3. ASSUME NEW a \in Alerts, Throttle(a) PROVE TypeOK'
  BY <1>3 DEF Throttle, Goto, mapVars, deliveryVars
<1>4. ASSUME NEW a \in Alerts, StartDelivery(a) PROVE TypeOK'
  BY <1>4 DEF StartDelivery, Goto, mapVars
<1>5. ASSUME NEW a \in Alerts, NEW s \in Sinks, NEW ok \in BOOLEAN,
             SinkReturns(a, s, ok)
      PROVE  TypeOK'
  <2>1. running' \in [Alerts -> SUBSET Sinks]
    BY <1>5 DEF SinkReturns
  <2>2. anyOK' \in [Alerts -> BOOLEAN]
    BY <1>5, Zenon DEF SinkReturns
  <2>3. accepted' \subseteq Keys
    BY <1>5 DEF SinkReturns
  <2> QED
    BY <1>5, <2>1, <2>2, <2>3 DEF SinkReturns, mapVars
<1>6. ASSUME NEW a \in Alerts, Finish(a) PROVE TypeOK'
  BY <1>6 DEF Finish, Goto, mapVars, deliveryVars
<1>7. ASSUME NEW a \in Alerts, Stamp(a) PROVE TypeOK'
  BY <1>7 DEF Stamp, Goto, ReadClock, mapVars, deliveryVars
<1>8. ASSUME NEW a \in Alerts, Commit(a) PROVE TypeOK'
  <2>1. last' \in [Keys -> {Absent} \cup 0 .. now']
    BY <1>8 DEF Commit, Expired
  <2>2. full' \in [Keys -> {Absent} \cup 0 .. now']
    BY <1>8 DEF Commit
  <2>3. newest' \in [Keys -> {Absent} \cup 0 .. now']
    BY <1>8 DEF Commit
  <2> QED
    BY <1>8, <2>1, <2>2, <2>3 DEF Commit, Goto, deliveryVars
<1>9. CASE UNCHANGED vars
  BY <1>9 DEF vars, deliveryVars
<1> QED
  BY <1>1, <1>2, <1>3, <1>4, <1>5, <1>6, <1>7, <1>8, <1>9 DEF Next, AlertStep

\* No step lets the clean-up drop a stamp whose window is still running.
LEMMA CleanupStep ==
  TypeOK /\ CleanupKeepsWindow /\ [Next]_vars => CleanupKeepsWindow'
<1> SUFFICES ASSUME TypeOK, CleanupKeepsWindow, [Next]_vars
             PROVE  CleanupKeepsWindow'
  OBVIOUS
<1> USE AlertAssumption DEF TypeOK, Absent, CleanupKeepsWindow
<1>1. CASE Tick
  BY <1>1 DEF Tick
<1>2. ASSUME NEW a \in Alerts, Commit(a) PROVE CleanupKeepsWindow'
  <2> SUFFICES ASSUME NEW k \in Keys
               PROVE  last'[k] = full'[k]
                        \/ (last'[k] = Absent /\ full'[k] < now' - Window)
    OBVIOUS
  <2>1. CASE k = key[a]
    BY <1>2, <2>1 DEF Commit, Expired
  <2>2. CASE k # key[a]
    <3>1. full'[k] = full[k] /\ now' = now
      BY <1>2, <2>2 DEF Commit
    <3>2. last'[k] = IF last[k] < clock[a] - Window THEN Absent ELSE last[k]
      BY <1>2, <2>2 DEF Commit, Expired
    <3> QED
      BY <3>1, <3>2
  <2> QED
    BY <2>1, <2>2
<1>3. CASE now' = now /\ UNCHANGED mapVars
  BY <1>3 DEF mapVars
<1> QED
  BY <1>1, <1>2, <1>3
  DEF Next, AlertStep, Send, Throttle, StartDelivery, SinkReturns, Finish, Stamp,
      vars, mapVars

\* What is stamped, and what is about to be, had a delivery that succeeded.
LEMMA EarnedStep == DedupInv /\ [Next]_vars => StampsEarned' /\ CommitsEarned'
<1> SUFFICES ASSUME DedupInv, [Next]_vars PROVE StampsEarned' /\ CommitsEarned'
  OBVIOUS
<1> USE DEF DedupInv, TypeOK, Absent, StampsEarned, CommitsEarned
<1>1. CASE Tick
  BY <1>1 DEF Tick, deliveryVars
<1>2. ASSUME NEW a \in Alerts, NEW k \in Keys, Send(a, k)
      PROVE  StampsEarned' /\ CommitsEarned'
  BY <1>2 DEF Send, Goto, mapVars, deliveryVars
<1>3. ASSUME NEW a \in Alerts, Throttle(a) PROVE StampsEarned' /\ CommitsEarned'
  BY <1>3 DEF Throttle, Goto, mapVars, deliveryVars
<1>4. ASSUME NEW a \in Alerts, StartDelivery(a)
      PROVE  StampsEarned' /\ CommitsEarned'
  BY <1>4 DEF StartDelivery, Goto, mapVars
<1>5. ASSUME NEW a \in Alerts, NEW s \in Sinks, NEW ok \in BOOLEAN,
             SinkReturns(a, s, ok)
      PROVE  StampsEarned' /\ CommitsEarned'
  <2>1. StampsEarned'
    BY <1>5 DEF SinkReturns, mapVars
  <2>2. accepted \subseteq accepted' /\ (ok => key[a] \in accepted')
    BY <1>5 DEF SinkReturns
  <2>3. pc' = pc /\ key' = key
    BY <1>5 DEF SinkReturns
  <2>4. \A b \in Alerts : anyOK'[b] => anyOK[b] \/ (b = a /\ ok)
    BY <1>5, Zenon DEF SinkReturns
  <2> QED
    BY <2>1, <2>2, <2>3, <2>4
<1>6. ASSUME NEW a \in Alerts, Finish(a) PROVE StampsEarned' /\ CommitsEarned'
  BY <1>6 DEF Finish, Goto, mapVars, deliveryVars
<1>7. ASSUME NEW a \in Alerts, Stamp(a) PROVE StampsEarned' /\ CommitsEarned'
  BY <1>7 DEF Stamp, Goto, mapVars, deliveryVars
<1>8. ASSUME NEW a \in Alerts, Commit(a) PROVE StampsEarned' /\ CommitsEarned'
  <2>1. CommitsEarned'
    BY <1>8 DEF Commit, Goto, deliveryVars
  <2>2. accepted' = accepted
    BY <1>8 DEF Commit, deliveryVars
  <2> SUFFICES ASSUME NEW k \in Keys, last'[k] # Absent
               PROVE  k \in accepted /\ newest'[k] # Absent /\ last'[k] <= newest'[k]
    BY <2>1, <2>2
  <2>3. CASE k = key[a]
    BY <1>8, <2>3 DEF Commit, Expired
  <2>4. CASE k # key[a]
    <3>1. last'[k] = last[k]
      BY <1>8, <2>4 DEF Commit, Expired
    <3>2. newest'[k] = newest[k]
      BY <1>8, <2>4 DEF Commit
    <3> QED
      BY <3>1, <3>2
  <2> QED
    BY <2>3, <2>4
<1>9. CASE UNCHANGED vars
  BY <1>9 DEF vars, deliveryVars
<1> QED
  BY <1>1, <1>2, <1>3, <1>4, <1>5, <1>6, <1>7, <1>8, <1>9 DEF Next, AlertStep

\* Every step of Send and of the clock keeps the invariant.
LEMMA DedupStep == DedupInv /\ [Next]_vars => DedupInv'
BY TypeStep, CleanupStep, EarnedStep DEF DedupInv

\* The invariant holds in every reachable state, for all alerts, keys and sinks.
THEOREM DedupInvariance == Spec => []DedupInv
BY InitDedup, DedupStep, PTL DEF Spec

\* TypeOK of dedup.go, notifier.go and fanout.go: stamps are never of the
\* future, whoever wrote them.
THEOREM TypeCorrect == Spec => []TypeOK
<1>1. DedupInv => TypeOK
  BY DEF DedupInv
<1> QED
  BY <1>1, DedupInvariance, PTL

\* The clean-up in Commit removes only what is older than the window
\* (dedup.go:92-98).
THEOREM CleanupIsInvisible == Spec => []CleanupKeepsWindow
<1>1. DedupInv => CleanupKeepsWindow
  BY DEF DedupInv
<1> QED
  BY <1>1, DedupInvariance, PTL

\* Only a success of the same key within the window silences an alert
\* (notifier.go:86-101, dedup.go:66-82).
THEOREM SilenceIsEarned == Spec => ThrottledForASuccess
<1> DEFINE Earned ==
      \A a \in Alerts : Throttles(a) =>
        key[a] \in accepted /\ WithinWindow(a, newest[key[a]])
<1>1. DedupInv /\ [Next]_vars => [Earned]_vars
  <2> SUFFICES ASSUME DedupInv, Next, NEW a \in Alerts, Throttles(a)
               PROVE  key[a] \in accepted /\ WithinWindow(a, newest[key[a]])
    BY Zenon
  <2> USE DEF DedupInv, TypeOK, Absent
  <2>1. CoolingDown(a)
    BY DEF Throttles, Next, AlertStep, Tick, Send, Throttle, StartDelivery,
           SinkReturns, Finish, Stamp, Commit, Goto
  <2>2. key[a] \in Keys /\ clock[a] \in Int
    OBVIOUS
  <2>3. last[key[a]] \in Int /\ newest[key[a]] \in Int
    BY <2>2
  <2>4. /\ key[a] \in accepted
        /\ newest[key[a]] # Absent
        /\ last[key[a]] <= newest[key[a]]
    BY <2>1, <2>2 DEF CoolingDown, StampsEarned
  <2> QED
    BY <2>1, <2>2, <2>3, <2>4, AlertAssumption DEF CoolingDown, WithinWindow
<1> QED
  BY <1>1, DedupInvariance, PTL DEF Spec, ThrottledForASuccess

\* Within the window of the last Commit no alert of the key gets through, the
\* two races of CooldownHolds apart (dedup.go:66-82).
THEOREM CooldownIsKept == Spec => CooldownHolds
<1> DEFINE Kept ==
      \A a \in Alerts :
        /\ LetsThrough(a)
        /\ full[key[a]] = newest[key[a]]
        /\ newest[key[a]] >= now - Window
        => ~ WithinWindow(a, newest[key[a]])
<1>1. DedupInv /\ [Next]_vars => [Kept]_vars
  <2> SUFFICES ASSUME DedupInv, Next, NEW a \in Alerts, LetsThrough(a),
                      full[key[a]] = newest[key[a]],
                      newest[key[a]] >= now - Window
               PROVE  ~ WithinWindow(a, newest[key[a]])
    BY Zenon
  <2> USE DEF DedupInv, TypeOK, Absent
  <2>1. ~ CoolingDown(a)
    BY DEF LetsThrough, Next, AlertStep, Tick, Send, Throttle, StartDelivery,
           SinkReturns, Finish, Stamp, Commit, Goto
  <2>2. last[key[a]] = newest[key[a]]
    BY AlertAssumption DEF CleanupKeepsWindow
  <2> QED
    BY <2>1, <2>2 DEF CoolingDown, WithinWindow
<1> QED
  BY <1>1, DedupInvariance, PTL DEF Spec, CooldownHolds

-----------------------------------------------------------------------------
(* What the races of CooldownHolds come down to: overlapping Commits.      *)

\* Two Commits of a key are never between their clock and the lock at once;
\* deliveries of the key, and everything else, may overlap.
CommitsOneByOne ==
  \A a, b \in Alerts :
    pc[a] = "commit" /\ pc[b] = "commit" /\ key[a] = key[b] => a = b

\* Stamps then come in the order of their clocks.
StampsInOrder ==
  /\ full = newest
  /\ \A a \in Alerts : pc[a] = "commit" => newest[key[a]] <= clock[a]

\* A delivery starts at least a window after the newest stamp of its key, in the
\* time of its look-up, whatever the clean-up has removed since Try's clock.
CooldownIsWhole ==
  [][\A a \in Alerts : LetsThrough(a) =>
       newest[key[a]] = Absent \/ now - newest[key[a]] >= Window]_vars

\* A Commit that is alone with its key writes the newest stamp.
LEMMA OrderStep ==
  DedupInv /\ CommitsOneByOne /\ StampsInOrder /\ [Next]_vars => StampsInOrder'
<1> SUFFICES ASSUME DedupInv, CommitsOneByOne, StampsInOrder, [Next]_vars
             PROVE  StampsInOrder'
  OBVIOUS
<1> USE DEF DedupInv, TypeOK, Absent, StampsInOrder
<1>1. CASE Tick
  BY <1>1 DEF Tick
<1>2. ASSUME NEW a \in Alerts, NEW k \in Keys, Send(a, k) PROVE StampsInOrder'
  BY <1>2 DEF Send, Goto, ReadClock, mapVars
<1>3. ASSUME NEW a \in Alerts, Throttle(a) \/ StartDelivery(a) \/ Finish(a)
      PROVE  StampsInOrder'
  BY <1>3 DEF Throttle, StartDelivery, Finish, Goto, mapVars
<1>4. ASSUME NEW a \in Alerts, NEW s \in Sinks, NEW ok \in BOOLEAN, SinkReturns(a, s, ok)
      PROVE  StampsInOrder'
  BY <1>4 DEF SinkReturns, mapVars
<1>5. ASSUME NEW a \in Alerts, Stamp(a) PROVE StampsInOrder'
  BY <1>5 DEF Stamp, Goto, ReadClock, mapVars
<1>6. ASSUME NEW a \in Alerts, Commit(a) PROVE StampsInOrder'
  <2>1. /\ pc[a] = "commit" /\ key[a] \in Keys /\ newest[key[a]] <= clock[a]
        /\ UNCHANGED <<key, clock>>
        /\ \A b \in Alerts : pc'[b] = "commit" => pc[b] = "commit" /\ b # a
    BY <1>6 DEF Commit, Goto
  <2>2. newest' = [newest EXCEPT ![key[a]] = clock[a]] /\ full' = newest'
    <3>1. CASE newest[key[a]] < clock[a]
      BY <1>6, <3>1 DEF Commit
    <3>2. CASE newest[key[a]] = clock[a]
      BY <1>6, <2>1, <3>2 DEF Commit
    <3> QED
      BY <2>1, <3>1, <3>2
  <2>3. ASSUME NEW b \in Alerts, pc'[b] = "commit" PROVE newest'[key'[b]] <= clock'[b]
    BY <2>1, <2>2, <2>3 DEF CommitsOneByOne
  <2> QED
    BY <2>2, <2>3
<1>7. CASE UNCHANGED vars
  BY <1>7 DEF vars
<1> QED
  BY <1>1, <1>2, <1>3, <1>4, <1>5, <1>6, <1>7 DEF Next, AlertStep

\* Only overlapping Commits of one key can shorten a cooldown: without them every
\* delivery starts a whole window after the last success of its key, as
\* dedup.go:64 says of Try, also when Try sleeps between its clock and its
\* look-up while other keys' Commits clean the map (dedup.go:66-99).
THEOREM OrderlyCommitsKeepCooldown == Spec /\ []CommitsOneByOne => CooldownIsWhole
<1> DEFINE Whole ==
      \A a \in Alerts : LetsThrough(a) =>
        newest[key[a]] = Absent \/ now - newest[key[a]] >= Window
<1>1. Init => StampsInOrder
  BY DEF Init, StampsInOrder
<1>2. DedupInv /\ StampsInOrder /\ [Next]_vars => [Whole]_vars
  <2> SUFFICES ASSUME DedupInv, StampsInOrder, Next, NEW a \in Alerts, LetsThrough(a),
                      newest[key[a]] # Absent
               PROVE  now - newest[key[a]] >= Window
    BY Zenon
  <2> USE DEF DedupInv, TypeOK, Absent, StampsInOrder
  <2>1. ~ CoolingDown(a)
    BY DEF LetsThrough, Next, AlertStep, Tick, Send, Throttle, StartDelivery,
           SinkReturns, Finish, Stamp, Commit, Goto
  <2>2. clock[a] <= now /\ clock[a] \in Int /\ now \in Int /\ newest[key[a]] \in Int
    OBVIOUS
  <2>3. \/ last[key[a]] = newest[key[a]]
        \/ newest[key[a]] < now - Window
    BY DEF CleanupKeepsWindow
  <2> QED
    BY <2>1, <2>2, <2>3, AlertAssumption DEF CoolingDown
<1> QED
  BY <1>1, <1>2, OrderStep, DedupInvariance, PTL DEF Spec, CooldownIsWhole
=============================================================================
