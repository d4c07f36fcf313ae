------------------------- MODULE RedisLockerProofs -------------------------
(***************************************************************************)
(* Mutual exclusion of RedisLocker for every number of processes, every    *)
(* lease and any failures.                                                 *)
(***************************************************************************)
EXTENDS RedisLocker, TLAPS

\* While the lease of a process runs the key is its own and expires with it.
LeaseHoldsKey ==
  \A p \in Procs :
    pc[p] \in {"run", "release"} /\ lease[p] > 0 => holder = p /\ left = lease[p]

LockInv == TypeOK /\ LeaseHoldsKey

\* A free key satisfies the invariant.
LEMMA InitLock == Init => LockInv
BY LockAssumption DEF Init, LockInv, TypeOK, LeaseHoldsKey

\* Every step of the callers and of Redis keeps the invariant.
LEMMA LockStep == LockInv /\ [Next]_vars => LockInv'
<1> SUFFICES ASSUME LockInv, [Next]_vars PROVE LockInv'
  OBVIOUS
<1> USE LockAssumption DEF LockInv, TypeOK, LeaseHoldsKey, keyVars
<1>1. CASE Tick
  <2>1. lease' \in [Procs -> 0 .. TTL] /\ left' \in 0 .. TTL
    BY <1>1 DEF Tick, Lower
  <2>2. ASSUME NEW p \in Procs, pc[p] \in {"run", "release"}, lease'[p] > 0
        PROVE  holder' = p /\ left' = lease'[p]
    BY <1>1, <2>2 DEF Tick, Lower
  <2> QED
    BY <1>1, <2>1, <2>2 DEF Tick
<1>2. ASSUME NEW p \in Procs, Call(p) PROVE LockInv'
  BY <1>2 DEF Call, Goto
<1>3. ASSUME NEW p \in Procs, CancelCtx(p) PROVE LockInv'
  BY <1>3 DEF CancelCtx
<1>4. ASSUME NEW p \in Procs, Obtained(p) PROVE LockInv'
  BY <1>4 DEF Obtained, SetKey, Goto
<1>5. ASSUME NEW p \in Procs, Leave(p), UNCHANGED <<keyVars, upsets>> PROVE LockInv'
  <2>1. TypeOK'
    BY <1>5 DEF Leave, Goto
  <2>2. LeaseHoldsKey'
    BY <1>5 DEF Leave, Goto
  <2> QED
    BY <2>1, <2>2
<1>6. ASSUME NEW p \in Procs, ObtainFails(p) PROVE LockInv'
  BY <1>6 DEF ObtainFails, Upset, SetKey, Leave, Goto
<1>7. ASSUME NEW p \in Procs, FnReturns(p) PROVE LockInv'
  BY <1>7 DEF FnReturns, Goto
<1>8. ASSUME NEW p \in Procs, Release(p) PROVE LockInv'
  BY <1>8 DEF Release, DeleteOwn, FreeKey, Leave, Goto
<1>9. ASSUME NEW p \in Procs, NotObtained(p) \/ ObtainRefused(p) \/ ReleaseRefused(p)
      PROVE  LockInv'
  BY <1>5, <1>9, Zenon DEF NotObtained, ObtainRefused, ReleaseRefused
<1>10. ASSUME NEW p \in Procs, ReleaseFails(p) PROVE LockInv'
  BY <1>10 DEF ReleaseFails, Upset, DeleteOwn, FreeKey, Leave, Goto
<1>11. ASSUME NEW p \in Procs, Crash(p) PROVE LockInv'
  BY <1>11 DEF Crash, Upset, Leave, Goto
<1>12. CASE UNCHANGED vars
  BY <1>12 DEF vars
<1> QED
  BY <1>1, <1>2, <1>3, <1>4, <1>6, <1>7, <1>8, <1>9, <1>10, <1>11, <1>12
  DEF Next, Step

\* The invariant holds in every reachable state, for all callers.
THEOREM LockInvariance == Spec => []LockInv
BY InitLock, LockStep, PTL DEF Spec

\* Every variable has its type (redis.go:36-66).
THEOREM TypeCorrect == Spec => []TypeOK
<1>1. LockInv => TypeOK
  BY DEF LockInv
<1> QED
  BY <1>1, LockInvariance, PTL

\* Two fn never run at once within both their leases, whatever failed before
\* (redis.go:36-50).
THEOREM MutualExclusion == Spec => []MutualExclusionInLease
<1>1. LockInv => MutualExclusionInLease
  BY DEF LockInv, LeaseHoldsKey, MutualExclusionInLease, InsideLease
<1> QED
  BY <1>1, LockInvariance, PTL

\* A process keeps the key until its lease is over or it leaves by itself: no
\* release of another takes it away (redis.go:53-66).
THEOREM KeyIsKept == Spec => OthersLeaveTheKey
<1> DEFINE Kept ==
      \A p \in Procs : InsideLease(p) /\ holder = p /\ lease'[p] > 0 => holder' = p
<1>1. LockInv /\ [Next]_vars => [Kept]_vars
  <2> SUFFICES ASSUME LockInv, Next, NEW p \in Procs,
                      InsideLease(p), holder = p, lease'[p] > 0
               PROVE  holder' = p
    BY Zenon
  <2> USE LockAssumption DEF LockInv, TypeOK, LeaseHoldsKey, InsideLease, keyVars
  <2>1. CASE Tick
    BY <2>1 DEF Tick, Lower
  <2>2. ASSUME NEW q \in Procs, Call(q) \/ CancelCtx(q) \/ Step(q)
        PROVE  holder' = p
    <3>1. CASE q = p
      BY <2>2, <3>1
      DEF Step, Call, CancelCtx, Obtained, NotObtained, ObtainRefused, ObtainFails,
          FnReturns, Release, ReleaseRefused, ReleaseFails, Crash, Leave, Goto
    <3>2. CASE q # p
      BY <2>2, <3>2
      DEF Step, Call, CancelCtx, Obtained, NotObtained, ObtainRefused, ObtainFails,
          FnReturns, Release, ReleaseRefused, ReleaseFails, Crash, SetKey, DeleteOwn
    <3> QED
      BY <3>1, <3>2
  <2> QED
    BY <2>1, <2>2 DEF Next
<1> QED
  BY <1>1, LockInvariance, PTL DEF Spec, OthersLeaveTheKey

-----------------------------------------------------------------------------
(* RedisLocker implements Lease.                                           *)

\* A process that is not past its SET has no lease, so that one is granted
\* only on top of nothing.
NoLeaseOutside == \A p \in Procs : pc[p] \in {"idle", "obtain"} => lease[p] = 0

\* A process that is not past its SET has no lease, in every reachable state.
LEMMA OutsideInvariance == Spec => []NoLeaseOutside
<1>1. Init => NoLeaseOutside
  BY DEF Init, NoLeaseOutside
<1>2. LockInv /\ NoLeaseOutside /\ [Next]_vars => NoLeaseOutside'
  <2> SUFFICES ASSUME LockInv, NoLeaseOutside, [Next]_vars PROVE NoLeaseOutside'
    OBVIOUS
  <2> USE DEF LockInv, TypeOK, NoLeaseOutside, keyVars
  <2>1. CASE Tick
    BY <2>1 DEF Tick, Lower
  <2>2. ASSUME NEW p \in Procs, Leave(p) PROVE NoLeaseOutside'
    BY <2>2 DEF Leave, Goto
  <2>3. ASSUME NEW p \in Procs, Call(p) \/ CancelCtx(p) \/ Obtained(p) \/ FnReturns(p)
        PROVE  NoLeaseOutside'
    BY <2>3 DEF Call, CancelCtx, Obtained, FnReturns, Goto
  <2>4. CASE UNCHANGED vars
    BY <2>4 DEF vars
  <2> QED
    BY <2>1, <2>2, <2>3, <2>4, Zenon
    DEF Next, Step, NotObtained, ObtainRefused, ObtainFails, Release, ReleaseRefused,
        ReleaseFails, Crash
<1> QED
  BY <1>1, <1>2, LockInvariance, PTL DEF Spec

\* Before the first call nobody has a lease and no fn runs.
LEMMA LeaseInit == Init => Promise!Init
BY DEF Init, Promise!Init

\* Each step of a process is a step of its own lease or invisible; a tick is
\* Pass.
LEMMA LeaseStep ==
  LockInv /\ NoLeaseOutside /\ [Next]_vars => [Promise!Next]_(Promise!vars)
<1> SUFFICES ASSUME LockInv, NoLeaseOutside, [Next]_vars
             PROVE  Promise!Next \/ UNCHANGED Promise!vars
  OBVIOUS
<1> USE LockAssumption DEF LockInv, TypeOK
<1>1. CASE Tick
  <2>1. Promise!Pass
    BY <1>1 DEF Tick, Lower, Promise!Pass
  <2> QED
    BY <2>1 DEF Promise!Next
<1>2. ASSUME NEW p \in Procs, Call(p) \/ CancelCtx(p) PROVE UNCHANGED Promise!vars
  BY <1>2 DEF Call, CancelCtx, Goto, Promise!vars
<1>3. ASSUME NEW p \in Procs, Obtained(p) PROVE Promise!Grant(p)
  <2>1. \A q \in Procs : lease[q] = 0
    BY <1>3 DEF Obtained, SetKey, LeaseHoldsKey, NoLeaseOutside
  <2>2. /\ lease' = [lease EXCEPT ![p] = TTL]
        /\ pc' = [pc EXCEPT ![p] = "run"]
    BY <1>3 DEF Obtained, Goto
  <2> QED
    BY <2>1, <2>2 DEF Promise!Grant
<1>4. ASSUME NEW p \in Procs, FnReturns(p) PROVE Promise!Finish(p)
  BY <1>4 DEF FnReturns, Goto, Promise!Finish
<1>5. ASSUME NEW p \in Procs, Leave(p) PROVE Promise!GiveUp(p)
  BY <1>5 DEF Leave, Goto, Promise!GiveUp
<1>6. CASE UNCHANGED vars
  BY <1>6 DEF vars, Promise!vars
<1> QED
  BY <1>1, <1>2, <1>3, <1>4, <1>5, <1>6, Zenon
  DEF Next, Step, NotObtained, ObtainRefused, ObtainFails, Release, ReleaseRefused,
      ReleaseFails, Crash, Promise!Next

\* The promise is worth having: whatever keeps it has one lease at a time.
THEOREM LeaseIsExclusive ==
  Promise!Spec => [](\A p, q \in Procs : lease[p] > 0 /\ lease[q] > 0 => p = q)
<1> DEFINE Alone == \A p, q \in Procs : lease[p] > 0 /\ lease[q] > 0 => p = q
           Granted == lease \in [Procs -> Nat] /\ Alone
<1>1. Promise!Init => Granted
  BY DEF Promise!Init
<1>2. Granted /\ [Promise!Next]_(Promise!vars) => Granted'
  BY LockAssumption
  DEF Promise!Next, Promise!Pass, Promise!Grant, Promise!Finish, Promise!GiveUp, Promise!vars
<1> QED
  BY <1>1, <1>2, PTL DEF Promise!Spec

\* TryWithLock implements Lease, for any number of processes, any ttl and any
\* failures: fn runs under leases that exclude each other and are never
\* renewed (redis.go:36-66).
THEOREM LockerKeepsLease == Spec => KeepsLease
BY LeaseInit, LeaseStep, LockInvariance, OutsideInvariance, PTL
DEF Spec, KeepsLease, Promise!Spec

-----------------------------------------------------------------------------
(* How long a key can stay, and what can leave one behind.                 *)

\* The ttl of a key only runs down: it is renewed neither by its holder nor by
\* the attempts of others, and a tick brings it one nearer to its end.  With
\* time passing this is why the key becomes free again (redis.go:37).
THEOREM KeyRunsDown ==
  Spec => [][holder # Nobody /\ holder' = holder => left' <= left /\ (Tick => left' < left)]_vars
<1> DEFINE Down ==
      holder # Nobody /\ holder' = holder => left' <= left /\ (Tick => left' < left)
<1>1. LockInv /\ [Next]_vars => [Down]_vars
  <2> SUFFICES ASSUME LockInv, Next, holder # Nobody, holder' = holder
               PROVE  left' <= left /\ (Tick => left' < left)
    BY Zenon
  <2>1. left \in Nat
    BY LockAssumption DEF LockInv, TypeOK
  <2>2. CASE Tick
    BY <2>1, <2>2 DEF Tick, Lower
  <2>3. ASSUME NEW p \in Procs, Call(p) \/ CancelCtx(p) \/ Step(p) PROVE left' = left
    BY <2>3
    DEF Step, Call, CancelCtx, Obtained, NotObtained, ObtainRefused, ObtainFails, FnReturns,
        Release, ReleaseRefused, ReleaseFails, Crash, SetKey, DeleteOwn, FreeKey, keyVars
  <2>4. CASE ~Tick
    <3>1. left' = left
      BY <2>3, <2>4 DEF Next
    <3> QED
      BY <2>1, <2>4, <3>1
  <2> QED
    BY <2>2, <2>4
<1> QED
  BY <1>1, LockInvariance, PTL DEF Spec

\* Nobody's key is left behind as long as no ctx ends: what TryWithLock says of
\* its exit (redis.go:14) fails for this one reason, Redis and crashes apart.
THEOREM OnlyCtxLeavesKeyBehind ==
  Spec /\ [](\A p \in Procs : ~ctxDone[p]) => []NoLeaseLeftBehind
<1> DEFINE Live == \A p \in Procs : ~ctxDone[p]
           Held == upsets = 0 => \A p \in Procs : holder = p => pc[p] \in {"run", "release"}
<1>1. Init => Held
  BY LockAssumption DEF Init
<1>2. LockInv /\ Held /\ Live /\ [Next]_vars => Held'
  <2> SUFFICES ASSUME LockInv, Held, Live, [Next]_vars, upsets' = 0,
                      NEW p \in Procs, holder' = p
               PROVE  pc'[p] \in {"run", "release"}
    OBVIOUS
  <2>1. /\ upsets \in Nat /\ pc \in [Procs -> {"idle", "obtain", "run", "release"}]
        /\ p # Nobody
    BY LockAssumption DEF LockInv, TypeOK
  <2>2. upsets = 0 /\ ~ \E q \in Procs : ObtainFails(q) \/ ReleaseFails(q) \/ Crash(q)
    BY <2>1 DEF Next, Step, ObtainFails, ReleaseFails, Crash, Upset, Tick, Call, CancelCtx,
      Obtained, NotObtained, ObtainRefused, FnReturns, Release, ReleaseRefused, vars
  <2>3. holder = p => pc[p] \in {"run", "release"}
    BY <2>2
  <2>4. CASE Tick \/ UNCHANGED vars
    BY <2>1, <2>3, <2>4 DEF Tick, vars
  <2>5. ASSUME NEW q \in Procs,
               Call(q) \/ CancelCtx(q) \/ NotObtained(q) \/ ObtainRefused(q) \/ FnReturns(q)
        PROVE  pc'[p] \in {"run", "release"}
    BY <2>1, <2>3, <2>5
    DEF Call, CancelCtx, NotObtained, ObtainRefused, FnReturns, Leave, Goto, keyVars
  <2>6. ASSUME NEW q \in Procs, Obtained(q) PROVE pc'[p] \in {"run", "release"}
    BY <2>1, <2>6 DEF Obtained, SetKey, Goto
  <2>7. ASSUME NEW q \in Procs, Release(q) \/ ReleaseRefused(q)
        PROVE  pc'[p] \in {"run", "release"}
    BY <2>1, <2>3, <2>7 DEF Release, ReleaseRefused, DeleteOwn, FreeKey, Leave, Goto, keyVars
  <2> QED
    BY <2>2, <2>4, <2>5, <2>6, <2>7 DEF Next, Step
<1>3. Held => NoLeaseLeftBehind
  BY DEF NoLeaseLeftBehind
<1> QED
  BY <1>1, <1>2, <1>3, LockInvariance, PTL DEF Spec
=============================================================================
