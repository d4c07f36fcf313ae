---------------------------- MODULE RedisLocker ----------------------------
(***************************************************************************)
(* internal/pkg/lock/redis.go: TryWithLock of several processes on one     *)
(* key.  redislock (outside the repository) obtains with SET NX PX and a   *)
(* random token and releases with a script that deletes the key only if it *)
(* still holds that token; a token is named by the process here, which     *)
(* never has two leases at once.  Time is what is left of a lease.         *)
(***************************************************************************)
EXTENDS Integers, FiniteSets

CONSTANTS Procs,
          TTL,        \* lease in ticks
          MaxUpsets,  \* bound on failed Redis commands, crashes and panics
          Nobody

ASSUME LockAssumption == TTL \in Nat \ {0} /\ MaxUpsets \in Nat /\ Nobody \notin Procs

VARIABLES holder,   \* whose token the key holds
          left,     \* ticks until the key expires
          pc,       \* "idle", "obtain", "run", "release"
          lease,    \* ticks left of the lease as its process could count them
          ctxDone,  \* the caller's ctx has ended
          upsets

vars == <<holder, left, pc, lease, ctxDone, upsets>>
keyVars == <<holder, left>>

Init ==
  /\ holder = Nobody
  /\ left = 0
  /\ pc = [p \in Procs |-> "idle"]
  /\ lease = [p \in Procs |-> 0]
  /\ ctxDone = [p \in Procs |-> FALSE]
  /\ upsets = 0

Goto(p, l) == pc' = [pc EXCEPT ![p] = l]
Upset == upsets < MaxUpsets /\ upsets' = upsets + 1

\* TryWithLock returns, or its process dies or panics: nothing is left of it
\* but the key.
Leave(p) ==
  /\ Goto(p, "idle")
  /\ lease' = [lease EXCEPT ![p] = 0]
  /\ ctxDone' = [ctxDone EXCEPT ![p] = FALSE]

FreeKey == holder' = Nobody /\ left' = 0

Call(p) ==
  /\ pc[p] = "idle"
  /\ Goto(p, "obtain")
  /\ UNCHANGED <<keyVars, lease, ctxDone, upsets>>

CancelCtx(p) ==
  /\ pc[p] # "idle" /\ ~ ctxDone[p]
  /\ ctxDone' = [ctxDone EXCEPT ![p] = TRUE]
  /\ UNCHANGED <<keyVars, pc, lease, upsets>>

\* Variant: the ttl is sent in the wrong unit.
SetKeyWrongUnit(p) == holder = Nobody /\ holder' = p /\ left' = 1000 * TTL

\* Variant: NX is forgotten.
SetKeyAlways(p) == holder' = p /\ left' = TTL

\* SET key token NX PX ttl.
SetKey(p) == holder = Nobody /\ holder' = p /\ left' = TTL

Obtained(p) ==
  /\ pc[p] = "obtain" /\ ~ ctxDone[p]
  /\ SetKey(p)
  /\ Goto(p, "run")
  /\ lease' = [lease EXCEPT ![p] = TTL]
  /\ UNCHANGED <<ctxDone, upsets>>

\* Variant: whoever fails to obtain the key renews its ttl.
NotObtainedRenews(p) ==
  /\ pc[p] = "obtain" /\ ~ ctxDone[p] /\ holder # Nobody
  /\ left' = TTL
  /\ Leave(p)
  /\ UNCHANGED <<holder, upsets>>

\* Variant: ErrNotObtained falls through to fn.
NotObtainedRuns(p) ==
  /\ pc[p] = "obtain" /\ ~ ctxDone[p] /\ holder # Nobody
  /\ Goto(p, "run")
  /\ UNCHANGED <<keyVars, lease, ctxDone, upsets>>

\* ErrNotObtained: (false, nil).
NotObtained(p) ==
  /\ pc[p] = "obtain" /\ ~ ctxDone[p] /\ holder # Nobody
  /\ Leave(p)
  /\ UNCHANGED <<keyVars, upsets>>

\* (false, err) without a command: go-redis sends nothing under an ended ctx.
ObtainRefused(p) ==
  /\ pc[p] = "obtain" /\ ctxDone[p]
  /\ Leave(p)
  /\ UNCHANGED <<keyVars, upsets>>

\* (false, err) of Redis or the network; the SET may have been executed.
ObtainFails(p) ==
  /\ pc[p] = "obtain"
  /\ Upset
  /\ SetKey(p) \/ UNCHANGED keyVars
  /\ Leave(p)

\* fn returns, with or without an error.
FnReturns(p) ==
  /\ pc[p] = "run"
  /\ Goto(p, "release")
  /\ UNCHANGED <<keyVars, lease, ctxDone, upsets>>

\* Variant: a plain DEL.
DeleteAny(p) == FreeKey

\* The script deletes the key that still holds the token; otherwise it is
\* ErrLockNotHeld, which releaseLease takes for success.
DeleteOwn(p) == IF holder = p THEN FreeKey ELSE UNCHANGED keyVars

Release(p) ==
  /\ pc[p] = "release" /\ ~ ctxDone[p]
  /\ DeleteOwn(p)
  /\ Leave(p)
  /\ UNCHANGED upsets

\* The release uses the caller's ctx: once it has ended nothing is sent.
ReleaseRefused(p) ==
  /\ pc[p] = "release" /\ ctxDone[p]
  /\ Leave(p)
  /\ UNCHANGED <<keyVars, upsets>>

ReleaseFails(p) ==
  /\ pc[p] = "release"
  /\ Upset
  /\ DeleteOwn(p) \/ UNCHANGED keyVars
  /\ Leave(p)

\* The process dies, or fn panics: the release is not deferred.
Crash(p) ==
  /\ pc[p] # "idle"
  /\ Upset
  /\ Leave(p)
  /\ UNCHANGED keyVars

Lower(n) == IF n > 0 THEN n - 1 ELSE 0

Tick ==
  /\ lease' = [p \in Procs |-> Lower(lease[p])]
  /\ left' = Lower(left)
  /\ holder' = IF left' = 0 THEN Nobody ELSE holder
  /\ UNCHANGED <<pc, ctxDone, upsets>>

Step(p) ==
  \/ Obtained(p) \/ NotObtained(p) \/ ObtainRefused(p) \/ ObtainFails(p)
  \/ FnReturns(p)
  \/ Release(p) \/ ReleaseRefused(p) \/ ReleaseFails(p) \/ Crash(p)

Next == Tick \/ \E p \in Procs : Call(p) \/ CancelCtx(p) \/ Step(p)

Spec == Init /\ [][Next]_vars

\* Time passes; nothing else is needed for a key to expire.
FairSpec == Spec /\ WF_vars(Tick)

-----------------------------------------------------------------------------
TypeOK ==
  /\ holder \in Procs \cup {Nobody}
  /\ left \in 0 .. TTL
  /\ pc \in [Procs -> {"idle", "obtain", "run", "release"}]
  /\ lease \in [Procs -> 0 .. TTL]
  /\ ctxDone \in [Procs -> BOOLEAN]
  /\ upsets \in 0 .. MaxUpsets

InsideLease(p) == pc[p] = "run" /\ lease[p] > 0

\* Two fn run at once only when the lease of one of them is over, whatever
\* failed, crashed or was cancelled before (redis.go:36-50).
MutualExclusionInLease ==
  \A p, q \in Procs : InsideLease(p) /\ InsideLease(q) => p = q

\* Nobody takes the key from a process whose lease runs: not a late release
\* whose own lease has expired (redis.go:53-66).
OthersLeaveTheKey ==
  [][\A p \in Procs : InsideLease(p) /\ holder = p /\ lease'[p] > 0 => holder' = p]_vars

Promise == INSTANCE Lease WITH
  Owner <- Procs, Term <- TTL, rest <- lease, working <- {p \in Procs : pc[p] = "run"}

\* TryWithLock keeps the promise of Lease although the key alone decides who
\* gets in: a lost answer, a late release, a crash or a key that expires never
\* starts a second lease beside a running one, nor lengthens one
\* (redis.go:36-66).
KeepsLease == Promise!Spec

\* A key never stays for good: a crash, a panic or a failed release costs the
\* others at most the lease (redis.go:37, ttl).
KeyIsFreedAgain == \A p \in Procs : holder = p ~> holder # p

\* What redis.go:14 says: on its way out TryWithLock releases the lock while
\* the lease is valid.  Without failures of Redis or crashes, then, no key
\* belongs to a process that is not inside TryWithLock.
NoLeaseLeftBehind ==
  upsets = 0 => \A p \in Procs : holder = p => pc[p] # "idle"
=============================================================================
