------------------------------- MODULE Lease -------------------------------
(***************************************************************************)
(* What Locker (internal/pkg/lock/redis.go) promises its callers: fn runs  *)
(* only under a lease, a lease is granted when no other runs, is never     *)
(* renewed and ends with its time or by its owner alone.  The key, its     *)
(* token and the commands that fail are not visible here.                  *)
(***************************************************************************)
EXTENDS Integers

CONSTANTS Owner, Term

VARIABLES rest,     \* ticks left of each owner's lease, 0 for none
          working   \* the owners whose fn runs

vars == <<rest, working>>

Init == rest = [o \in Owner |-> 0] /\ working = {}

Grant(o) ==
  /\ \A p \in Owner : rest[p] = 0
  /\ rest' = [rest EXCEPT ![o] = Term]
  /\ working' = working \cup {o}

Finish(o) ==
  /\ o \in working
  /\ working' = working \ {o}
  /\ UNCHANGED rest

GiveUp(o) ==
  /\ rest' = [rest EXCEPT ![o] = 0]
  /\ working' = working \ {o}

Pass ==
  /\ rest' = [o \in Owner |-> IF rest[o] > 0 THEN rest[o] - 1 ELSE 0]
  /\ UNCHANGED working

Next == Pass \/ \E o \in Owner : Grant(o) \/ Finish(o) \/ GiveUp(o)

Spec == Init /\ [][Next]_vars
=============================================================================
