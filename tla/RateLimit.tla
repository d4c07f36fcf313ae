----------------------------- MODULE RateLimit -----------------------------
(***************************************************************************)
(* internal/middleware/ratelimit.go for the requests of one client IP: the *)
(* lazily created limiter in a sync.Map, and the token bucket of           *)
(* golang.org/x/time/rate (outside the repository) behind Allow, Reserve   *)
(* and Cancel.  Requests run concurrently.  A call on the limiter is two   *)
(* steps: it reads the clock, and then takes the mutex and works with what *)
(* it has read, however late that is and whatever clocks came before.      *)
(*                                                                         *)
(* A token takes Per ticks to refill, so tokens are counted in units of    *)
(* 1/Per token and a tick adds one unit.                                   *)
(***************************************************************************)
EXTENDS Integers, FiniteSets

CONSTANTS Clients,   \* goroutines that serve requests of the IP
          Burst,     \* bucket size in tokens
          Per,       \* ticks per token: Window / Rate
          MaxTime,   \* bound on the clock
          MaxDebt,   \* bound on the tokens below zero, which the code has not
          NoLimiter

Unread == -1   \* a call that has not read its clock

ASSUME RateAssumption == Burst \in Nat \ {0} /\ Per \in Nat \ {0} /\ MaxTime \in Nat
                          /\ MaxDebt \in Nat
ASSUME NoLimiterAssumption == NoLimiter \notin Clients

VARIABLES now,
          table,     \* the limiter stored for the IP, named by its creator
          limiters,  \* limiters[c]: [tokens, last, event] of the one c created
          pc,        \* "idle", "store", "allow", "reserve", "cancel"
          mine,      \* the limiter the request of c uses
          clock,     \* what the limiter call of c has read from the clock
          act,       \* timeToAct of the reservation of c
          admitted,  \* history: requests passed on
          rewound    \* history: how far calls have moved a limiter's last back

history == <<admitted, rewound>>
vars == <<now, table, limiters, pc, mine, clock, act, history>>

Full == Burst * Per
NewLimiter == [tokens |-> Full, last |-> 0, event |-> 0]

Init ==
  /\ now = 0
  /\ table = NoLimiter
  /\ limiters = [c \in Clients |-> NewLimiter]
  /\ pc = [c \in Clients |-> "idle"]
  /\ mine = [c \in Clients |-> NoLimiter]
  /\ clock = [c \in Clients |-> Unread]
  /\ act = [c \in Clients |-> 0]
  /\ admitted = 0
  /\ rewound = 0

\* The next call reads the clock for itself.
Goto(c, l) ==
  /\ pc' = [pc EXCEPT ![c] = l]
  /\ clock' = [clock EXCEPT ![c] = Unread]

\* The middleware returns; its locals go out of scope.
Return(c) ==
  /\ Goto(c, "idle")
  /\ mine' = [mine EXCEPT ![c] = NoLimiter]
  /\ act' = [act EXCEPT ![c] = 0]

Capped(x) == IF x > Full THEN Full ELSE x

\* rate.Limiter.advance: the tokens of l for a call whose clock is t.  One that
\* is older than last finds what there is, and makes last its own clock.
Tokens(l, t) == Capped(l.tokens + (IF t < l.last THEN 0 ELSE t - l.last))
Rewind(l, t) == IF t < l.last THEN l.last - t ELSE 0

\* What reserveN and CancelAt store in the limiter.
Put(c, tokens, event) ==
  /\ limiters' = [limiters EXCEPT ![mine[c]] =
                    [tokens |-> tokens, last |-> clock[c], event |-> event]]
  /\ rewound' = rewound + Rewind(limiters[mine[c]], clock[c])

Tick ==
  /\ now < MaxTime
  /\ now' = now + 1
  /\ UNCHANGED <<table, limiters, pc, mine, clock, act, history>>

\* A request arrives: limiters.Load(ip).
Load(c) ==
  /\ pc[c] = "idle"
  /\ Goto(c, IF table = NoLimiter THEN "store" ELSE "allow")
  /\ mine' = [mine EXCEPT ![c] = table]
  /\ UNCHANGED <<now, table, limiters, act, history>>

\* Variant: Store instead of LoadOrStore.
Store(c) ==
  /\ pc[c] = "store"
  /\ Goto(c, "allow")
  /\ table' = c
  /\ limiters' = [limiters EXCEPT ![c] = NewLimiter]
  /\ mine' = [mine EXCEPT ![c] = c]
  /\ UNCHANGED <<now, act, history>>

\* A new limiter is offered; the one stored first wins.
LoadOrStore(c) ==
  /\ pc[c] = "store"
  /\ Goto(c, "allow")
  /\ table' = IF table = NoLimiter THEN c ELSE table
  /\ limiters' = IF table = NoLimiter
                   THEN [limiters EXCEPT ![c] = NewLimiter] ELSE limiters
  /\ mine' = [mine EXCEPT ![c] = table']
  /\ UNCHANGED <<now, act, history>>

\* Allow, Reserve and Cancel: time.Now(), before the limiter is locked.
ReadClock(c) ==
  /\ pc[c] \in {"allow", "reserve", "cancel"} /\ clock[c] = Unread
  /\ clock' = [clock EXCEPT ![c] = now]
  /\ UNCHANGED <<now, table, limiters, pc, mine, act, history>>

Calls(c, l) == pc[c] = l /\ clock[c] # Unread

\* Allow: a reservation with no wait; when it is refused nothing is taken.
Admit(c) ==
  LET tokens == Tokens(limiters[mine[c]], clock[c]) IN
  /\ Calls(c, "allow") /\ tokens >= Per
  /\ Put(c, tokens - Per, clock[c])
  /\ admitted' = admitted + 1
  /\ Return(c)
  /\ UNCHANGED <<now, table>>

Deny(c) ==
  /\ Calls(c, "allow") /\ Tokens(limiters[mine[c]], clock[c]) < Per
  /\ Goto(c, "reserve")
  /\ UNCHANGED <<now, table, limiters, mine, act, history>>

\* Reserve: takes a token, of the future if it must.
Reserve(c) ==
  LET left == Tokens(limiters[mine[c]], clock[c]) - Per
      when == clock[c] + (IF left < 0 THEN -left ELSE 0)
  IN  /\ Calls(c, "reserve") /\ left >= -MaxDebt
      /\ Put(c, left, when)
      /\ act' = [act EXCEPT ![c] = when]
      /\ Goto(c, "cancel")
      /\ UNCHANGED <<now, table, mine, admitted>>

\* Cancel gives back what was not reserved by others after c, and nothing once
\* timeToAct has passed.
Restorable(c) ==
  IF act[c] < clock[c] THEN 0 ELSE Per - (limiters[mine[c]].event - act[c])

\* Variant: the bucket is not capped again.
CancelUncapped(c) ==
  LET l == limiters[mine[c]]
  IN  /\ Calls(c, "cancel")
      /\ Put(c, Tokens(l, clock[c]) + Per, l.event)
      /\ Return(c)
      /\ UNCHANGED <<now, table, admitted>>

Cancel(c) ==
  LET l == limiters[mine[c]]
      before == act[c] - Per
  IN  /\ Calls(c, "cancel")
      /\ IF Restorable(c) <= 0 THEN UNCHANGED <<limiters, rewound>>
         ELSE Put(c, Capped(Tokens(l, clock[c]) + Restorable(c)),
                  IF act[c] = l.event /\ before >= clock[c] THEN before ELSE l.event)
      /\ Return(c)
      /\ UNCHANGED <<now, table, admitted>>

Next ==
  \/ Tick
  \/ \E c \in Clients :
       Load(c) \/ LoadOrStore(c) \/ ReadClock(c) \/ Admit(c) \/ Deny(c) \/ Reserve(c) \/ Cancel(c)

Spec == Init /\ [][Next]_vars

-----------------------------------------------------------------------------
\* Types; tokens never exceed the bucket, and clocks of a limiter are past.
TypeOK ==
  /\ now \in 0 .. MaxTime
  /\ table \in Clients \cup {NoLimiter}
  /\ \A c \in Clients :
       /\ limiters[c].tokens \in Int /\ limiters[c].tokens <= Full
       /\ limiters[c].last \in 0 .. now
       /\ limiters[c].event \in Nat
  /\ pc \in [Clients -> {"idle", "store", "allow", "reserve", "cancel"}]
  /\ mine \in [Clients -> Clients \cup {NoLimiter}]
  /\ clock \in [Clients -> {Unread} \cup 0 .. now]
  /\ act \in [Clients -> Nat]
  /\ admitted \in Nat /\ rewound \in Nat

\* Two first requests of an IP that both find the map empty end up with one
\* limiter: whatever request has passed LoadOrStore uses the stored one
\* (ratelimit.go:50-61).
OneLimiter ==
  \A c \in Clients :
    pc[c] \in {"allow", "reserve", "cancel"} => mine[c] = table /\ table # NoLimiter

\* First requests, Allow, Reserve and Cancel of any number of requests let through
\* no more than the bucket and the time that has passed pay for, though calls work
\* with clocks they have read some time ago (ratelimit.go:22, 49-78), as long as
\* none of them is older than the last call that changed the bucket.  An older one
\* moves last back, and the time between the two is credited a second time: two
\* requests of a burst that overtake each other between clock and mutex may admit
\* one too many.
AdmittedBound == rewound = 0 => admitted * Per <= Full + now

\* What ratelimit.go:75 says: a denied request only computes its waiting time
\* and occupies no token.  So when a burst of requests is over, and no time has
\* passed, the bucket holds all that the admitted ones have left.
DeniedCostsNothing ==
  (\A c \in Clients : pc[c] = "idle") /\ table # NoLimiter /\ now = 0
    => limiters[table].tokens + admitted * Per = Full
=============================================================================
