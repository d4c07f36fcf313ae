-------------------------- MODULE RateLimitProofs --------------------------
(***************************************************************************)
(* RateLimit for any number of requests at once, any burst and any rate:   *)
(* one limiter for an IP, the types, what sequential denials cost, and     *)
(* that no interleaving without older clocks admits more than the bucket   *)
(* and the time pay for.                                                   *)
(*                                                                         *)
(* The last is not a count of tokens: overlapping denials may lose tokens  *)
(* or have more of them given back than the others expect.  What bounds it *)
(* is the worth of what denied requests took out, in which a tick counts   *)
(* twice as much for every token it lies further in the future.            *)
(***************************************************************************)
EXTENDS RateLimit, NaturalsInduction, WellFoundedInduction, TLAPS

\* A bucket within its bounds, as a whole.
Buckets == [tokens : {x \in Int : x <= Full}, last : Nat, event : Nat]

RateInv ==
  /\ TypeOK /\ OneLimiter
  /\ limiters \in [Clients -> Buckets]

\* The size of the bucket is a number, which is all that is used of it.
LEMMA FullIsNat == Full \in Nat
BY RateAssumption DEF Full

\* What is capped at the burst fits into a bucket.
LEMMA CappedFits ==
  ASSUME NEW x \in Int
  PROVE  Capped(x) \in Int /\ Capped(x) <= Full
BY FullIsNat DEF Capped

\* The tokens a call finds fit into a bucket, whatever its clock.
LEMMA TokensFit ==
  ASSUME NEW l \in Buckets, NEW t \in Int
  PROVE  Tokens(l, t) \in Int /\ Tokens(l, t) <= Full
<1>1. l.tokens + (IF t < l.last THEN 0 ELSE t - l.last) \in Int
  BY DEF Buckets
<1> QED
  BY <1>1, CappedFits DEF Tokens

\* An empty set of limiters satisfies the invariant.
LEMMA InitRate == Init => RateInv
<1> SUFFICES ASSUME Init PROVE RateInv
  OBVIOUS
<1>1. NewLimiter \in Buckets
  BY FullIsNat DEF NewLimiter, Buckets
<1>2. limiters \in [Clients -> Buckets]
  BY <1>1 DEF Init
<1> QED
  BY <1>2, FullIsNat, RateAssumption DEF Init, RateInv, TypeOK, OneLimiter, NewLimiter, Unread

\* One limiter gets a new bucket; the others keep theirs.
LEMMA BucketChanges ==
  ASSUME RateInv, UNCHANGED now, NEW b \in Buckets, b.last <= now, NEW k \in Clients,
         limiters' = [limiters EXCEPT ![k] = b]
  PROVE  /\ limiters' \in [Clients -> Buckets]
         /\ \A c \in Clients : /\ limiters'[c].tokens \in Int /\ limiters'[c].tokens <= Full
                               /\ limiters'[c].last \in 0 .. now'
                               /\ limiters'[c].event \in Nat
<1>1. now \in Nat
  BY RateAssumption DEF RateInv, TypeOK
<1>2. limiters' \in [Clients -> Buckets]
  BY DEF RateInv
<1>3. ASSUME NEW c \in Clients PROVE limiters'[c].last <= now
  BY <1>1 DEF RateInv, TypeOK
<1> QED
  BY <1>1, <1>2, <1>3 DEF Buckets

\* A call that works with the limiter has read its clock.
LEMMA CallersClock ==
  ASSUME RateInv, NEW c \in Clients, NEW p \in {"allow", "reserve", "cancel"}, Calls(c, p)
  PROVE  /\ clock[c] \in Nat /\ clock[c] <= now /\ now \in Nat
         /\ mine[c] = table /\ mine[c] \in Clients /\ table # NoLimiter
         /\ limiters[mine[c]] \in Buckets
         /\ Tokens(limiters[mine[c]], clock[c]) \in Int
         /\ Tokens(limiters[mine[c]], clock[c]) <= Full
<1>1. clock[c] \in Nat /\ clock[c] <= now /\ now \in Nat
  BY RateAssumption DEF RateInv, TypeOK, Calls, Unread
<1>2. mine[c] = table /\ table # NoLimiter /\ mine[c] \in Clients
  BY DEF RateInv, TypeOK, OneLimiter, Calls
<1>3. limiters[mine[c]] \in Buckets
  BY <1>2 DEF RateInv
<1> QED
  BY <1>1, <1>2, <1>3, TokensFit

\* What a call stores is a bucket, and last moves back by a natural number.
LEMMA PutFits ==
  ASSUME RateInv, UNCHANGED now, NEW c \in Clients, mine[c] \in Clients,
         clock[c] \in Nat, clock[c] <= now,
         NEW x \in Int, x <= Full, NEW e \in Nat, Put(c, x, e)
  PROVE  /\ limiters' \in [Clients -> Buckets]
         /\ \A k \in Clients : /\ limiters'[k].tokens \in Int /\ limiters'[k].tokens <= Full
                               /\ limiters'[k].last \in 0 .. now'
                               /\ limiters'[k].event \in Nat
         /\ rewound' \in Nat
         /\ limiters'[mine[c]] = [tokens |-> x, last |-> clock[c], event |-> e]
         /\ rewound' = rewound + Rewind(limiters[mine[c]], clock[c])
<1> DEFINE b == [tokens |-> x, last |-> clock[c], event |-> e]
<1>1. b \in Buckets /\ b.last <= now
  BY DEF Buckets
<1>2. /\ limiters' = [limiters EXCEPT ![mine[c]] = b]
      /\ rewound' = rewound + Rewind(limiters[mine[c]], clock[c])
  BY DEF Put
<1>3. limiters'[mine[c]] = b
  BY <1>2 DEF RateInv
<1>4. rewound' \in Nat
  <2>1. rewound \in Nat /\ limiters[mine[c]].last \in Nat
    BY RateAssumption DEF RateInv, TypeOK
  <2>2. Rewind(limiters[mine[c]], clock[c]) \in Nat
    BY <2>1 DEF Rewind
  <2> QED
    BY <1>2, <2>1, <2>2
<1> HIDE DEF b
<1>5. /\ limiters' \in [Clients -> Buckets]
      /\ \A k \in Clients : /\ limiters'[k].tokens \in Int /\ limiters'[k].tokens <= Full
                            /\ limiters'[k].last \in 0 .. now'
                            /\ limiters'[k].event \in Nat
  BY <1>1, <1>2, BucketChanges
<1> QED
  BY <1>2, <1>3, <1>4, <1>5 DEF b

\* Every step of the clock and of the requests keeps the invariant.
LEMMA RateStep == RateInv /\ [Next]_vars => RateInv'
<1> SUFFICES ASSUME RateInv, [Next]_vars PROVE RateInv'
  OBVIOUS
<1> USE RateAssumption, NoLimiterAssumption, FullIsNat
<1>1. /\ TypeOK /\ OneLimiter /\ limiters \in [Clients -> Buckets] /\ now \in Nat
      /\ clock \in [Clients -> {Unread} \cup 0 .. now]
  BY DEF RateInv, TypeOK
<1>2. CASE Tick
  <2>1. now' \in 0 .. MaxTime /\ now <= now'
    BY <1>1, <1>2 DEF Tick, TypeOK
  <2>2. clock' \in [Clients -> {Unread} \cup 0 .. now']
    BY <1>1, <1>2, <2>1 DEF Tick
  <2>3. TypeOK'
    BY <1>1, <1>2, <2>1, <2>2 DEF Tick, TypeOK, history
  <2> QED
    BY <1>1, <1>2, <2>3 DEF Tick, RateInv, OneLimiter
<1>3. ASSUME NEW c \in Clients, Load(c) PROVE RateInv'
  <2>1. TypeOK'
    BY <1>1, <1>3 DEF Load, Goto, TypeOK, history
  <2>2. OneLimiter'
    BY <1>1, <1>3 DEF Load, Goto, TypeOK, OneLimiter
  <2> QED
    BY <1>1, <1>3, <2>1, <2>2 DEF Load, RateInv
<1>4. ASSUME NEW c \in Clients, LoadOrStore(c) PROVE RateInv'
  <2>1. NewLimiter \in Buckets /\ NewLimiter.last <= now
    BY <1>1 DEF NewLimiter, Buckets
  <2>2. /\ limiters' \in [Clients -> Buckets]
        /\ \A k \in Clients : /\ limiters'[k].tokens \in Int /\ limiters'[k].tokens <= Full
                              /\ limiters'[k].last \in 0 .. now'
                              /\ limiters'[k].event \in Nat
    BY <1>1, <1>4, <2>1, BucketChanges DEF LoadOrStore, TypeOK
  <2>3. /\ table' \in Clients /\ mine' = [mine EXCEPT ![c] = table']
        /\ table # NoLimiter => table' = table
    BY <1>1, <1>4 DEF LoadOrStore, TypeOK
  <2>4. TypeOK'
    BY <1>1, <1>4, <2>2, <2>3 DEF LoadOrStore, Goto, TypeOK, history
  <2>5. OneLimiter'
    BY <1>1, <1>4, <2>3 DEF LoadOrStore, Goto, TypeOK, OneLimiter
  <2> QED
    BY <2>2, <2>4, <2>5 DEF RateInv
<1>5. ASSUME NEW c \in Clients, Deny(c) PROVE RateInv'
  <2>1. TypeOK'
    BY <1>1, <1>5 DEF Deny, Calls, Goto, TypeOK, history
  <2>2. OneLimiter'
    BY <1>1, <1>5 DEF Deny, Calls, Goto, TypeOK, OneLimiter
  <2> QED
    BY <1>1, <1>5, <2>1, <2>2 DEF Deny, RateInv
<1>6. ASSUME NEW c \in Clients, ReadClock(c) PROVE RateInv'
  <2>1. TypeOK'
    BY <1>1, <1>6 DEF ReadClock, TypeOK, history
  <2> QED
    BY <1>1, <1>6, <2>1 DEF ReadClock, RateInv, OneLimiter
<1>7. ASSUME NEW c \in Clients, Admit(c) PROVE RateInv'
  <2> DEFINE x == Tokens(limiters[mine[c]], clock[c]) - Per
  <2>1. /\ mine[c] \in Clients /\ clock[c] \in Nat /\ clock[c] <= now
        /\ x \in Int /\ x <= Full
    BY <1>7, CallersClock DEF Admit
  <2>2. Put(c, x, clock[c]) /\ UNCHANGED <<now, table>>
    BY <1>7 DEF Admit
  <2> HIDE DEF x
  <2>3. /\ limiters' \in [Clients -> Buckets]
        /\ \A k \in Clients : /\ limiters'[k].tokens \in Int /\ limiters'[k].tokens <= Full
                              /\ limiters'[k].last \in 0 .. now'
                              /\ limiters'[k].event \in Nat
        /\ rewound' \in Nat
    BY <2>1, <2>2, PutFits
  <2>4. TypeOK'
    BY <1>1, <1>7, <2>2, <2>3 DEF Admit, Return, Goto, TypeOK
  <2>5. OneLimiter'
    BY <1>1, <1>7, <2>2 DEF Admit, Return, Goto, TypeOK, OneLimiter
  <2> QED
    BY <2>3, <2>4, <2>5 DEF RateInv
<1>8. ASSUME NEW c \in Clients, Reserve(c) PROVE RateInv'
  <2> DEFINE left == Tokens(limiters[mine[c]], clock[c]) - Per
             when == clock[c] + (IF left < 0 THEN -left ELSE 0)
  <2>1. /\ mine[c] \in Clients /\ clock[c] \in Nat /\ clock[c] <= now
        /\ left \in Int /\ left <= Full
    BY <1>8, CallersClock DEF Reserve
  <2>2. when \in Nat
    BY <2>1
  <2>3. /\ Put(c, left, when) /\ UNCHANGED <<now, table, mine, admitted>>
        /\ act' = [act EXCEPT ![c] = when] /\ pc[c] = "reserve" /\ Goto(c, "cancel")
    BY <1>8 DEF Reserve, Calls
  <2> HIDE DEF left, when
  <2>4. /\ limiters' \in [Clients -> Buckets]
        /\ \A k \in Clients : /\ limiters'[k].tokens \in Int /\ limiters'[k].tokens <= Full
                              /\ limiters'[k].last \in 0 .. now'
                              /\ limiters'[k].event \in Nat
        /\ rewound' \in Nat
    BY <2>1, <2>2, <2>3, PutFits
  <2>5. TypeOK'
    BY <1>1, <2>2, <2>3, <2>4 DEF Goto, TypeOK
  <2>6. OneLimiter'
    BY <1>1, <2>3 DEF Goto, TypeOK, OneLimiter
  <2> QED
    BY <2>4, <2>5, <2>6 DEF RateInv
<1>9. ASSUME NEW c \in Clients, Cancel(c) PROVE RateInv'
  <2> DEFINE l == limiters[mine[c]]
             before == act[c] - Per
             x == Capped(Tokens(l, clock[c]) + Restorable(c))
             e == IF act[c] = l.event /\ before >= clock[c] THEN before ELSE l.event
  <2>1. /\ mine[c] \in Clients /\ clock[c] \in Nat /\ clock[c] <= now
        /\ Tokens(l, clock[c]) \in Int /\ l.event \in Nat
    BY <1>9, CallersClock DEF Cancel, Buckets
  <2>2. act[c] \in Nat /\ Restorable(c) \in Int
    BY <1>1, <2>1 DEF Restorable, TypeOK
  <2>3. x \in Int /\ x <= Full /\ e \in Nat
    BY <2>1, <2>2, CappedFits
  <2>4. /\ UNCHANGED <<limiters, rewound>> \/ Put(c, x, e)
        /\ UNCHANGED <<now, table, admitted>>
    BY <1>9 DEF Cancel
  <2> HIDE DEF x, e
  <2>5. /\ limiters' \in [Clients -> Buckets]
        /\ \A k \in Clients : /\ limiters'[k].tokens \in Int /\ limiters'[k].tokens <= Full
                              /\ limiters'[k].last \in 0 .. now'
                              /\ limiters'[k].event \in Nat
        /\ rewound' \in Nat
    <3>1. CASE UNCHANGED <<limiters, rewound>>
      BY <1>1, <2>4, <3>1 DEF TypeOK
    <3>2. CASE Put(c, x, e)
      BY <2>1, <2>3, <2>4, <3>2, PutFits
    <3> QED
      BY <2>4, <3>1, <3>2
  <2>6. TypeOK'
    BY <1>1, <1>9, <2>4, <2>5 DEF Cancel, Return, Goto, TypeOK
  <2>7. OneLimiter'
    BY <1>1, <1>9, <2>4 DEF Cancel, Return, Goto, TypeOK, OneLimiter
  <2> QED
    BY <2>5, <2>6, <2>7 DEF RateInv
<1>10. CASE UNCHANGED vars
  BY <1>1, <1>10 DEF vars, history, RateInv, TypeOK, OneLimiter
<1> QED
  BY <1>2, <1>3, <1>4, <1>5, <1>6, <1>7, <1>8, <1>9, <1>10 DEF Next

\* The invariant holds in every reachable state, for all rates and bursts.
THEOREM RateInvariance == Spec => []RateInv
BY InitRate, RateStep, PTL DEF Spec

\* Buckets are never overfull and their clocks are past (ratelimit.go:49-78).
THEOREM TypeCorrect == Spec => []TypeOK
<1>1. RateInv => TypeOK
  BY DEF RateInv
<1> QED
  BY <1>1, RateInvariance, PTL

\* All requests of an IP use the limiter that was stored first
\* (ratelimit.go:50-61).
THEOREM FirstLimiterWins == Spec => []OneLimiter
<1>1. RateInv => OneLimiter
  BY DEF RateInv
<1> QED
  BY <1>1, RateInvariance, PTL

-----------------------------------------------------------------------------
(* What the bucket pays for while denied requests do not overlap, whatever *)
(* clocks the calls work with.                                             *)

\* No two denied requests are between their Reserve and their Cancel.
DeniedOneByOne ==
  \A c, d \in Clients : pc[c] = "cancel" /\ pc[d] = "cancel" => c = d

Stock == limiters[table].tokens
Last == limiters[table].last
Event == limiters[table].event
Paid == admitted * Per

\* All the time the limiter has been credited with: last, and what it was moved back.
Credit == Last + rewound

\* The reservation of c was made when calls had moved last back by r.  Before its
\* Cancel the event falls below it by no more than last has been moved back since:
\* an event is the clock of an Allow that found tokens, and by then the credit has
\* come to the reservation.  As long as no time has passed it is the last event.
Reserved(c, r) ==
  /\ Stock + Per + Paid <= Full + Credit + r
  /\ act[c] - Event <= rewound - r
  /\ act[c] <= (Credit - r) + (IF Stock < 0 THEN -Stock ELSE 0)
  /\ now = 0 => /\ Stock + Per + Paid = Full /\ act[c] = Event
                /\ act[c] = 0 \/ Stock < 0

\* What is in the bucket, what is reserved and what was admitted is paid for, with
\* the time that was credited twice, and exactly so as long as no time has passed.
Account ==
  /\ now = 0 => rewound = 0
  /\ IF table = NoLimiter THEN Paid = 0
     ELSE /\ Paid <= Full + Credit + rewound
          /\ \A c \in Clients : pc[c] = "cancel" => \E r \in 0 .. rewound : Reserved(c, r)
          /\ (\A c \in Clients : pc[c] # "cancel") =>
               /\ Stock + Paid <= Full + Credit + rewound
               /\ now = 0 => Stock + Paid = Full

\* What was paid is a natural number.
LEMMA PaidIsNat == RateInv => Paid \in Nat
BY RateAssumption DEF RateInv, TypeOK, Paid

\* A request admitted is a token paid.
LEMMA PaidGrows ==
  ASSUME RateInv, admitted' = admitted + 1
  PROVE  Paid' = Paid + Per
<1>1. admitted \in Nat /\ Per \in Nat
  BY RateAssumption DEF RateInv, TypeOK
<1>2. (admitted + 1) * Per = admitted * Per + Per
  BY <1>1
<1> QED
  BY <1>2 DEF Paid

\* The stored limiter, once there is one.
LEMMA Stored ==
  ASSUME RateInv, table # NoLimiter
  PROVE  /\ table \in Clients /\ limiters[table] \in Buckets /\ now \in Nat /\ Last <= now
         /\ Stock \in Int /\ Stock <= Full /\ Last \in Nat /\ Event \in Nat
         /\ rewound \in Nat /\ Paid \in Nat /\ Full \in Nat /\ Per \in Nat /\ Per > 0
         /\ Credit \in Nat
<1>1. /\ table \in Clients /\ now \in Nat /\ limiters[table] \in Buckets
      /\ limiters[table].last \in 0 .. now /\ rewound \in Nat
  BY RateAssumption DEF RateInv, TypeOK
<1> QED
  BY <1>1, PaidIsNat, FullIsNat, RateAssumption DEF Stock, Last, Event, Credit, Buckets

\* What a call that stores something does to the stock and to the credit: it finds
\* u tokens, which are more by at most what the credit grows.
LEMMA CallCredits ==
  ASSUME RateInv, NEW c \in Clients, NEW p \in {"allow", "reserve", "cancel"}, Calls(c, p),
         UNCHANGED <<now, table>>, NEW x \in Int, x <= Full, NEW e \in Nat, Put(c, x, e),
         now = 0 => rewound = 0
  PROVE  /\ Stock' = x /\ Event' = e /\ Last' = clock[c]
         /\ rewound' \in Nat /\ rewound <= rewound' /\ Credit' = clock[c] + rewound'
         /\ Credit' \in Nat /\ Credit <= Credit'
         /\ Tokens(limiters[mine[c]], clock[c]) \in Int
         /\ Tokens(limiters[mine[c]], clock[c]) <= Stock + (Credit' - Credit)
         /\ Tokens(limiters[mine[c]], clock[c]) < 0
              => Tokens(limiters[mine[c]], clock[c]) = Stock + (Credit' - Credit)
         /\ now = 0 => /\ rewound' = 0 /\ clock[c] = 0
                       /\ Tokens(limiters[mine[c]], clock[c]) = Stock
<1> DEFINE l == limiters[mine[c]]
           t == clock[c]
<1>1. /\ t \in Nat /\ t <= now /\ now \in Nat /\ mine[c] = table /\ mine[c] \in Clients
      /\ table # NoLimiter /\ l \in Buckets /\ Tokens(l, t) \in Int
  BY CallersClock
<1>2. /\ limiters'[table'] = [tokens |-> x, last |-> t, event |-> e]
      /\ rewound' \in Nat /\ rewound' = rewound + Rewind(l, t)
  BY <1>1, PutFits
<1>3. Stock' = x /\ Event' = e /\ Last' = t /\ Credit' = t + rewound'
  BY <1>2 DEF Stock, Event, Last, Credit
<1>4. /\ Stock \in Int /\ Stock <= Full /\ Last \in Nat /\ Last <= now /\ rewound \in Nat
      /\ Full \in Nat /\ l.tokens = Stock /\ l.last = Last /\ Credit = Last + rewound
  BY <1>1, Stored DEF Stock, Last, Credit
<1>5. CASE t < Last
  <2>1. rewound' = rewound + (Last - t) /\ Tokens(l, t) = Stock
    BY <1>1, <1>2, <1>4, <1>5 DEF Rewind, Tokens, Capped
  <2> QED
    BY <1>1, <1>2, <1>3, <1>4, <1>5, <2>1
<1>6. CASE ~(t < Last)
  <2>1. rewound' = rewound /\ Tokens(l, t) = Capped(Stock + (t - Last))
    BY <1>1, <1>2, <1>4, <1>6 DEF Rewind, Tokens
  <2>2. Credit' - Credit = t - Last
    BY <1>1, <1>2, <1>3, <1>4, <2>1
  <2>3. /\ Tokens(l, t) <= Stock + (t - Last)
        /\ Tokens(l, t) < 0 => Tokens(l, t) = Stock + (t - Last)
        /\ t = Last => Tokens(l, t) = Stock
    BY <1>1, <1>4, <1>6, <2>1 DEF Capped
  <2> QED
    BY <1>1, <1>2, <1>3, <1>4, <1>6, <2>1, <2>2, <2>3
<1> QED
  BY <1>5, <1>6

\* Nothing is seen of a step that leaves map, buckets and reservations.
LEMMA AccountStays ==
  ASSUME RateInv, Account, UNCHANGED <<table, limiters, admitted, rewound>>,
         now' \in Nat, now' = 0 => now = 0,
         \A c \in Clients : /\ pc'[c] = "cancel" <=> pc[c] = "cancel"
                            /\ pc[c] = "cancel" => act'[c] = act[c]
  PROVE  Account'
<1>1. /\ Stock' = Stock /\ Event' = Event /\ Last' = Last /\ Paid' = Paid
      /\ Credit' = Credit /\ Full' = Full
  BY DEF Stock, Event, Last, Paid, Credit, Full
<1>2. ASSUME NEW c \in Clients, NEW r, act'[c] = act[c], Reserved(c, r)
      PROVE  Reserved(c, r)'
  BY <1>1, <1>2 DEF Reserved
<1>3. ASSUME table # NoLimiter, NEW c \in Clients, pc'[c] = "cancel"
      PROVE  \E r \in 0 .. rewound' : Reserved(c, r)'
  <2>1. pc[c] = "cancel" /\ act'[c] = act[c]
    BY <1>3
  <2>2. PICK r \in 0 .. rewound : Reserved(c, r)
    BY <1>3, <2>1 DEF Account
  <2> QED
    BY <1>2, <2>1, <2>2
<1> QED
  BY <1>1, <1>3 DEF Account

\* A new limiter is full and one that exists stays as it is.
LEMMA AccountLoadOrStore ==
  ASSUME RateInv, Account, NEW c \in Clients, LoadOrStore(c)
  PROVE  Account'
<1>1. /\ UNCHANGED <<now, act, admitted, rewound>> /\ now \in Nat
      /\ \A d \in Clients : pc'[d] = "cancel" <=> pc[d] = "cancel"
  BY DEF LoadOrStore, Goto, RateInv, TypeOK, history
<1>2. CASE table # NoLimiter
  BY <1>1, <1>2, AccountStays DEF LoadOrStore
<1>3. CASE table = NoLimiter
  <2>1. /\ \A d \in Clients : pc'[d] # "cancel"
        /\ Paid' = 0 /\ table' = c /\ table' # NoLimiter
    BY <1>1, <1>3, NoLimiterAssumption DEF RateInv, OneLimiter, Account, Paid, LoadOrStore
  <2>2. limiters'[table'] = NewLimiter
    BY <1>3 DEF LoadOrStore, RateInv
  <2>3. /\ Stock' = Full /\ Last' = 0 /\ Credit' = rewound /\ Full' = Full
        /\ Full \in Nat /\ rewound \in Nat
    BY <1>1, <2>2, FullIsNat DEF Stock, Last, Credit, NewLimiter, Full, RateInv, TypeOK
  <2> QED
    BY <1>1, <2>1, <2>3 DEF Account
<1> QED
  BY <1>2, <1>3

\* An admitted request is paid for out of the bucket.
LEMMA AccountAdmit ==
  ASSUME RateInv, Account, NEW c \in Clients, Admit(c)
  PROVE  Account'
<1> DEFINE u == Tokens(limiters[mine[c]], clock[c])
<1>1. /\ UNCHANGED <<now, table>> /\ Paid' = Paid + Per /\ u >= Per
      /\ Calls(c, "allow") /\ Put(c, u - Per, clock[c]) /\ Full' = Full
  BY PaidGrows DEF Admit, Full
<1>2. /\ clock[c] \in Nat /\ u \in Int /\ u <= Full /\ table # NoLimiter
  BY <1>1, CallersClock
<1>3. /\ Stock \in Int /\ Per \in Nat /\ Per > 0 /\ Full \in Nat /\ Paid \in Nat /\ now \in Nat
      /\ rewound \in Nat /\ Credit \in Nat /\ Event \in Nat
  BY <1>2, Stored
<1>4. (now = 0 => rewound = 0) /\ u - Per \in Int /\ u - Per <= Full
  BY <1>2, <1>3 DEF Account
<1> HIDE DEF u
<1>5. /\ Stock' = u - Per /\ Event' = clock[c] /\ rewound' \in Nat /\ rewound <= rewound'
      /\ Credit' \in Nat /\ Credit' = clock[c] + rewound' /\ Credit <= Credit'
      /\ u <= Stock + (Credit' - Credit)
      /\ now = 0 => rewound' = 0 /\ clock[c] = 0 /\ u = Stock
  BY <1>1, <1>2, <1>4, CallCredits DEF u
<1>6. \A d \in Clients : /\ pc'[d] = "cancel" <=> pc[d] = "cancel"
                         /\ pc[d] = "cancel" => act'[d] = act[d]
  BY DEF Admit, Calls, Return, Goto, RateInv, TypeOK
<1>7. ASSUME NEW d \in Clients, pc[d] = "cancel"
      PROVE  /\ \E r \in 0 .. rewound' : Reserved(d, r)'
             /\ Paid' <= Full + Credit' + rewound'
  <2>1. PICK r \in 0 .. rewound : Reserved(d, r)
    BY <1>2, <1>7 DEF Account
  <2>2. act'[d] = act[d] /\ act[d] \in Nat /\ r \in Nat /\ r <= rewound /\ r \in 0 .. rewound'
    BY <1>3, <1>5, <1>6, <1>7 DEF RateInv, TypeOK
  <2>3. Stock' + Per + Paid' <= Full' + Credit' + r
    BY <1>1, <1>2, <1>3, <1>5, <2>1, <2>2 DEF Reserved
  \* The credit has come to the reservation: there are tokens again.
  <2>4. act[d] <= Credit' - r
    <3>1. act[d] <= (Credit - r) + (IF Stock < 0 THEN -Stock ELSE 0)
      BY <2>1 DEF Reserved
    <3>2. Credit <= Credit' /\ Per <= Stock + (Credit' - Credit)
      BY <1>1, <1>2, <1>3, <1>5
    <3>3. \A a, k, l, z \in Int :
            a <= (k - r) + (IF z < 0 THEN -z ELSE 0) /\ k <= l /\ Per <= z + (l - k)
              => a <= l - r
      BY <1>3, <2>2
    <3> QED
      BY <1>3, <1>5, <2>2, <3>1, <3>2, <3>3
  <2>5. act'[d] - Event' <= rewound' - r /\ Stock' >= 0
    BY <1>1, <1>2, <1>3, <1>5, <2>2, <2>4
  <2>6. ASSUME now' = 0
        PROVE  /\ Stock' + Per + Paid' = Full' /\ act'[d] = Event'
               /\ act'[d] = 0 \/ Stock' < 0
    <3>1. /\ Stock + Per + Paid = Full /\ (act[d] = 0 \/ Stock < 0)
          /\ clock[c] = 0 /\ u = Stock
      BY <1>1, <1>5, <2>1, <2>6 DEF Reserved
    <3>2. act[d] = 0
      BY <1>1, <1>3, <3>1
    <3>3. \A x, p, f \in Int : x + Per + p = f => (x - Per) + Per + (p + Per) = f
      BY <1>3
    <3>4. (u - Per) + Per + (Paid + Per) = Full
      BY <1>3, <3>1, <3>3
    <3> QED
      BY <1>1, <1>5, <2>2, <3>1, <3>2, <3>4
  <2>7. Reserved(d, r)'
    BY <1>2, <1>3, <1>5, <2>2, <2>3, <2>4, <2>5, <2>6 DEF Reserved
  <2> QED
    BY <1>1, <1>2, <1>3, <1>5, <2>2, <2>3, <2>5, <2>7
<1>8. ASSUME \A d \in Clients : pc[d] # "cancel"
      PROVE  /\ Stock' + Paid' <= Full + Credit' + rewound'
             /\ Paid' <= Full + Credit' + rewound'
             /\ now = 0 => Stock' + Paid' = Full
  <2>1. Stock + Paid <= Full + Credit + rewound /\ (now = 0 => Stock + Paid = Full)
    BY <1>2, <1>8 DEF Account
  <2> QED
    BY <1>1, <1>2, <1>3, <1>5, <2>1
<1> QED
  BY <1>1, <1>2, <1>5, <1>6, <1>7, <1>8, Zenon DEF Account

\* A reservation that is denied is outstanding until its Cancel.
LEMMA AccountReserve ==
  ASSUME RateInv, Account, DeniedOneByOne', NEW c \in Clients, Reserve(c)
  PROVE  Account'
<1> DEFINE u == Tokens(limiters[mine[c]], clock[c])
           left == u - Per
           when == clock[c] + (IF left < 0 THEN -left ELSE 0)
<1>1. /\ UNCHANGED <<now, table>> /\ Paid' = Paid /\ Calls(c, "reserve")
      /\ Put(c, left, when) /\ Full' = Full
      /\ act' = [act EXCEPT ![c] = when] /\ Goto(c, "cancel") /\ pc[c] = "reserve"
  BY DEF Reserve, Calls, Paid, Full
<1>2. /\ clock[c] \in Nat /\ u \in Int /\ u <= Full /\ table # NoLimiter
  BY <1>1, CallersClock
<1>3. /\ Stock \in Int /\ Per \in Nat /\ Per > 0 /\ Full \in Nat /\ Paid \in Nat /\ now \in Nat
      /\ rewound \in Nat /\ Credit \in Nat
  BY <1>2, Stored
<1>4. /\ left \in Int /\ left <= Full /\ when \in Nat /\ (now = 0 => rewound = 0)
      /\ when = clock[c] + (IF left < 0 THEN -left ELSE 0) /\ left = u - Per
  BY <1>2, <1>3 DEF Account
<1> HIDE DEF u, left, when
<1>5. /\ Stock' = left /\ Event' = when /\ rewound' \in Nat /\ rewound <= rewound'
      /\ Credit' \in Nat /\ Credit' = clock[c] + rewound' /\ Credit <= Credit'
      /\ u <= Stock + (Credit' - Credit)
      /\ now = 0 => rewound' = 0 /\ clock[c] = 0 /\ u = Stock
  BY <1>1, <1>2, <1>4, CallCredits DEF u
<1>6. /\ act'[c] = when /\ pc'[c] = "cancel"
      /\ \A d \in Clients : d # c => pc'[d] = pc[d]
  BY <1>1 DEF Goto, RateInv, TypeOK
<1>7. \A d \in Clients : pc[d] # "cancel"
  <2> SUFFICES ASSUME NEW d \in Clients, pc[d] = "cancel" PROVE FALSE
    OBVIOUS
  <2>1. d # c /\ pc'[d] = "cancel"
    BY <1>1, <1>6
  <2> QED
    BY <1>6, <2>1 DEF DeniedOneByOne
<1>8. Stock + Paid <= Full + Credit + rewound /\ (now = 0 => Stock + Paid = Full)
  BY <1>2, <1>7 DEF Account
<1>9. PICK v \in Nat : v = rewound'
  BY <1>5
<1>10. Reserved(c, v)'
  <2>1. Stock' + Per + Paid' <= Full' + Credit' + v
    <3>1. \A x, k, h, p, w \in Int :
            u <= x + (h - k) /\ x + p <= Full + k + w /\ w <= v
              => (u - Per) + Per + p <= Full + h + v
      <4>1. u \in Int /\ Per \in Int /\ Full \in Int /\ v \in Int
        BY <1>2, <1>3
      <4> QED
        BY <4>1
    <3>2. PICK l \in Int : l = Credit'
      BY <1>5
    <3>3. u <= Stock + (l - Credit) /\ Stock + Paid <= Full + Credit + rewound /\ rewound <= v
      BY <1>5, <1>8, <1>9, <3>2
    <3>4. /\ Stock \in Int /\ Credit \in Int /\ Paid \in Int /\ rewound \in Int
      BY <1>3
    <3>5. (u - Per) + Per + Paid <= Full + l + v
      BY <1>3, <3>1, <3>2, <3>3, <3>4, Zenon
    <3> QED
      BY <1>1, <1>4, <1>5, <3>2, <3>5
  <2>2. /\ act'[c] - Event' <= rewound' - v
        /\ act'[c] <= (Credit' - v) + (IF Stock' < 0 THEN -Stock' ELSE 0)
    BY <1>2, <1>4, <1>5, <1>6, <1>9
  <2>3. ASSUME now' = 0
        PROVE  /\ Stock' + Per + Paid' = Full' /\ act'[c] = Event'
               /\ act'[c] = 0 \/ Stock' < 0
    <3>1. Stock + Paid = Full /\ clock[c] = 0 /\ u = Stock
      BY <1>1, <1>5, <1>8, <2>3
    <3>2. Stock' + Per = Stock
      BY <1>3, <1>4, <1>5, <3>1
    <3>3. when = 0 \/ left < 0
      BY <1>4, <3>1
    <3> QED
      BY <1>1, <1>5, <1>6, <3>1, <3>2, <3>3
  <2> QED
    BY <1>1, <2>1, <2>2, <2>3 DEF Reserved
<1>11. Paid' <= Full' + Credit' + rewound'
  <2>1. Paid <= Full + Credit + rewound
    BY <1>2 DEF Account
  <2> QED
    BY <1>1, <1>3, <1>5, <2>1
<1>12. ASSUME NEW d \in Clients, pc'[d] = "cancel"
       PROVE  \E r \in 0 .. rewound' : Reserved(d, r)'
  <2>1. d = c
    BY <1>6, <1>7, <1>12
  <2>2. v \in 0 .. rewound'
    BY <1>9
  <2> QED
    BY <1>10, <2>1, <2>2
<1>13. (now' = 0 => rewound' = 0) /\ table' # NoLimiter /\ ~\A d \in Clients : pc'[d] # "cancel"
  BY <1>1, <1>2, <1>5, <1>6
<1> QED
  BY <1>11, <1>12, <1>13 DEF Account

\* What a Cancel leaves is no more than the credit has grown by and what last was
\* moved back.
LEMMA CancelSum ==
  ASSUME NEW x \in Int, NEW u \in Int, NEW s \in Int, NEW k \in Int, NEW l \in Int,
         NEW p \in Int, NEW q \in Int, NEW f \in Int, NEW w \in Int, NEW v \in Int,
         NEW r \in Int, NEW g \in Int,
         x <= u + g, g <= q + (w - r), w <= v, u <= s + (l - k), s + q + p <= f + k + r
  PROVE  x + p <= f + l + v
OBVIOUS

\* A Cancel gives back the token, and what the event has fallen below it.
LEMMA AccountCancel ==
  ASSUME RateInv, Account, DeniedOneByOne, NEW c \in Clients, Cancel(c)
  PROVE  Account'
<1> DEFINE u == Tokens(limiters[mine[c]], clock[c])
<1>1. /\ UNCHANGED <<now, table>> /\ Paid' = Paid /\ Calls(c, "cancel") /\ Full' = Full
      /\ pc[c] = "cancel" /\ Return(c)
  BY DEF Cancel, Calls, Paid, Full
<1>2. /\ clock[c] \in Nat /\ clock[c] <= now /\ u \in Int /\ u <= Full
      /\ table # NoLimiter /\ mine[c] = table
  BY <1>1, CallersClock
<1>3. /\ Stock \in Int /\ Per \in Nat /\ Per > 0 /\ Full \in Nat /\ Paid \in Nat /\ now \in Nat
      /\ rewound \in Nat /\ Credit \in Nat /\ Event \in Nat /\ act[c] \in Nat /\ Stock <= Full
  BY <1>2, Stored DEF RateInv, TypeOK
<1>4. \A d \in Clients : pc'[d] # "cancel"
  BY <1>1 DEF Return, Goto, DeniedOneByOne, RateInv, TypeOK
<1>5. PICK r \in 0 .. rewound : Reserved(c, r)
  BY <1>1, <1>2 DEF Account
<1>6. (now = 0 => rewound = 0) /\ Paid <= Full + Credit + rewound
  BY <1>2 DEF Account
<1>7. /\ Stock + Per + Paid <= Full + Credit + r /\ act[c] - Event <= rewound - r
      /\ now = 0 => Stock + Per + Paid = Full /\ act[c] = Event
  BY <1>5 DEF Reserved
<1>8. ASSUME /\ Paid' <= Full' + Credit' + rewound'
             /\ Stock' + Paid' <= Full' + Credit' + rewound'
             /\ now' = 0 => rewound' = 0 /\ Stock' + Paid' = Full'
      PROVE  Account'
  BY <1>1, <1>2, <1>4, <1>8 DEF Account
<1> HIDE DEF u
<1>9. CASE Restorable(c) <= 0
  <2>1. UNCHANGED <<limiters, rewound>>
    BY <1>9 DEF Cancel
  <2>2. Stock' = Stock /\ Credit' = Credit /\ rewound' = rewound
    BY <1>1, <2>1 DEF Stock, Credit, Last
  <2>3. Stock + Paid <= Full + Credit + rewound
    BY <1>3, <1>5, <1>7
  <2>4. ~(now = 0)
    BY <1>2, <1>3, <1>7, <1>9 DEF Restorable, Event
  <2> QED
    BY <1>1, <1>6, <1>8, <2>2, <2>3, <2>4
<1>10. CASE ~(Restorable(c) <= 0)
  <2> DEFINE e == IF act[c] = Event /\ act[c] - Per >= clock[c] THEN act[c] - Per ELSE Event
             x == Capped(u + Restorable(c))
  <2>1. Restorable(c) = Per - (Event - act[c])
    BY <1>2, <1>3, <1>10 DEF Restorable, Event
  <2>2. Put(c, x, e)
    BY <1>2, <1>10 DEF Cancel, Event, u
  <2>3. /\ x \in Int /\ x <= Full /\ x <= u + Restorable(c) /\ e \in Nat
        /\ u + Restorable(c) <= Full => x = u + Restorable(c)
    BY <1>2, <1>3, <2>1 DEF Capped
  <2> HIDE DEF e, x
  <2>4. /\ Stock' = x /\ rewound' \in Nat /\ rewound <= rewound'
        /\ Credit' \in Nat /\ Credit <= Credit' /\ u <= Stock + (Credit' - Credit)
        /\ now = 0 => rewound' = 0 /\ clock[c] = 0 /\ u = Stock
    <3>1. /\ Stock' = x /\ rewound' \in Nat /\ rewound <= rewound'
          /\ Credit' \in Nat /\ Credit <= Credit'
          /\ Tokens(limiters[mine[c]], clock[c]) <= Stock + (Credit' - Credit)
          /\ now = 0 => /\ rewound' = 0 /\ clock[c] = 0
                        /\ Tokens(limiters[mine[c]], clock[c]) = Stock
      BY <1>1, <1>6, <2>2, <2>3, CallCredits
    <3> QED
      BY <3>1 DEF u
  <2>5. PICK l \in Int, v \in Int : l = Credit' /\ v = rewound'
    BY <2>4
  <2>6. x + Paid <= Full + l + v
    <3>1. Restorable(c) \in Int /\ Restorable(c) <= Per + (rewound - r)
      BY <1>3, <1>5, <1>7, <2>1
    <3>2. l \in Int /\ v \in Int /\ u <= Stock + (l - Credit) /\ rewound <= v
      BY <2>4, <2>5
    <3> QED
      BY <1>2, <1>3, <1>5, <1>7, <2>3, <3>1, <3>2, CancelSum
  <2>7. Paid <= Full + l + v
    <3>1. l \in Int /\ v \in Int /\ Credit <= l /\ rewound <= v
      BY <2>4, <2>5
    <3> QED
      BY <1>3, <1>6, <3>1
  <2>8. ASSUME now = 0 PROVE x + Paid = Full
    <3>1. u = Stock /\ Restorable(c) = Per /\ Stock + Per + Paid = Full
      BY <1>3, <1>7, <2>1, <2>4, <2>8
    <3>2. u + Restorable(c) <= Full
      BY <1>3, <3>1
    <3> QED
      BY <1>3, <2>3, <3>1, <3>2
  <2> QED
    BY <1>1, <1>8, <2>4, <2>5, <2>6, <2>7, <2>8
<1> QED
  BY <1>9, <1>10

\* Every step keeps the account as long as denials do not overlap.
LEMMA AccountStep ==
  RateInv /\ Account /\ DeniedOneByOne /\ DeniedOneByOne' /\ [Next]_vars => Account'
<1> SUFFICES ASSUME RateInv, Account, DeniedOneByOne, DeniedOneByOne', [Next]_vars
             PROVE  Account'
  OBVIOUS
<1>0. now \in Nat
  BY DEF RateInv, TypeOK
<1>1. CASE Tick
  <2>1. now' \in Nat /\ now' # 0
    BY <1>0, <1>1 DEF Tick
  <2> QED
    BY <1>1, <2>1, AccountStays DEF Tick, history
<1>2. ASSUME NEW c \in Clients, Load(c) \/ ReadClock(c) \/ Deny(c) PROVE Account'
  <2>1. \A d \in Clients : pc'[d] = "cancel" <=> pc[d] = "cancel"
    BY <1>2 DEF Load, ReadClock, Deny, Calls, Goto, RateInv, TypeOK
  <2> QED
    BY <1>0, <1>2, <2>1, AccountStays DEF Load, ReadClock, Deny, history
<1>3. CASE UNCHANGED vars
  BY <1>0, <1>3, AccountStays DEF vars, history
<1> QED
  BY <1>1, <1>2, <1>3, AccountLoadOrStore, AccountAdmit, AccountReserve, AccountCancel, Zenon
  DEF Next

\* What sequential denials leave of the bound: a clock that is older than the last
\* call may be credited twice, once by the tokens it lets refill again and once
\* by the Cancel of a reservation it has overtaken.
OldClocksBound == admitted * Per <= Full + now + 2 * rewound

\* As long as denied requests follow one another a denied request costs nothing, as
\* ratelimit.go:75 says, and whatever clocks the calls work with, the limiter passes
\* on no more than the bucket, the time and what last was moved back pay for, twice
\* for the latter (ratelimit.go:49-78).
THEOREM SequentialDenialsCostNothing ==
  Spec /\ []DeniedOneByOne => [](OldClocksBound /\ DeniedCostsNothing)
<1>1. Init => Account
  BY RateAssumption DEF Init, Account, Paid
<1>2. RateInv /\ Account => OldClocksBound /\ DeniedCostsNothing
  <2> SUFFICES ASSUME RateInv, Account PROVE OldClocksBound /\ DeniedCostsNothing
    OBVIOUS
  <2>1. CASE table = NoLimiter
    <3>1. now \in Nat /\ Full \in Nat /\ rewound \in Nat /\ Paid = 0
      BY <2>1, FullIsNat DEF RateInv, TypeOK, Account
    <3> QED
      BY <2>1, <3>1 DEF OldClocksBound, DeniedCostsNothing, Paid
  <2>2. CASE table # NoLimiter
    <3>1. /\ now \in Nat /\ Full \in Nat /\ rewound \in Nat /\ Paid \in Nat /\ Last <= now
          /\ Credit = Last + rewound /\ Last \in Nat
      BY <2>2, Stored DEF Credit
    <3>2. Paid <= Full + Credit + rewound
      BY <2>2 DEF Account
    <3>3. Paid <= Full + now + 2 * rewound
      BY <3>1, <3>2
    <3>4. ASSUME \A c \in Clients : pc[c] = "idle", now = 0
          PROVE  limiters[table].tokens + Paid = Full
      BY <2>2, <3>4 DEF Account, Stock
    <3> QED
      BY <3>3, <3>4 DEF OldClocksBound, DeniedCostsNothing, Paid
  <2> QED
    BY <2>1, <2>2
<1> QED
  BY <1>1, <1>2, AccountStep, RateInvariance, PTL DEF Spec

-----------------------------------------------------------------------------
(* The worth of the future, and sums of it.                                  *)

\* What holds of a natural number when it holds of all smaller ones holds of
\* every natural number.
LEMMA StrongInduction ==
  ASSUME NEW S \in SUBSET Nat,
         \A n \in Nat : (\A m \in Nat : m < n => m \in S) => n \in S
  PROVE  S = Nat
<1> SUFFICES ASSUME Nat \ S # {} PROVE FALSE
  OBVIOUS
<1>1. IsWellFoundedOn(OpToRel(<, Nat), Nat)
  BY NatLessThanWellFounded
<1>2. PICK n \in Nat \ S : \A m \in Nat \ S : ~(<<m, n>> \in OpToRel(<, Nat))
  <2>1. Nat \ S \in SUBSET Nat /\ Nat \ S # {}
    OBVIOUS
  <2> QED
    BY <1>1, <2>1, WFMin
<1>3. \A m \in Nat : m < n => m \in S
  BY <1>2 DEF OpToRel
<1> QED
  BY <1>2, <1>3

\* h is the worth of the positions up to n, relative to an instant: one for each
\* tick that is past, and twice as much for every token further on.
WorthUpTo(h, n) ==
  /\ h \in [Int -> Int]
  /\ \A x \in Int : x <= 0 => h[x] = x
  /\ \A x \in Int : 0 < x /\ x <= n => h[x] = 2 * h[x - Per] + 2 * Per

Worth == [x \in Int |-> IF x <= 0 THEN x ELSE (CHOOSE h : WorthUpTo(h, x))[x]]

\* Two such functions agree where both are meant.
LEMMA WorthAgrees ==
  ASSUME NEW n \in Int, NEW m \in Int, NEW h, NEW k, WorthUpTo(h, n), WorthUpTo(k, m)
  PROVE  \A x \in Nat : x <= n /\ x <= m => h[x] = k[x]
<1> DEFINE S == {x \in Nat : x <= n /\ x <= m => h[x] = k[x]}
<1>1. ASSUME NEW x \in Nat, \A y \in Nat : y < x => y \in S PROVE x \in S
  <2> SUFFICES ASSUME x <= n, x <= m PROVE h[x] = k[x]
    OBVIOUS
  <2>1. CASE x = 0
    BY <2>1 DEF WorthUpTo
  <2>2. CASE x > 0
    <3>1. Per \in Nat /\ Per > 0 /\ x - Per \in Int /\ x - Per < x
      BY RateAssumption
    <3>2. h[x - Per] = k[x - Per]
      <4>1. CASE x - Per <= 0
        BY <3>1, <4>1 DEF WorthUpTo
      <4>2. CASE x - Per > 0
        BY <1>1, <3>1, <4>2
      <4> QED
        BY <3>1, <4>1, <4>2
    <3> QED
      BY <2>2, <3>1, <3>2 DEF WorthUpTo
  <2> QED
    BY <2>1, <2>2
<1> HIDE DEF S
<1>2. S = Nat
  <2>1. S \in SUBSET Nat
    BY DEF S
  <2> QED
    BY <1>1, <2>1, StrongInduction
<1> QED
  BY <1>2 DEF S

\* There is one for every bound.
LEMMA WorthExists == \A n \in Nat : \E h : WorthUpTo(h, n)
<1> DEFINE S == {n \in Nat : \E h : WorthUpTo(h, n)}
<1>1. ASSUME NEW n \in Nat, \A m \in Nat : m < n => m \in S PROVE n \in S
  <2>1. CASE n = 0
    <3>1. WorthUpTo([x \in Int |-> x], 0)
      BY DEF WorthUpTo
    <3> QED
      BY <2>1, <3>1
  <2>2. CASE n > 0
    <3>1. n - 1 \in S /\ Per \in Nat /\ Per > 0
      BY <1>1, <2>2, RateAssumption
    <3>2. PICK h : WorthUpTo(h, n - 1)
      BY <3>1
    <3> DEFINE v == 2 * h[n - Per] + 2 * Per
               k == [h EXCEPT ![n] = v]
    <3>3. h \in [Int -> Int] /\ v \in Int /\ k \in [Int -> Int] /\ k[n] = v
          /\ \A x \in Int : x # n => k[x] = h[x]
      BY <3>1, <3>2 DEF WorthUpTo
    <3> HIDE DEF k
    <3>4. \A x \in Int : x <= 0 => k[x] = x
      BY <2>2, <3>2, <3>3 DEF WorthUpTo
    <3>5. ASSUME NEW x \in Int, 0 < x, x <= n PROVE k[x] = 2 * k[x - Per] + 2 * Per
      <4>1. k[x - Per] = h[x - Per]
        BY <3>1, <3>3, <3>5
      <4>2. CASE x = n
        BY <3>3, <4>1, <4>2
      <4>3. CASE x # n
        BY <3>2, <3>3, <3>5, <4>1, <4>3 DEF WorthUpTo
      <4> QED
        BY <4>2, <4>3
    <3>6. WorthUpTo(k, n)
      BY <3>3, <3>4, <3>5 DEF WorthUpTo
    <3> QED
      BY <3>6
  <2> QED
    BY <2>1, <2>2
<1> HIDE DEF S
<1>2. S = Nat
  <2>1. S \in SUBSET Nat
    BY DEF S
  <2> QED
    BY <1>1, <2>1, StrongInduction
<1> QED
  BY <1>2 DEF S

\* What Worth is: the position itself up to zero, and doubling beyond.
LEMMA WorthDoubles ==
  /\ \A x \in Int : Worth[x] \in Int /\ (x <= 0 => Worth[x] = x)
  /\ \A x \in Int : x >= 0 => Worth[x] = 2 * Worth[x - Per] + 2 * Per
<1>1. Per \in Nat /\ Per > 0
  BY RateAssumption
<1>2. \A x \in Int : x <= 0 => Worth[x] = x
  BY DEF Worth
<1>3. ASSUME NEW x \in Int, x > 0
      PROVE  Worth[x] \in Int /\ Worth[x] = 2 * Worth[x - Per] + 2 * Per
  <2> DEFINE h == CHOOSE h : WorthUpTo(h, x)
             k == CHOOSE k : WorthUpTo(k, x - Per)
  <2>1. WorthUpTo(h, x) /\ Worth[x] = h[x]
    <3>1. x \in Nat
      BY <1>3
    <3>2. \E g : WorthUpTo(g, x)
      BY <3>1, WorthExists
    <3> QED
      BY <1>3, <3>2 DEF Worth
  <2>2. h[x - Per] = Worth[x - Per]
    <3>1. CASE x - Per <= 0
      <4>1. x - Per \in Int
        BY <1>1
      <4> HIDE DEF h
      <4> QED
        BY <1>2, <2>1, <3>1, <4>1 DEF WorthUpTo
    <3>2. CASE x - Per > 0
      <4>1. x - Per \in Nat
        BY <1>1, <3>2
      <4>2. WorthUpTo(k, x - Per) /\ Worth[x - Per] = k[x - Per]
        <5>1. \E g : WorthUpTo(g, x - Per)
          BY <4>1, WorthExists
        <5> QED
          BY <3>2, <4>1, <5>1 DEF Worth
      <4> HIDE DEF h, k
      <4>3. x - Per <= x /\ x - Per <= x - Per
        BY <1>1, <4>1
      <4> QED
        BY <2>1, <4>1, <4>2, <4>3, WorthAgrees
    <3> QED
      BY <1>1, <3>1, <3>2
  <2> HIDE DEF h
  <2>3. h[x] \in Int /\ h[x] = 2 * h[x - Per] + 2 * Per
    BY <1>3, <2>1 DEF WorthUpTo
  <2> QED
    BY <2>1, <2>2, <2>3
<1>4. Worth[0] = 2 * Worth[0 - Per] + 2 * Per
  BY <1>1, <1>2
<1> QED
  BY <1>2, <1>3, <1>4

\* The worth of a stretch is at least its length, and twice that beyond zero.
LEMMA WorthSlope ==
  ASSUME NEW x \in Int, NEW y \in Int, x <= y
  PROVE  /\ Worth[y] - Worth[x] >= y - x
         /\ 0 <= x => Worth[y] - Worth[x] >= 2 * (y - x)
<1> DEFINE S == {n \in Nat : \A u \in Int : u <= n => Worth[n] - Worth[u] >= n - u}
<1>1. Per \in Nat /\ Per > 0
  BY RateAssumption
<1>2. ASSUME NEW v \in Int, v <= 0, NEW u \in Int, u <= v
      PROVE  Worth[v] - Worth[u] >= v - u
  BY <1>2, WorthDoubles
<1>3. ASSUME NEW n \in Nat, \A m \in Nat : m < n => m \in S PROVE n \in S
  <2> SUFFICES ASSUME NEW u \in Int, u <= n PROVE Worth[n] - Worth[u] >= n - u
    OBVIOUS
  <2>1. CASE n = 0
    BY <1>2, <2>1
  <2>2. ASSUME n > 0, NEW w \in Int, 0 <= w, w <= n
        PROVE  Worth[n] - Worth[w] >= n - w
    <3>1. n - Per \in Int /\ n - Per < n /\ w - Per \in Int /\ w - Per <= n - Per
      BY <1>1, <2>2
    <3>2. Worth[n - Per] - Worth[w - Per] >= n - w
      <4>1. CASE n - Per <= 0
        <5>1. Worth[n - Per] - Worth[w - Per] >= (n - Per) - (w - Per)
          BY <1>2, <3>1, <4>1
        <5> QED
          BY <1>1, <3>1, <5>1
      <4>2. CASE n - Per > 0
        <5>1. n - Per \in S
          BY <1>3, <3>1, <4>2
        <5>2. Worth[n - Per] - Worth[w - Per] >= (n - Per) - (w - Per)
          BY <3>1, <5>1
        <5> QED
          BY <1>1, <3>1, <5>2
      <4> QED
        BY <3>1, <4>1, <4>2
    <3>3. Worth[n] = 2 * Worth[n - Per] + 2 * Per /\ Worth[w] = 2 * Worth[w - Per] + 2 * Per
          /\ Worth[n - Per] \in Int /\ Worth[w - Per] \in Int
      BY <2>2, <3>1, WorthDoubles
    <3> QED
      BY <1>1, <2>2, <3>2, <3>3
  <2>3. CASE n > 0 /\ u >= 0
    BY <2>2, <2>3
  <2>4. CASE n > 0 /\ u < 0
    <3>1. Worth[n] - Worth[0] >= n
      BY <2>2, <2>4
    <3>2. Worth[0] = 0 /\ Worth[u] = u /\ Worth[n] \in Int
      BY <2>4, WorthDoubles
    <3> QED
      BY <3>1, <3>2
  <2> QED
    BY <2>1, <2>3, <2>4
<1> HIDE DEF S
<1>4. S = Nat
  <2>1. S \in SUBSET Nat
    BY DEF S
  <2> QED
    BY <1>3, <2>1, StrongInduction
<1>5. \A v, u \in Int : u <= v => Worth[v] - Worth[u] >= v - u
  <2> SUFFICES ASSUME NEW v \in Int, NEW u \in Int, u <= v
               PROVE  Worth[v] - Worth[u] >= v - u
    OBVIOUS
  <2>1. CASE v <= 0
    BY <1>2, <2>1
  <2>2. CASE v > 0
    BY <1>4, <2>2 DEF S
  <2> QED
    BY <2>1, <2>2
<1>6. ASSUME 0 <= x PROVE Worth[y] - Worth[x] >= 2 * (y - x)
  <2>1. x - Per \in Int /\ y - Per \in Int /\ x - Per <= y - Per /\ 0 <= y
    BY <1>1, <1>6
  <2>2. Worth[y - Per] - Worth[x - Per] >= y - x
    <3>1. Worth[y - Per] - Worth[x - Per] >= (y - Per) - (x - Per)
      BY <1>5, <2>1
    <3> QED
      BY <1>1, <3>1
  <2>3. Worth[y] = 2 * Worth[y - Per] + 2 * Per /\ Worth[x] = 2 * Worth[x - Per] + 2 * Per
        /\ Worth[y - Per] \in Int /\ Worth[x - Per] \in Int
    BY <1>6, <2>1, WorthDoubles
  <2> QED
    BY <1>1, <2>2, <2>3
<1> QED
  BY <1>5, <1>6

\* Further up a stretch of the same length is worth no less.
LEMMA WorthConvex ==
  \A x, y \in Int : \A r \in Nat :
    x <= y => Worth[x + r] - Worth[x] <= Worth[y + r] - Worth[y]
<1> DEFINE C(x, y, r) == Worth[x + r] - Worth[x] <= Worth[y + r] - Worth[y]
           S == {n \in Nat : \A x, y \in Int : \A r \in Nat : x <= y /\ y + r = n => C(x, y, r)}
<1>1. Per \in Nat /\ Per > 0
  BY RateAssumption
<1>2. ASSUME NEW x \in Int, NEW y \in Int, NEW r \in Nat, x <= y, y + r <= 0 PROVE C(x, y, r)
  <2>1. Worth[x] = x /\ Worth[y] = y /\ Worth[x + r] = x + r /\ Worth[y + r] = y + r
    BY <1>2, WorthDoubles
  <2> QED
    BY <1>2, <2>1
<1>3. ASSUME NEW n \in Nat, \A m \in Nat : m < n => m \in S PROVE n \in S
  <2> SUFFICES ASSUME NEW x \in Int, NEW y \in Int, NEW r \in Nat, x <= y, y + r = n
               PROVE  C(x, y, r)
    OBVIOUS
  <2>1. x + r \in Int /\ y + r \in Int /\ x + r <= y + r /\ y + r >= 0
    OBVIOUS
  <2>2. Worth[x] \in Int /\ Worth[y] \in Int /\ Worth[x + r] \in Int /\ Worth[y + r] \in Int
    BY <2>1, WorthDoubles
  \* Both stretches lie beyond zero: each is twice the one a token back.
  <2>3. ASSUME NEW u \in Int, 0 <= u, u <= y, NEW s \in Nat, u + s <= x + r, s <= r
        PROVE  Worth[u + s] - Worth[u] <= Worth[(y + r - s) + s] - Worth[y + r - s]
    <3> DEFINE v == y + r - s
    <3>1. u - Per \in Int /\ v \in Int /\ v - Per \in Int /\ u - Per <= v - Per /\ u <= v
          /\ 0 <= v /\ 0 <= u + s /\ 0 <= v + s /\ v + s = n
          /\ (v - Per) + s < n /\ (u + s) - Per = (u - Per) + s /\ (v + s) - Per = (v - Per) + s
      BY <1>1, <2>1, <2>3
    <3> HIDE DEF v
    <3>2. C(u - Per, v - Per, s)
      <4>1. CASE (v - Per) + s <= 0
        BY <1>2, <3>1, <4>1
      <4>2. CASE (v - Per) + s > 0
        <5>1. (v - Per) + s \in S
          BY <1>3, <3>1, <4>2
        <5> QED
          BY <3>1, <5>1
      <4> QED
        BY <3>1, <4>1, <4>2
    <3>3. /\ Worth[u] = 2 * Worth[u - Per] + 2 * Per
          /\ Worth[v] = 2 * Worth[v - Per] + 2 * Per
          /\ Worth[u + s] = 2 * Worth[(u - Per) + s] + 2 * Per
          /\ Worth[v + s] = 2 * Worth[(v - Per) + s] + 2 * Per
          /\ Worth[u - Per] \in Int /\ Worth[v - Per] \in Int
          /\ Worth[(u - Per) + s] \in Int /\ Worth[(v - Per) + s] \in Int
      <4>1. u + s \in Int /\ v + s \in Int /\ (u - Per) + s \in Int /\ (v - Per) + s \in Int
        BY <3>1
      <4> QED
        BY <2>3, <3>1, <4>1, WorthDoubles
    <3> QED
      BY <1>1, <3>2, <3>3 DEF v
  <2>4. CASE x >= 0
    <3>1. Worth[x + r] - Worth[x] <= Worth[(y + r - r) + r] - Worth[y + r - r]
      BY <2>3, <2>4
    <3>2. y + r - r = y
      OBVIOUS
    <3> QED
      BY <3>1, <3>2
  <2>5. CASE x < 0 /\ x + r <= 0
    <3>1. Worth[x + r] - Worth[x] = r
      BY <2>1, <2>5, WorthDoubles
    <3>2. Worth[y + r] - Worth[y] >= (y + r) - y
      BY <2>1, WorthSlope
    <3> QED
      BY <2>2, <3>1, <3>2
  <2>6. CASE x < 0 /\ x + r > 0 /\ y < 0
    <3>1. Worth[x] = x /\ Worth[y] = y
      BY <2>6, WorthDoubles
    <3>2. Worth[y + r] - Worth[x + r] >= (y + r) - (x + r)
      BY <2>1, WorthSlope
    <3> QED
      BY <2>2, <3>1, <3>2
  <2>7. CASE x < 0 /\ x + r > 0 /\ y >= 0
    <3> DEFINE s == x + r
    <3>1. s \in Nat /\ s <= r /\ 0 + s <= x + r /\ y + r - s \in Int /\ y <= y + r - s
          /\ y + r - s = y - x /\ (y + r - s) + s = y + r
      BY <2>7
    <3>2. Worth[0 + s] - Worth[0] <= Worth[(y + r - s) + s] - Worth[y + r - s]
      <4> HIDE DEF s
      <4> QED
        BY <2>3, <2>7, <3>1
    <3>3. Worth[y - x] - Worth[y] >= (y - x) - y
      BY <2>7, WorthSlope
    <3>4. Worth[0] = 0 /\ Worth[x] = x /\ Worth[y - x] \in Int /\ 0 + s = x + r
      BY <2>7, WorthDoubles
    <3>5. Worth[x + r] <= Worth[y + r] - Worth[y - x]
      BY <3>1, <3>2, <3>4, <2>2
    <3> QED
      BY <2>2, <3>3, <3>4, <3>5
  <2> QED
    BY <2>4, <2>5, <2>6, <2>7
<1> HIDE DEF S
<1>4. S = Nat
  <2>1. S \in SUBSET Nat
    BY DEF S
  <2> QED
    BY <1>3, <2>1, StrongInduction
<1> SUFFICES ASSUME NEW x \in Int, NEW y \in Int, NEW r \in Nat, x <= y PROVE C(x, y, r)
  OBVIOUS
<1>5. CASE y + r <= 0
  BY <1>2, <1>5
<1>6. CASE y + r > 0
  <2>1. y + r \in S
    BY <1>4, <1>6
  <2> QED
    BY <2>1 DEF S
<1> QED
  BY <1>5, <1>6

\* A cancelled reservation for x gives back no more than Claim(x) is worth, if
\* the last event is not before the instant everything is measured from: the
\* token it gives back counts from that event.
Claim(x) == Worth[x] - Worth[x - Per]

LEMMA CancelIsPaid ==
  ASSUME NEW a \in Int, NEW e \in Int, NEW z \in Int, NEW r \in Int,
         z <= e, 0 <= e, r = Per - (e - a), r > 0
  PROVE  Worth[z] - Worth[z - r] <= Claim(a)
<1>1. /\ Per \in Nat /\ Per > 0 /\ r \in Nat /\ z - r \in Int /\ e - r \in Int
      /\ z - r <= e - r /\ (z - r) + r = z /\ (e - r) + r = e /\ a - Per \in Int
      /\ e - r = (2 * e - a) - Per /\ 2 * e - a \in Int
  BY RateAssumption
<1>2. Worth[z] - Worth[z - r] <= Worth[e] - Worth[e - r]
  BY <1>1, WorthConvex
<1>3. \A x \in Int : Worth[x] \in Int
  BY WorthDoubles
<1>4. 2 * Worth[e] <= Worth[a] + Worth[2 * e - a]
  <2>1. CASE a <= e
    <3>1. e - a \in Nat /\ a + (e - a) = e /\ e + (e - a) = 2 * e - a
      BY <2>1
    <3>2. Worth[a + (e - a)] - Worth[a] <= Worth[e + (e - a)] - Worth[e]
      BY <2>1, <3>1, WorthConvex
    <3> QED
      BY <1>1, <1>3, <3>1, <3>2
  <2>2. CASE e < a
    <3>1. a - e \in Nat /\ (2 * e - a) + (a - e) = e /\ e + (a - e) = a /\ 2 * e - a <= e
      BY <2>2
    <3>2. Worth[(2 * e - a) + (a - e)] - Worth[2 * e - a] <= Worth[e + (a - e)] - Worth[e]
      BY <1>1, <3>1, WorthConvex
    <3> QED
      BY <1>1, <1>3, <3>1, <3>2
  <2> QED
    BY <2>1, <2>2
<1>5. CASE a >= 0 /\ 2 * e - a >= 0
  <2>1. /\ Worth[a] = 2 * Worth[a - Per] + 2 * Per
        /\ Worth[2 * e - a] = 2 * Worth[e - r] + 2 * Per
    BY <1>1, <1>5, WorthDoubles
  <2>2. /\ Worth[a] \in Int /\ Worth[a - Per] \in Int /\ Worth[e] \in Int
        /\ Worth[2 * e - a] \in Int /\ Worth[e - r] \in Int
        /\ Worth[z] \in Int /\ Worth[z - r] \in Int
    BY <1>1, <1>3
  <2> QED
    BY <1>1, <1>2, <1>4, <2>1, <2>2 DEF Claim
<1>6. CASE a >= 0 /\ 2 * e - a < 0
  <2>1. /\ Worth[a] = 2 * Worth[a - Per] + 2 * Per
        /\ Worth[e - r] = e - r
    BY <1>1, <1>6, WorthDoubles
  <2>2. Worth[a] >= 2 * Worth[e] + 2 * (a - 2 * e)
    <3>1. 2 * e \in Int /\ 0 <= 2 * e /\ 2 * e <= a
      BY <1>6
    <3>2. Worth[a] - Worth[2 * e] >= 2 * (a - 2 * e)
      BY <3>1, WorthSlope
    <3>3. 2 * Worth[e] <= Worth[2 * e]
      <4>1. e \in Nat /\ 0 + e = e /\ e + e = 2 * e /\ Worth[0] = 0
        BY WorthDoubles
      <4>2. Worth[0 + e] - Worth[0] <= Worth[e + e] - Worth[e]
        BY <4>1, WorthConvex
      <4> QED
        BY <1>3, <3>1, <4>1, <4>2
    <3> QED
      BY <1>3, <3>1, <3>2, <3>3
  <2>3. /\ Worth[a] \in Int /\ Worth[a - Per] \in Int /\ Worth[e] \in Int
        /\ Worth[e - r] \in Int /\ Worth[z] \in Int /\ Worth[z - r] \in Int
    BY <1>1, <1>3
  <2>4. Worth[z] - Worth[z - r] <= Worth[e] - e + r
    BY <1>1, <1>2, <2>1, <2>3
  <2> QED
    BY <1>1, <2>1, <2>2, <2>3, <2>4 DEF Claim
<1>7. CASE a < 0
  <2>1. Claim(a) = Per
    <3>1. Worth[a] = a /\ Worth[a - Per] = a - Per
      BY <1>1, <1>7, WorthDoubles
    <3> QED
      BY <1>1, <3>1 DEF Claim
  <2>2. Worth[e] = 2 * e
    <3>1. e - Per \in Int /\ e - Per <= 0
      BY <1>1, <1>7
    <3> QED
      BY <1>1, <3>1, WorthDoubles
  <2>3. CASE e - r <= 0
    BY <1>1, <1>2, <1>3, <1>7, <2>1, <2>2, <2>3, WorthDoubles
  <2>4. CASE e - r > 0
    <3>1. (e - r) - Per \in Int /\ (e - r) - Per <= 0 /\ 0 <= e - r
      BY <1>1, <1>7, <2>4
    <3>2. Worth[e - r] = 2 * (e - r)
      BY <1>1, <3>1, WorthDoubles
    <3> QED
      BY <1>1, <1>2, <1>3, <1>7, <2>1, <2>2, <2>4, <3>2
  <2> QED
    BY <1>1, <2>3, <2>4
<1> QED
  BY <1>1, <1>5, <1>6, <1>7

\* A reservation is worth something, and less the later one measures from.
LEMMA ClaimFades ==
  ASSUME NEW x \in Int, NEW y \in Int, x <= y
  PROVE  Claim(x) \in Int /\ 0 <= Claim(x) /\ Claim(x) <= Claim(y)
<1>1. /\ Per \in Nat /\ x - Per \in Int /\ y - Per \in Int /\ x - Per <= y - Per
      /\ (x - Per) + Per = x /\ (y - Per) + Per = y /\ x - Per <= x
  BY RateAssumption
<1>2. Worth[(x - Per) + Per] - Worth[x - Per] <= Worth[(y - Per) + Per] - Worth[y - Per]
  BY <1>1, WorthConvex
<1>3. Worth[x] - Worth[x - Per] >= x - (x - Per)
  BY <1>1, WorthSlope
<1>4. Worth[x] \in Int /\ Worth[x - Per] \in Int
  BY <1>1, WorthDoubles
<1> QED
  BY <1>1, <1>2, <1>3, <1>4 DEF Claim

\* p adds up what the reservations for a[1] .. a[n] are worth from t.
Adds(p, n, a, t) ==
  /\ p \in [0 .. n -> Int] /\ p[0] = 0
  /\ \A i \in 1 .. n : p[i] = p[i - 1] + Claim(a[i] - t)

\* All of them are worth no more than v.
Owes(n, a, t, v) == \E p : Adds(p, n, a, t) /\ p[n] <= v

\* The sum for a later instant is not greater, and no sum is negative.
LEMMA AddsFade ==
  ASSUME NEW n \in Nat, NEW a \in [1 .. n -> Int], NEW t \in Int, NEW u \in Int, t <= u,
         NEW p, NEW o, Adds(p, n, a, t), Adds(o, n, a, u)
  PROVE  0 <= o[n] /\ o[n] <= p[n]
<1> DEFINE S == {i \in Nat : i <= n => 0 <= o[i] /\ o[i] <= p[i]}
<1>1. ASSUME NEW i \in Nat, \A j \in Nat : j < i => j \in S PROVE i \in S
  <2> SUFFICES ASSUME i <= n PROVE 0 <= o[i] /\ o[i] <= p[i]
    OBVIOUS
  <2>1. CASE i = 0
    BY <2>1 DEF Adds
  <2>2. CASE i > 0
    <3>1. i \in 1 .. n /\ i - 1 \in 0 .. n /\ a[i] \in Int /\ i - 1 \in S
      BY <1>1, <2>2
    <3>2. a[i] - u \in Int /\ a[i] - t \in Int /\ a[i] - u <= a[i] - t
      BY <3>1
    <3>3. /\ Claim(a[i] - u) \in Int /\ 0 <= Claim(a[i] - u)
          /\ Claim(a[i] - u) <= Claim(a[i] - t)
      BY <3>2, ClaimFades
    <3>4. Claim(a[i] - t) \in Int
      <4>1. a[i] - t <= a[i] - t
        BY <3>2
      <4> QED
        BY <3>2, <4>1, ClaimFades
    <3>5. /\ o[i] = o[i - 1] + Claim(a[i] - u) /\ p[i] = p[i - 1] + Claim(a[i] - t)
          /\ o[i - 1] \in Int /\ p[i - 1] \in Int
      BY <3>1 DEF Adds
    <3>6. 0 <= o[i - 1] /\ o[i - 1] <= p[i - 1]
      BY <3>1
    <3>7. \A f, g, h, k \in Int :
            0 <= f /\ f <= g /\ 0 <= h /\ h <= k => 0 <= f + h /\ f + h <= g + k
      OBVIOUS
    <3> QED
      BY <3>3, <3>4, <3>5, <3>6, <3>7, Zenon
  <2> QED
    BY <2>1, <2>2
<1> HIDE DEF S
<1>2. S = Nat
  <2>1. S \in SUBSET Nat
    BY DEF S
  <2> QED
    BY <1>1, <2>1, StrongInduction
<1> QED
  BY <1>2 DEF S

\* What is owed at one instant is owed at a later one, if that has a sum at all.
LEMMA OwesFade ==
  ASSUME NEW n \in Nat, NEW a \in [1 .. n -> Int], NEW t \in Int, NEW u \in Int, t <= u,
         NEW v \in Int, NEW w \in Int, Owes(n, a, t, v), Owes(n, a, u, w)
  PROVE  Owes(n, a, u, v) /\ 0 <= v /\ 0 <= w
<1>1. PICK p : Adds(p, n, a, t) /\ p[n] <= v
  BY DEF Owes
<1>2. PICK o : Adds(o, n, a, u) /\ o[n] <= w
  BY DEF Owes
<1>3. 0 <= o[n] /\ o[n] <= p[n]
  BY <1>1, <1>2, AddsFade
<1>4. p[n] \in Int /\ o[n] \in Int
  BY <1>1, <1>2 DEF Adds
<1> QED
  BY <1>1, <1>2, <1>3, <1>4 DEF Owes

\* Owing no more than v is owing no more than anything above it.
LEMMA OwesMore ==
  ASSUME NEW n \in Nat, NEW a, NEW t \in Int, NEW v \in Int, NEW w \in Int, v <= w,
         Owes(n, a, t, v)
  PROVE  Owes(n, a, t, w)
<1>1. PICK p : Adds(p, n, a, t) /\ p[n] <= v
  BY DEF Owes
<1>2. p[n] \in Int
  BY <1>1 DEF Adds
<1> QED
  BY <1>1, <1>2 DEF Owes

\* Without reservations nothing is owed.
LEMMA OwesNone ==
  ASSUME NEW a, NEW t \in Int, NEW v \in Int, 0 <= v
  PROVE  Owes(0, a, t, v)
<1>1. Adds([i \in 0 .. 0 |-> 0], 0, a, t)
  BY DEF Adds
<1> QED
  BY <1>1 DEF Owes

\* One reservation more is owed in addition.
LEMMA OwesOneMore ==
  ASSUME NEW n \in Nat, NEW a \in [1 .. n -> Int], NEW b \in [1 .. n + 1 -> Int],
         \A i \in 1 .. n : b[i] = a[i],
         NEW t \in Int, NEW v \in Int, Owes(n, a, t, v)
  PROVE  Owes(n + 1, b, t, v + Claim(b[n + 1] - t))
<1>1. PICK p : Adds(p, n, a, t) /\ p[n] <= v
  BY DEF Owes
<1> DEFINE d == Claim(b[n + 1] - t)
           o == [i \in 0 .. n + 1 |-> IF i = n + 1 THEN p[n] + d ELSE p[i]]
<1>2. d \in Int
  <2>1. b[n + 1] - t \in Int
    OBVIOUS
  <2> QED
    BY <2>1, ClaimFades
<1> HIDE DEF d
<1>3. o \in [0 .. n + 1 -> Int] /\ o[n + 1] = p[n] + d /\ \A i \in 0 .. n : o[i] = p[i]
  BY <1>1, <1>2 DEF Adds
<1> HIDE DEF o
<1>4. ASSUME NEW i \in 1 .. n + 1 PROVE o[i] = o[i - 1] + Claim(b[i] - t)
  <2>1. CASE i = n + 1
    BY <1>3, <2>1 DEF d
  <2>2. CASE i # n + 1
    <3>1. i \in 1 .. n /\ i - 1 \in 0 .. n /\ i \in 0 .. n
      BY <2>2
    <3> QED
      BY <1>1, <1>3, <3>1 DEF Adds
  <2> QED
    BY <2>1, <2>2
<1>5. o[0] = 0
  BY <1>1, <1>3 DEF Adds
<1>6. Adds(o, n + 1, b, t)
  BY <1>3, <1>4, <1>5 DEF Adds
<1>7. o[n + 1] <= v + d
  <2>1. p[n] \in Int
    BY <1>1 DEF Adds
  <2>2. \A f, g, h \in Int : f <= g => f + h <= g + h
    OBVIOUS
  <2> QED
    BY <1>1, <1>2, <1>3, <2>1, <2>2, Zenon
<1> QED
  BY <1>6, <1>7 DEF Owes, d

\* One reservation less is owed no more.
LEMMA OwesOneLess ==
  ASSUME NEW n \in Nat, NEW a \in [1 .. n -> Int], NEW j \in 1 .. n,
         NEW b \in [1 .. n - 1 -> Int],
         \A i \in 1 .. n - 1 : b[i] = a[IF i < j THEN i ELSE i + 1],
         NEW t \in Int, NEW v \in Int, Owes(n, a, t, v)
  PROVE  Owes(n - 1, b, t, v - Claim(a[j] - t))
<1>1. PICK p : Adds(p, n, a, t) /\ p[n] <= v
  BY DEF Owes
<1> DEFINE d == Claim(a[j] - t)
           o == [i \in 0 .. n - 1 |-> IF i < j THEN p[i] ELSE p[i + 1] - d]
<1>2. d \in Int /\ p[j] = p[j - 1] + d /\ p \in [0 .. n -> Int]
  <2>1. a[j] - t \in Int
    OBVIOUS
  <2> QED
    BY <1>1, <2>1, ClaimFades DEF Adds
<1> HIDE DEF d
<1>3. o \in [0 .. n - 1 -> Int]
      /\ \A i \in 0 .. n - 1 : o[i] = IF i < j THEN p[i] ELSE p[i + 1] - d
  <2>1. \A i \in 0 .. n - 1 : i \in 0 .. n /\ i + 1 \in 0 .. n
    OBVIOUS
  <2>2. \A i \in 0 .. n - 1 : p[i] \in Int /\ p[i + 1] - d \in Int
    BY <1>2, <2>1
  <2> QED
    BY <2>2
<1> HIDE DEF o
<1>4. ASSUME NEW i \in 1 .. n - 1 PROVE o[i] = o[i - 1] + Claim(b[i] - t)
  <2>1. i \in 0 .. n - 1 /\ i - 1 \in 0 .. n - 1
    OBVIOUS
  <2>2. CASE i < j
    <3>1. i - 1 < j /\ b[i] = a[i] /\ i \in 1 .. n
      BY <2>2
    <3>2. o[i] = p[i] /\ o[i - 1] = p[i - 1]
      BY <1>3, <2>1, <2>2, <3>1
    <3> QED
      BY <1>1, <3>1, <3>2 DEF Adds
  <2>3. CASE i >= j
    <3>1. b[i] = a[i + 1] /\ i + 1 \in 1 .. n /\ o[i] = p[i + 1] - d
      BY <1>3, <2>1, <2>3
    <3>2. p[i + 1] = p[i] + Claim(b[i] - t)
      <4>1. (i + 1) - 1 = i
        OBVIOUS
      <4> QED
        BY <1>1, <3>1, <4>1 DEF Adds
    <3>3. o[i - 1] = p[i] - d
      <4>1. CASE i - 1 < j
        <5>1. i = j
          BY <2>3, <4>1
        <5>2. o[i - 1] = p[j - 1]
          BY <1>3, <2>1, <4>1, <5>1
        <5>3. p[j - 1] \in Int
          BY <1>2
        <5> QED
          BY <1>2, <5>1, <5>2, <5>3
      <4>2. CASE i - 1 >= j
        <5>1. (i - 1) + 1 = i
          OBVIOUS
        <5> QED
          BY <1>3, <2>1, <4>2, <5>1
      <4> QED
        BY <4>1, <4>2
    <3>4. p[i] \in Int
      BY <1>2
    <3>5. b[i] - t \in Int /\ b[i] - t <= b[i] - t
      OBVIOUS
    <3>6. Claim(b[i] - t) \in Int
      BY <3>5, ClaimFades
    <3>7. \A x, y, w \in Int : (x + y) - w = (x - w) + y
      OBVIOUS
    <3>8. (p[i] + Claim(b[i] - t)) - d = (p[i] - d) + Claim(b[i] - t)
      BY <1>2, <3>4, <3>6, <3>7
    <3> QED
      BY <3>1, <3>2, <3>3, <3>8
  <2> QED
    BY <2>2, <2>3
<1>5. o[0] = 0
  BY <1>1, <1>3 DEF Adds
<1>6. Adds(o, n - 1, b, t)
  BY <1>3, <1>4, <1>5 DEF Adds
<1>7. o[n - 1] <= v - d
  <2>1. n - 1 \in 0 .. n - 1 /\ (n - 1) + 1 = n /\ p[n] \in Int
    BY <1>2
  <2>2. CASE n - 1 < j
    <3>1. j = n /\ o[n - 1] = p[n - 1] /\ p[n - 1] \in Int
      BY <1>2, <1>3, <2>1, <2>2
    <3> QED
      BY <1>1, <1>2, <2>1, <3>1
  <2>3. CASE n - 1 >= j
    <3>1. o[n - 1] = p[n] - d
      BY <1>3, <2>1, <2>3
    <3> QED
      BY <1>1, <1>2, <2>1, <3>1
  <2> QED
    BY <2>2, <2>3
<1> QED
  BY <1>6, <1>7 DEF Owes, d

-----------------------------------------------------------------------------
(* The ledger of a bucket, as it is at an instant w: when the last call has *)
(* changed it, or at the clock of the next call.                            *)

\* The tokens there are at w; the instant at which the bucket is, or was, empty; and
\* the instant at which it would be empty had only the admitted requests taken a
\* token.
Have(w) == Tokens(limiters[table], w)
Zero(w) == w - Have(w)
Base == Paid - Full

\* What has been taken out of a bucket that is empty at z, and would be at b had
\* only admitted requests taken a token, measured from t.
Spent(z, b, t) == Worth[z - t] - Worth[b - t]

\* q lists the requests between their Reserve and their Cancel; what they act at.
Lists(n, q, p) ==
  /\ q \in [1 .. n -> Clients]
  /\ \A i, j \in 1 .. n : q[i] = q[j] => i = j
  /\ \A c \in Clients : p[c] = "cancel" <=> \E i \in 1 .. n : q[i] = c
ActsOf(n, q, a) == [i \in 1 .. n |-> a[q[i]]]

\* o is a without its j-th element.
Without(n, a, j, o) ==
  /\ o \in [1 .. n - 1 -> Int]
  /\ \A i \in 1 .. n - 1 : o[i] = a[IF i < j THEN i ELSE i + 1]

\* From the last event on, or from w if that is earlier, what was taken out is
\* worth what the reservations may still give back.
Backed(n, q, w) ==
  /\ Lists(n, q, pc)
  /\ \A t \in Int : Event <= t \/ w <= t
       => Owes(n, ActsOf(n, q, act), t, Spent(Zero(w), Base, t))
Solvent(w) == \E n \in Nat : \E q : Backed(n, q, w)

\* The bucket is not empty later than its last event, unless it is full.
Ordered(w) == Zero(w) <= Event \/ Zero(w) = w - Full

Ledger(w) == Paid <= Full + w /\ Ordered(w) /\ Solvent(w)

\* While no call has moved last back, the ledger is in order at last.
Books ==
  rewound = 0 => IF table = NoLimiter THEN Paid = 0
                 ELSE \E w \in Nat : w = Last /\ Ledger(w)

\* What a call that stores x tokens at w leaves is there at w.
LEMMA FreshTokens ==
  ASSUME NEW x \in Int, x <= Full, NEW w \in Nat, NEW e
  PROVE  Tokens([tokens |-> x, last |-> w, event |-> e], w) = x
BY FullIsNat DEF Tokens, Capped

\* The numbers of the ledger.
LEMMA LedgerTypes ==
  RateInv /\ table # NoLimiter =>
    \A w \in Nat :
      /\ Have(w) \in Int /\ Have(w) <= Full /\ Zero(w) \in Int /\ w - Full <= Zero(w)
      /\ Event \in Nat /\ Base \in Int /\ Paid \in Nat /\ Zero(w) = w - Have(w)
<1> SUFFICES ASSUME RateInv, table # NoLimiter, NEW w \in Nat
             PROVE  /\ Have(w) \in Int /\ Have(w) <= Full
                    /\ Zero(w) \in Int /\ w - Full <= Zero(w)
                    /\ Event \in Nat /\ Base \in Int /\ Paid \in Nat /\ Zero(w) = w - Have(w)
  OBVIOUS
<1>1. Full \in Nat /\ Paid \in Nat /\ Event \in Nat /\ limiters[table] \in Buckets
  BY Stored
<1>2. Have(w) \in Int /\ Have(w) <= Full
  <2>1. w \in Int
    OBVIOUS
  <2> QED
    BY <1>1, <2>1, TokensFit DEF Have
<1>3. Zero(w) \in Int /\ w - Full <= Zero(w) /\ Base \in Int /\ Zero(w) = w - Have(w)
  BY <1>1, <1>2 DEF Zero, Base
<1> QED
  BY <1>1, <1>2, <1>3

\* The acts of listed requests are numbers.
LEMMA ActsAreInts ==
  ASSUME RateInv, NEW n \in Nat, NEW q, Lists(n, q, pc)
  PROVE  ActsOf(n, q, act) \in [1 .. n -> Int]
BY DEF RateInv, TypeOK, Lists, ActsOf

\* They remain numbers.
LEMMA LedgerTypesNext ==
  RateInv' /\ table' # NoLimiter =>
    \A w \in Nat :
      /\ Have(w)' \in Int /\ Have(w)' <= Full /\ Zero(w)' \in Int /\ Event' \in Nat
      /\ Base' \in Int /\ Zero(w)' = w - Have(w)'
<1>1. RateInv /\ table # NoLimiter =>
        \A w \in Nat :
          /\ Have(w) \in Int /\ Have(w) <= Full /\ Zero(w) \in Int /\ Event \in Nat
          /\ Base \in Int /\ Zero(w) = w - Have(w)
  BY LedgerTypes
<1>2. (RateInv /\ table # NoLimiter =>
        \A w \in Nat :
          /\ Have(w) \in Int /\ Have(w) <= Full /\ Zero(w) \in Int /\ Event \in Nat
          /\ Base \in Int /\ Zero(w) = w - Have(w))'
  BY <1>1, PTL
<1>3. Full' = Full
  BY DEF Full
<1> QED
  BY <1>2, <1>3

\* What was spent is a number, and the more the further the bucket is drained.
LEMMA SpentGrows ==
  ASSUME NEW x \in Int, NEW y \in Int, NEW b \in Int, NEW t \in Int, x <= y
  PROVE  /\ Spent(x, b, t) \in Int /\ Spent(y, b, t) \in Int
         /\ Spent(x, b, t) <= Spent(y, b, t)
<1>1. x - t \in Int /\ y - t \in Int /\ b - t \in Int /\ x - t <= y - t
  OBVIOUS
<1>2. Worth[x - t] \in Int /\ Worth[y - t] \in Int /\ Worth[b - t] \in Int
  BY <1>1, WorthDoubles
<1>3. Worth[y - t] - Worth[x - t] >= (y - t) - (x - t)
  BY <1>1, WorthSlope
<1>4. Worth[x - t] <= Worth[y - t]
  BY <1>1, <1>2, <1>3
<1> QED
  BY <1>2, <1>4 DEF Spent

\* Before the instant one measures from, what was spent is the distance.
LEMMA SpentBefore ==
  ASSUME NEW z \in Int, NEW b \in Int, NEW t \in Int, z <= t, b <= t
  PROVE  Spent(z, b, t) = z - b
<1>1. z - t \in Int /\ b - t \in Int /\ z - t <= 0 /\ b - t <= 0
  OBVIOUS
<1>2. Worth[z - t] = z - t /\ Worth[b - t] = b - t
  BY <1>1, WorthDoubles
<1> QED
  BY <1>2 DEF Spent

\* Denied requests never leave the bucket with more than it had without them.
LEMMA NothingGained ==
  ASSUME RateInv, table # NoLimiter, NEW w \in Nat, Ledger(w)
  PROVE  Base <= Zero(w)
<1>0. PICK n \in Nat : \E q : Backed(n, q, w)
  BY DEF Ledger, Solvent
<1>1. PICK q : Backed(n, q, w)
  BY <1>0
<1>2. w \in Int /\ Zero(w) \in Int /\ Base \in Int /\ w <= w
  BY LedgerTypes
<1>3. Owes(n, ActsOf(n, q, act), w, Spent(Zero(w), Base, w))
  BY <1>1, <1>2 DEF Backed
<1>4. Spent(Zero(w), Base, w) \in Int
  <2>1. Zero(w) <= Zero(w)
    BY <1>2
  <2> QED
    BY <1>2, <2>1, SpentGrows
<1>5. ActsOf(n, q, act) \in [1 .. n -> Int]
  BY <1>1, ActsAreInts DEF Backed
<1>6. 0 <= Spent(Zero(w), Base, w)
  BY <1>2, <1>3, <1>4, <1>5, OwesFade
<1> SUFFICES ASSUME Zero(w) < Base PROVE FALSE
  BY <1>2
<1>7. /\ Zero(w) - w \in Int /\ Base - w \in Int /\ Zero(w) - w <= Base - w
      /\ (Base - w) - (Zero(w) - w) > 0
  BY <1>2
<1>8. Worth[Base - w] - Worth[Zero(w) - w] >= (Base - w) - (Zero(w) - w)
  BY <1>7, WorthSlope
<1>9. Worth[Zero(w) - w] \in Int /\ Worth[Base - w] \in Int
  BY <1>7, WorthDoubles
<1>10. 0 <= Worth[Zero(w) - w] - Worth[Base - w]
  BY <1>6 DEF Spent
<1> QED
  BY <1>7, <1>8, <1>9, <1>10

\* Requests that stay where they are stay listed.
LEMMA SameList ==
  ASSUME RateInv, NEW n \in Nat, NEW q, Lists(n, q, pc),
         \A c \in Clients : /\ pc'[c] = "cancel" <=> pc[c] = "cancel"
                            /\ pc[c] = "cancel" => act'[c] = act[c]
  PROVE  Lists(n, q, pc') /\ ActsOf(n, q, act') = ActsOf(n, q, act)
<1>1. Lists(n, q, pc')
  BY DEF Lists
<1>2. \A i \in 1 .. n : act'[q[i]] = act[q[i]]
  BY DEF Lists
<1> QED
  BY <1>1, <1>2 DEF ActsOf

\* A step that takes nothing back keeps the ledger.
LEMMA LedgerGrows ==
  ASSUME RateInv, RateInv', table # NoLimiter, table' = table, NEW w \in Nat, Ledger(w),
         \A c \in Clients : /\ pc'[c] = "cancel" <=> pc[c] = "cancel"
                            /\ pc[c] = "cancel" => act'[c] = act[c],
         Paid' <= Full + w, Ordered(w)',
         \A t \in Int : Event' <= t \/ w <= t
           => (Event <= t \/ w <= t) /\ Spent(Zero(w), Base, t) <= Spent(Zero(w)', Base', t)
  PROVE  Ledger(w)'
<1>0. PICK n \in Nat : \E q : Backed(n, q, w)
  BY DEF Ledger, Solvent
<1>1. PICK q : Backed(n, q, w)
  BY <1>0
<1>2. Lists(n, q, pc') /\ ActsOf(n, q, act') = ActsOf(n, q, act)
  BY <1>1, SameList DEF Backed
<1>3. Zero(w) \in Int /\ Base \in Int /\ Zero(w)' \in Int /\ Base' \in Int
  BY LedgerTypes, LedgerTypesNext
<1>4. ASSUME NEW t \in Int, Event' <= t \/ w <= t
      PROVE  Owes(n, ActsOf(n, q, act'), t, Spent(Zero(w)', Base', t))
  <2>1. Spent(Zero(w), Base, t) \in Int /\ Spent(Zero(w)', Base', t) \in Int
    <3>1. Zero(w) <= Zero(w) /\ Zero(w)' <= Zero(w)'
      BY <1>3
    <3> QED
      BY <1>3, <3>1, SpentGrows
  <2>2. Owes(n, ActsOf(n, q, act), t, Spent(Zero(w), Base, t))
    BY <1>1, <1>4 DEF Backed
  <2>3. Owes(n, ActsOf(n, q, act), t, Spent(Zero(w)', Base', t))
    BY <1>4, <2>1, <2>2, OwesMore
  <2> QED
    BY <1>2, <2>3
<1>5. Backed(n, q, w)'
  BY <1>2, <1>4 DEF Backed
<1>6. Solvent(w)'
  BY <1>5 DEF Solvent
<1> QED
  BY <1>6 DEF Ledger, Full

\* As time goes on what a bucket has, and had only the admitted requests taken a
\* token, keeps its distance; the empty instant moves only if the bucket is full.
LEMMA LedgerAdvance ==
  ASSUME RateInv, table # NoLimiter, NEW w \in Nat, NEW v \in Nat, Last <= w, w <= v, Ledger(w)
  PROVE  Ledger(v)
<1>1. /\ Stock \in Int /\ Stock <= Full /\ Last \in Nat /\ Full \in Nat /\ Paid \in Nat
      /\ limiters[table].tokens = Stock /\ limiters[table].last = Last
  BY Stored DEF Stock, Last
<1>2. Have(w) = Capped(Stock + (w - Last)) /\ Have(v) = Capped(Stock + (v - Last))
  BY <1>1 DEF Have, Tokens
<1>3. Zero(w) <= Zero(v) /\ (Zero(v) = Zero(w) \/ Zero(v) = v - Full)
  BY <1>1, <1>2 DEF Capped, Zero
<1>4. /\ Zero(w) \in Int /\ Zero(v) \in Int /\ Event \in Nat /\ Base \in Int /\ w - Full <= Zero(w)
      /\ v - Full <= Zero(v)
  BY LedgerTypes
<1>5. Paid <= Full + v
  <2>1. Paid <= Full + w
    BY DEF Ledger
  <2> QED
    BY <1>1, <2>1
<1>6. Ordered(v)
  <2>1. Zero(w) <= Event \/ Zero(w) = w - Full
    BY DEF Ledger, Ordered
  <2>2. CASE Zero(w) <= Event
    BY <1>3, <2>2 DEF Ordered
  <2>3. CASE Zero(w) = w - Full
    <3>1. Zero(v) = v - Full
      BY <1>1, <1>3, <1>4, <2>3
    <3> QED
      BY <3>1 DEF Ordered
  <2> QED
    BY <2>1, <2>2, <2>3
<1>7. PICK n \in Nat : \E q : Backed(n, q, w)
  BY DEF Ledger, Solvent
<1>8. PICK q : Backed(n, q, w)
  BY <1>7
<1>9. ASSUME NEW t \in Int, Event <= t \/ v <= t
      PROVE  Owes(n, ActsOf(n, q, act), t, Spent(Zero(v), Base, t))
  <2>1. Event <= t \/ w <= t
    BY <1>9
  <2>2. Owes(n, ActsOf(n, q, act), t, Spent(Zero(w), Base, t))
    BY <1>8, <2>1 DEF Backed
  <2>3. /\ Spent(Zero(w), Base, t) \in Int /\ Spent(Zero(v), Base, t) \in Int
        /\ Spent(Zero(w), Base, t) <= Spent(Zero(v), Base, t)
    BY <1>3, <1>4, SpentGrows
  <2> QED
    BY <2>2, <2>3, OwesMore
<1>10. Backed(n, q, v)
  BY <1>8, <1>9 DEF Backed
<1>11. Solvent(v)
  BY <1>10 DEF Solvent
<1> QED
  BY <1>5, <1>6, <1>11 DEF Ledger

\* Nothing is seen of a step that leaves map, buckets and reservations.
LEMMA LedgerStays ==
  ASSUME RateInv, RateInv', table # NoLimiter, NEW w \in Nat, Ledger(w),
         UNCHANGED <<table, limiters, admitted>>,
         \A c \in Clients : /\ pc'[c] = "cancel" <=> pc[c] = "cancel"
                            /\ pc[c] = "cancel" => act'[c] = act[c]
  PROVE  Ledger(w)'
<1>1. /\ Zero(w)' = Zero(w) /\ Event' = Event /\ Base' = Base /\ Paid' = Paid /\ Full' = Full
      /\ Ordered(w)' <=> Ordered(w)
  <2>1. Full' = Full
    BY DEF Full
  <2>2. Have(w)' = Have(w)
    BY DEF Have, Tokens, Capped, Full
  <2>3. Event' = Event /\ Paid' = Paid
    BY DEF Event, Paid
  <2>4. Zero(w)' = Zero(w) /\ Base' = Base
    BY <2>1, <2>2, <2>3 DEF Zero, Base
  <2> QED
    BY <2>1, <2>3, <2>4 DEF Ordered
<1>2. Paid' <= Full + w /\ Ordered(w)'
  BY <1>1 DEF Ledger
<1>3. Zero(w) \in Int /\ Base \in Int /\ Zero(w) <= Zero(w)
  BY LedgerTypes
<1>4. \A t \in Int : Spent(Zero(w), Base, t) <= Spent(Zero(w), Base, t)
  BY <1>3, SpentGrows
<1> QED
  BY <1>1, <1>2, <1>4, LedgerGrows

\* A new limiter is full and nobody owes it anything.
LEMMA LedgerLoadOrStore ==
  ASSUME RateInv, RateInv', NEW c \in Clients, LoadOrStore(c), table = NoLimiter, Paid = 0
  PROVE  table' # NoLimiter /\ Last' = 0 /\ Ledger(0)'
<1>1. /\ UNCHANGED <<act, admitted>> /\ Full' = Full /\ Full \in Nat
      /\ \A d \in Clients : pc'[d] = "cancel" <=> pc[d] = "cancel"
  BY FullIsNat DEF LoadOrStore, Goto, RateInv, TypeOK, Full, history
<1>2. /\ \A d \in Clients : pc'[d] # "cancel"
      /\ Paid' = 0 /\ table' = c /\ table' # NoLimiter
  BY <1>1, NoLimiterAssumption DEF RateInv, OneLimiter, Paid, LoadOrStore
<1>3. limiters'[table'] = [tokens |-> Full, last |-> 0, event |-> 0]
  BY DEF LoadOrStore, RateInv, NewLimiter
<1>4. Have(0)' = Full /\ Last' = 0
  <2>1. Have(0)' = Tokens([tokens |-> Full, last |-> 0, event |-> 0], 0)
    BY <1>1, <1>3 DEF Have, Tokens, Capped
  <2>2. Full \in Int /\ Full <= Full /\ 0 \in Nat
    BY <1>1
  <2> QED
    BY <1>3, <2>1, <2>2, FreshTokens DEF Last
<1>5. /\ Zero(0)' = 0 - Full /\ Base' = 0 - Full
      /\ Zero(0)' \in Int /\ Base' \in Int /\ Base' <= Zero(0)'
  BY <1>1, <1>2, <1>4 DEF Zero, Base
<1>6. Paid' <= Full + 0 /\ Ordered(0)'
  BY <1>1, <1>2, <1>5 DEF Ordered
<1>7. Lists(0, [i \in 1 .. 0 |-> i], pc')
  BY <1>2 DEF Lists
<1>8. ASSUME NEW t \in Int, NEW a PROVE Owes(0, a, t, Spent(Zero(0)', Base', t))
  <2>1. Base' - t \in Int
    BY <1>5
  <2>2. Spent(Base', Base', t) = 0
    BY <2>1, WorthDoubles DEF Spent
  <2>3. Spent(Base', Base', t) <= Spent(Zero(0)', Base', t) /\ Spent(Zero(0)', Base', t) \in Int
    BY <1>5, SpentGrows
  <2> QED
    BY <2>2, <2>3, OwesNone
<1>9. Backed(0, [i \in 1 .. 0 |-> i], 0)'
  BY <1>7, <1>8 DEF Backed
<1>10. Solvent(0)'
  BY <1>9 DEF Solvent
<1> QED
  BY <1>1, <1>2, <1>4, <1>6, <1>10 DEF Ledger

\* The limiter a call works with is the stored one, and it finds what the ledger has
\* at the clock of the call.
LEMMA CallFinds ==
  ASSUME RateInv, NEW c \in Clients, NEW p \in {"allow", "reserve", "cancel"}, Calls(c, p),
         NEW w \in Nat, w = clock[c], UNCHANGED <<now, table>>
  PROVE  /\ table # NoLimiter /\ table' # NoLimiter /\ limiters[mine[c]] = limiters[table]
         /\ Tokens(limiters[mine[c]], clock[c]) = Have(w)
         /\ Have(w) \in Int /\ Have(w) <= Full
         /\ \A x \in Int, e \in Nat : x <= Full /\ Put(c, x, e)
              => Have(w)' = x /\ Event' = e /\ Last' = w
<1>1. /\ mine[c] = table /\ mine[c] \in Clients /\ table # NoLimiter
      /\ clock[c] \in Nat /\ clock[c] <= now
  BY CallersClock
<1>2. Have(w) \in Int /\ Have(w) <= Full
  BY <1>1, LedgerTypes
<1>3. ASSUME NEW x \in Int, NEW e \in Nat, x <= Full, Put(c, x, e)
      PROVE  Have(w)' = x /\ Event' = e /\ Last' = w
  <2>1. limiters'[table'] = [tokens |-> x, last |-> w, event |-> e]
    BY <1>1, <1>3, PutFits
  <2>2. Have(w)' = Tokens([tokens |-> x, last |-> w, event |-> e], w)
    BY <2>1 DEF Have, Tokens, Capped, Full
  <2> QED
    BY <1>3, <2>1, <2>2, FreshTokens DEF Event, Last
<1> QED
  BY <1>1, <1>2, <1>3 DEF Have

\* An admitted request takes its token from both sides of what was spent.
LEMMA LedgerAdmit ==
  ASSUME RateInv, RateInv', NEW c \in Clients, Admit(c), NEW w \in Nat, w = clock[c], Ledger(w)
  PROVE  Ledger(w)' /\ Last' = w
<1>1. /\ UNCHANGED <<now, table>> /\ Paid \in Nat /\ Per \in Nat
      /\ Per > 0 /\ Paid' = Paid + Per /\ Full \in Nat /\ Full' = Full
  BY PaidIsNat, PaidGrows, FullIsNat, RateAssumption DEF Admit, Full
<1>2. /\ Calls(c, "allow") /\ Tokens(limiters[mine[c]], clock[c]) >= Per
      /\ Put(c, Tokens(limiters[mine[c]], clock[c]) - Per, w)
  BY DEF Admit
<1>3. /\ table # NoLimiter /\ Have(w) \in Int /\ Have(w) <= Full /\ Have(w) >= Per
      /\ Put(c, Have(w) - Per, w)
  BY <1>1, <1>2, CallFinds
<1>4. Have(w) - Per \in Int /\ Have(w) - Per <= Full
  BY <1>1, <1>3
<1>5. Have(w)' = Have(w) - Per /\ Event' = w /\ Last' = w
  <2>1. \A x \in Int, e \in Nat : x <= Full /\ Put(c, x, e)
          => Have(w)' = x /\ Event' = e /\ Last' = w
    BY <1>1, <1>2, CallFinds
  <2> QED
    BY <1>3, <1>4, <2>1
<1>6. \A d \in Clients : /\ pc'[d] = "cancel" <=> pc[d] = "cancel"
                         /\ pc[d] = "cancel" => act'[d] = act[d]
  BY DEF Admit, Calls, Return, Goto, RateInv, TypeOK
<1>7. /\ Zero(w) \in Int /\ Base \in Int /\ Base <= Zero(w)
      /\ Zero(w)' = Zero(w) + Per /\ Base' = Base + Per /\ Zero(w)' <= w /\ Base' <= Zero(w)'
  <2>1. Zero(w) \in Int /\ Base \in Int /\ Base <= Zero(w)
    BY <1>3, LedgerTypes, NothingGained
  <2>2. /\ Zero(w) = w - Have(w) /\ Zero(w)' = w - Have(w)'
        /\ Base = Paid - Full /\ Base' = Paid' - Full
    BY <1>1 DEF Zero, Base
  <2> QED
    BY <1>1, <1>3, <1>5, <2>1, <2>2
<1>8. Paid' <= Full + w /\ Ordered(w)'
  <2>1. Paid' <= Full + w
    <3>1. Base' = Paid' - Full
      BY <1>1 DEF Base
    <3> QED
      BY <1>1, <1>7, <3>1
  <2> QED
    BY <1>1, <1>5, <1>7, <2>1 DEF Ordered
<1>9. ASSUME NEW t \in Int, Event' <= t \/ w <= t
      PROVE  /\ Event <= t \/ w <= t
             /\ Spent(Zero(w), Base, t) <= Spent(Zero(w)', Base', t)
  <2>1. /\ w <= t /\ Zero(w) <= t /\ Base <= t /\ Zero(w)' <= t /\ Base' <= t
        /\ Zero(w)' \in Int /\ Base' \in Int
    BY <1>1, <1>5, <1>7, <1>9
  <2>2. Spent(Zero(w), Base, t) = Zero(w) - Base /\ Spent(Zero(w)', Base', t) = Zero(w)' - Base'
    BY <1>7, <2>1, SpentBefore
  <2> QED
    BY <1>1, <1>7, <2>1, <2>2
<1> QED
  BY <1>1, <1>3, <1>5, <1>6, <1>8, <1>9, LedgerGrows

\* What a reservation takes is worth what its Cancel may give back.
LEMMA ReserveIsBacked ==
  ASSUME NEW z \in Int, NEW b \in Int, NEW w \in Int, NEW t \in Int, w <= t
  PROVE  Spent(z, b, t) + Claim((IF z + Per > w THEN z + Per ELSE w) - t) <= Spent(z + Per, b, t)
<1>1. /\ Per \in Nat /\ z - t \in Int /\ b - t \in Int /\ z + Per \in Int
      /\ (z + Per) - t \in Int /\ ((z + Per) - t) - Per = z - t
      /\ w - t \in Int /\ (w - t) - Per \in Int
  BY RateAssumption
<1>2. /\ Worth[z - t] \in Int /\ Worth[b - t] \in Int /\ Worth[(z + Per) - t] \in Int
  BY <1>1, WorthDoubles
<1>3. CASE z + Per > w
  BY <1>1, <1>2, <1>3 DEF Spent, Claim
<1>4. CASE ~(z + Per > w)
  <2>1. (z + Per) - t <= 0 /\ z - t <= 0 /\ w - t <= 0 /\ (w - t) - Per <= 0
    BY <1>1, <1>4
  <2>2. /\ Worth[(z + Per) - t] = (z + Per) - t /\ Worth[z - t] = z - t
        /\ Worth[w - t] = w - t /\ Worth[(w - t) - Per] = (w - t) - Per
    BY <1>1, <2>1, WorthDoubles
  <2>3. Claim(w - t) = Per
    BY <1>1, <2>2 DEF Claim
  <2> QED
    BY <1>1, <1>2, <1>4, <2>2, <2>3 DEF Spent
<1> QED
  BY <1>3, <1>4

\* The same, measured from any instant up to the last event.
LEMMA CancelIsPaidFrom ==
  ASSUME NEW a \in Int, NEW e \in Int, NEW z \in Int, NEW r \in Int, NEW u \in Int,
         z <= e, u <= e, r = Per - (e - a), r > 0
  PROVE  /\ Worth[z - u] - Worth[(z - r) - u] <= Claim(a - u)
         /\ Worth[z - u] \in Int /\ Worth[(z - r) - u] \in Int
<1>1. /\ a - u \in Int /\ e - u \in Int /\ z - u \in Int /\ z - u <= e - u /\ 0 <= e - u
      /\ r = Per - ((e - u) - (a - u)) /\ (z - u) - r = (z - r) - u /\ (z - r) - u \in Int
  BY RateAssumption
<1>2. Worth[z - u] - Worth[(z - u) - r] <= Claim(a - u)
  BY <1>1, CancelIsPaid
<1> QED
  BY <1>1, <1>2, WorthDoubles

\* What a Cancel gives back was owed: z is the bucket's empty instant, e its last
\* event, w the time, a what the cancelled request had reserved.
LEMMA CancelIsBacked ==
  ASSUME NEW n \in Nat, NEW q \in [1 .. n -> Int], NEW j \in 1 .. n,
         NEW o, Without(n, q, j, o),
         NEW z \in Int, NEW b \in Int, NEW e \in Int, NEW w \in Int, NEW y \in Int,
         NEW a \in Int, a = q[j], NEW t \in Int, NEW r \in Int,
         b <= z, z <= e, e <= t \/ w <= t,
         r = Per - (e - a), r > 0, z - r <= y, y <= z,
         \A u \in Int : e <= u \/ w <= u => Owes(n, q, u, Spent(z, b, u))
  PROVE  Owes(n - 1, o, t, Spent(y, b, t))
<1> DEFINE d(u) == Claim(a - u)
<1>1. n - 1 \in Nat /\ z <= z /\ z - r \in Int /\ e <= e
  OBVIOUS
<1>2. ASSUME NEW u \in Int, e <= u \/ w <= u
      PROVE  Owes(n - 1, o, u, Spent(z, b, u) - d(u)) /\ Spent(z, b, u) \in Int /\ d(u) \in Int
  <2>1. Spent(z, b, u) \in Int
    BY <1>1, SpentGrows
  <2>2. Owes(n, q, u, Spent(z, b, u))
    BY <1>2
  <2>3. Owes(n - 1, o, u, Spent(z, b, u) - d(u))
    BY <2>1, <2>2, OwesOneLess DEF Without
  <2>4. a - u \in Int /\ a - u <= a - u
    BY <1>1
  <2>5. d(u) \in Int
    BY <2>4, ClaimFades
  <2> QED
    BY <2>1, <2>3, <2>5
\* Up to the last event the convexity of Worth pays.
<1>3. ASSUME NEW u \in Int, e <= u \/ w <= u, u <= e
      PROVE  Owes(n - 1, o, u, Spent(y, b, u)) /\ Spent(y, b, u) \in Int
  <2>1. b - u \in Int
    BY <1>3
  <2>2. Worth[z - u] - Worth[(z - r) - u] <= d(u)
    BY <1>3, CancelIsPaidFrom
  <2>3. Worth[z - u] \in Int /\ Worth[(z - r) - u] \in Int /\ Worth[b - u] \in Int
    BY <1>3, <2>1, CancelIsPaidFrom, WorthDoubles
  <2>4. Spent(z - r, b, u) <= Spent(y, b, u) /\ Spent(y, b, u) \in Int /\ Spent(z - r, b, u) \in Int
    BY <1>1, SpentGrows
  <2>5. Owes(n - 1, o, u, Spent(z, b, u) - d(u)) /\ Spent(z, b, u) \in Int /\ d(u) \in Int
    BY <1>2, <1>3
  <2> HIDE DEF d
  <2>6. Spent(z, b, u) - d(u) <= Spent(z - r, b, u)
    <3>1. \A p, g, h, k \in Int : p - g <= k => (p - h) - k <= g - h
      OBVIOUS
    <3> QED
      BY <2>2, <2>3, <2>5, <3>1, Zenon DEF Spent
  <2>7. Spent(z, b, u) - d(u) \in Int /\ Spent(z, b, u) - d(u) <= Spent(y, b, u)
    <3>1. \A f, g, h, k \in Int : f - g <= h /\ h <= k => f - g \in Int /\ f - g <= k
      OBVIOUS
    <3> QED
      BY <2>4, <2>5, <2>6, <3>1, Zenon
  <2> QED
    BY <1>1, <2>4, <2>5, <2>7, OwesMore
<1>4. CASE t <= e
  BY <1>3, <1>4
\* Beyond it the distances are what they are at the event.
<1>5. CASE e <= t
  <2>1. Owes(n - 1, o, e, Spent(y, b, e)) /\ Spent(y, b, e) \in Int
    BY <1>1, <1>3
  <2>2. Spent(y, b, e) = y - b /\ Spent(y, b, t) = y - b
    <3>1. y <= e /\ b <= e /\ y <= t /\ b <= t
      BY <1>5
    <3> QED
      BY <3>1, SpentBefore
  <2>3. Owes(n - 1, o, t, Spent(z, b, t) - d(t)) /\ Spent(z, b, t) - d(t) \in Int
    <3>1. Owes(n - 1, o, t, Spent(z, b, t) - d(t)) /\ Spent(z, b, t) \in Int /\ d(t) \in Int
      BY <1>2
    <3> HIDE DEF d
    <3> QED
      BY <3>1
  <2> HIDE DEF d
  <2>4. Owes(n - 1, o, t, Spent(y, b, e))
    <3>1. PICK g \in Int : Owes(n - 1, o, t, g)
      BY <2>3
    <3>2. PICK h \in Int : h = Spent(y, b, e)
      BY <2>1
    <3>3. Owes(n - 1, o, e, h)
      BY <2>1, <3>2
    <3>4. Owes(n - 1, o, t, h)
      BY <1>1, <1>5, <3>1, <3>3, OwesFade DEF Without
    <3> QED
      BY <3>2, <3>4
  <2> QED
    BY <2>2, <2>4
<1> QED
  BY <1>4, <1>5

\* A cancelled reservation that gives nothing back is no longer owed.
LEMMA ForgottenIsBacked ==
  ASSUME NEW n \in Nat, NEW q \in [1 .. n -> Int], NEW j \in 1 .. n,
         NEW o, Without(n, q, j, o),
         NEW t \in Int, NEW v \in Int, Owes(n, q, t, v)
  PROVE  Owes(n - 1, o, t, v)
<1>1. Owes(n - 1, o, t, v - Claim(q[j] - t))
  BY OwesOneLess DEF Without
<1>2. q[j] - t \in Int /\ q[j] - t <= q[j] - t /\ n - 1 \in Nat
  OBVIOUS
<1>3. Claim(q[j] - t) \in Int /\ 0 <= Claim(q[j] - t)
  BY <1>2, ClaimFades
<1>4. v - Claim(q[j] - t) \in Int /\ v - Claim(q[j] - t) <= v
  BY <1>3
<1> QED
  BY <1>1, <1>2, <1>4, OwesMore

\* A request that reserves is listed last.
LEMMA OneMoreListed ==
  ASSUME RateInv, NEW n \in Nat, NEW q, Lists(n, q, pc), NEW c \in Clients, NEW w \in Int,
         pc[c] # "cancel", pc'[c] = "cancel", act'[c] = w,
         \A d \in Clients : d # c => pc'[d] = pc[d] /\ act'[d] = act[d]
  PROVE  \E m : /\ Lists(n + 1, m, pc') /\ ActsOf(n + 1, m, act') \in [1 .. n + 1 -> Int]
                /\ \A i \in 1 .. n : ActsOf(n + 1, m, act')[i] = ActsOf(n, q, act)[i]
                /\ ActsOf(n + 1, m, act')[n + 1] = w
<1> DEFINE m == [i \in 1 .. n + 1 |-> IF i = n + 1 THEN c ELSE q[i]]
<1>1. /\ q \in [1 .. n -> Clients] /\ act \in [Clients -> Nat] /\ \A i \in 1 .. n : q[i] # c
      /\ pc \in [Clients -> {"idle", "store", "allow", "reserve", "cancel"}]
  BY DEF Lists, RateInv, TypeOK
<1>2. /\ m \in [1 .. n + 1 -> Clients] /\ m[n + 1] = c
      /\ \A i \in 1 .. n : m[i] = q[i] /\ i \in 1 .. n + 1
      /\ \A i \in 1 .. n + 1 : i \in 1 .. n \/ i = n + 1
      /\ n + 1 \in 1 .. n + 1
  <2>1. \A i \in 1 .. n + 1 : i \in 1 .. n \/ i = n + 1
    OBVIOUS
  <2>2. \A i \in 1 .. n + 1 : (IF i = n + 1 THEN c ELSE q[i]) \in Clients
    BY <1>1, <2>1
  <2>3. \A i \in 1 .. n : i \in 1 .. n + 1 /\ i # n + 1
    OBVIOUS
  <2> QED
    BY <2>1, <2>2, <2>3
<1> HIDE DEF m
<1>3. /\ \A d \in Clients : d # c => (pc'[d] = "cancel" <=> pc[d] = "cancel") /\ act'[d] = act[d]
      /\ pc'[c] = "cancel" /\ act'[c] = w
  BY <1>1
<1>4. Lists(n + 1, m, pc')
  <2>1. \A i, j \in 1 .. n + 1 : m[i] = m[j] => i = j
    <3> SUFFICES ASSUME NEW i \in 1 .. n + 1, NEW j \in 1 .. n + 1, m[i] = m[j] PROVE i = j
      OBVIOUS
    <3>1. CASE i \in 1 .. n /\ j \in 1 .. n
      <4>1. q[i] = q[j]
        BY <1>2, <3>1
      <4> QED
        BY <3>1, <4>1 DEF Lists
    <3>2. CASE i = n + 1 \/ j = n + 1
      BY <1>1, <1>2, <3>2, Zenon
    <3> QED
      BY <1>2, <3>1, <3>2, Zenon
  <2>2. \A d \in Clients : pc'[d] = "cancel" <=> \E i \in 1 .. n + 1 : m[i] = d
    <3>1. pc'[c] = "cancel" <=> \E i \in 1 .. n + 1 : m[i] = c
      BY <1>2, <1>3, Zenon
    <3>2. ASSUME NEW d \in Clients, d # c
          PROVE  pc'[d] = "cancel" <=> \E i \in 1 .. n + 1 : m[i] = d
      <4>1. pc'[d] = "cancel" <=> \E i \in 1 .. n : q[i] = d
        BY <1>3, <3>2, Zenon DEF Lists
      <4>2. (\E i \in 1 .. n : q[i] = d) <=> \E i \in 1 .. n + 1 : m[i] = d
        BY <1>2, <3>2, Zenon
      <4> QED
        BY <4>1, <4>2
    <3> QED
      BY <3>1, <3>2, Zenon
  <2> QED
    BY <1>2, <2>1, <2>2 DEF Lists
<1>5. /\ ActsOf(n + 1, m, act') = [i \in 1 .. n + 1 |-> act'[m[i]]]
      /\ ActsOf(n, q, act) = [i \in 1 .. n |-> act[q[i]]]
  BY DEF ActsOf
<1>6. \A i \in 1 .. n + 1 : act'[m[i]] \in Int
  BY <1>1, <1>2
<1>7. \A i \in 1 .. n : act'[m[i]] = act[q[i]]
  BY <1>1, <1>2, <1>3
<1>8. act'[m[n + 1]] = w
  BY <1>2, <1>3
<1>9. ActsOf(n + 1, m, act') \in [1 .. n + 1 -> Int]
  BY <1>5, <1>6
<1>10. \A i \in 1 .. n : ActsOf(n + 1, m, act')[i] = ActsOf(n, q, act)[i]
  BY <1>2, <1>5, <1>7
<1>11. ActsOf(n + 1, m, act')[n + 1] = w
  BY <1>2, <1>5, <1>8
<1> QED
  BY <1>4, <1>9, <1>10, <1>11, Zenon

\* A request that cancels leaves the list.
LEMMA OneLessListed ==
  ASSUME RateInv, NEW n \in Nat, NEW q, Lists(n, q, pc), NEW c \in Clients,
         pc[c] = "cancel", pc'[c] # "cancel", act' \in [Clients -> Nat],
         \A d \in Clients : d # c => pc'[d] = pc[d] /\ act'[d] = act[d]
  PROVE  \E j \in 1 .. n : \E m :
           /\ ActsOf(n, q, act)[j] = act[c]
           /\ Lists(n - 1, m, pc')
           /\ Without(n, ActsOf(n, q, act), j, ActsOf(n - 1, m, act'))
<1>1. /\ q \in [1 .. n -> Clients] /\ act \in [Clients -> Nat]
      /\ pc \in [Clients -> {"idle", "store", "allow", "reserve", "cancel"}]
  BY DEF Lists, RateInv, TypeOK
<1>2. PICK j \in 1 .. n : q[j] = c
  BY DEF Lists
<1> DEFINE s(i) == IF i < j THEN i ELSE i + 1
           m == [i \in 1 .. n - 1 |-> q[s(i)]]
<1>3. /\ \A i \in 1 .. n - 1 : s(i) \in 1 .. n /\ s(i) # j
      /\ \A i, k \in 1 .. n - 1 : s(i) = s(k) => i = k
      /\ \A k \in 1 .. n : k # j => \E i \in 1 .. n - 1 : s(i) = k
  <2>1. ASSUME NEW k \in 1 .. n, k # j PROVE \E i \in 1 .. n - 1 : s(i) = k
    <3>1. CASE k < j
      <4>1. k \in 1 .. n - 1 /\ s(k) = k
        BY <3>1
      <4> QED
        BY <4>1
    <3>2. CASE k > j
      <4>1. k - 1 \in 1 .. n - 1 /\ s(k - 1) = k
        BY <3>2
      <4> QED
        BY <4>1
    <3> QED
      BY <2>1, <3>1, <3>2
  <2> QED
    BY <2>1
<1> HIDE DEF s
<1>4. m \in [1 .. n - 1 -> Clients] /\ \A i \in 1 .. n - 1 : m[i] = q[s(i)] /\ m[i] # c
  <2>1. \A i \in 1 .. n - 1 : q[s(i)] \in Clients /\ q[s(i)] # c
    BY <1>1, <1>2, <1>3 DEF Lists
  <2> QED
    BY <2>1
<1> HIDE DEF m
<1>5. /\ \A d \in Clients : d # c => (pc'[d] = "cancel" <=> pc[d] = "cancel") /\ act'[d] = act[d]
      /\ pc'[c] # "cancel" /\ act' \in [Clients -> Nat]
  BY <1>1
<1>6. Lists(n - 1, m, pc')
  <2>1. \A i, k \in 1 .. n - 1 : m[i] = m[k] => i = k
    <3> SUFFICES ASSUME NEW i \in 1 .. n - 1, NEW k \in 1 .. n - 1, m[i] = m[k] PROVE i = k
      OBVIOUS
    <3>1. q[s(i)] = q[s(k)] /\ s(i) \in 1 .. n /\ s(k) \in 1 .. n
      BY <1>3, <1>4
    <3>2. s(i) = s(k)
      BY <3>1, Zenon DEF Lists
    <3> QED
      BY <1>3, <3>2
  <2>2. \A d \in Clients : pc'[d] = "cancel" <=> \E i \in 1 .. n - 1 : m[i] = d
    <3>1. ASSUME NEW d \in Clients, d # c
          PROVE  pc'[d] = "cancel" <=> \E i \in 1 .. n - 1 : m[i] = d
      <4>1. pc'[d] = "cancel" <=> \E i \in 1 .. n : q[i] = d
        BY <1>5, <3>1, Zenon DEF Lists
      <4>2. (\E i \in 1 .. n : q[i] = d) <=> \E i \in 1 .. n - 1 : m[i] = d
        <5>1. ASSUME NEW k \in 1 .. n, q[k] = d PROVE \E i \in 1 .. n - 1 : m[i] = d
          <6>1. k # j
            BY <1>2, <3>1, <5>1
          <6>2. PICK i \in 1 .. n - 1 : s(i) = k
            BY <1>3, <6>1
          <6> QED
            BY <1>4, <5>1, <6>2
        <5>2. ASSUME NEW i \in 1 .. n - 1, m[i] = d PROVE \E k \in 1 .. n : q[k] = d
          BY <1>3, <1>4, <5>2
        <5> QED
          BY <5>1, <5>2, Zenon
      <4> QED
        BY <4>1, <4>2
    <3> QED
      BY <1>4, <1>5, <3>1, Zenon
  <2> QED
    BY <1>4, <2>1, <2>2 DEF Lists
<1>7. /\ ActsOf(n - 1, m, act') = [i \in 1 .. n - 1 |-> act'[m[i]]]
      /\ ActsOf(n, q, act) = [i \in 1 .. n |-> act[q[i]]]
  BY DEF ActsOf
<1>8. \A i \in 1 .. n - 1 : act'[m[i]] \in Int /\ act'[m[i]] = act[q[s(i)]]
  BY <1>1, <1>4, <1>5
<1>9. ActsOf(n - 1, m, act') \in [1 .. n - 1 -> Int]
  BY <1>7, <1>8
<1>10. ActsOf(n, q, act)[j] = act[c]
  BY <1>2, <1>7
<1>11. \A i \in 1 .. n - 1 : ActsOf(n - 1, m, act')[i] = ActsOf(n, q, act)[s(i)]
  BY <1>3, <1>7, <1>8
<1> QED
  <2>1. Without(n, ActsOf(n, q, act), j, ActsOf(n - 1, m, act'))
    BY <1>9, <1>11 DEF s, Without
  <2> QED
    BY <1>6, <1>10, <2>1

\* A reservation is paid for by the token it takes.
LEMMA LedgerReserve ==
  ASSUME RateInv, RateInv', NEW c \in Clients, Reserve(c), NEW w \in Nat, w = clock[c], Ledger(w)
  PROVE  Ledger(w)' /\ Last' = w
<1> DEFINE left == Have(w) - Per
           when == w + (IF left < 0 THEN -left ELSE 0)
<1>1. /\ UNCHANGED <<now, table>> /\ Paid \in Nat /\ Paid' = Paid /\ Calls(c, "reserve")
      /\ Per \in Nat /\ Per > 0 /\ Full \in Nat /\ Full' = Full
  BY PaidIsNat, FullIsNat, RateAssumption DEF Reserve, Paid, Full
<1>2. table # NoLimiter
  BY <1>1, CallFinds
<1>3. /\ Have(w) \in Int /\ Have(w) <= Full /\ Tokens(limiters[mine[c]], clock[c]) = Have(w)
      /\ \A x \in Int, e \in Nat : x <= Full /\ Put(c, x, e)
           => Have(w)' = x /\ Event' = e /\ Last' = w
  BY <1>1, CallFinds
<1>4. Put(c, left, when) /\ act' = [act EXCEPT ![c] = when] /\ Goto(c, "cancel") /\ pc[c] # "cancel"
  BY <1>3 DEF Reserve, Calls
<1>5. left \in Int /\ left <= Full /\ when \in Nat
  BY <1>1, <1>3
<1>6. /\ Zero(w) \in Int /\ Base \in Int /\ Zero(w) = w - Have(w)
      /\ when = IF Zero(w) + Per > w THEN Zero(w) + Per ELSE w
  <2>1. Zero(w) \in Int /\ Base \in Int /\ Zero(w) = w - Have(w)
    BY <1>2, LedgerTypes
  <2> QED
    BY <1>1, <1>3, <2>1
<1>7. Have(w)' = left /\ Event' = when /\ Last' = w
  <2> HIDE DEF left, when
  <2> QED
    BY <1>3, <1>4, <1>5
<1>8. Zero(w)' = Zero(w) + Per /\ Base' = Base
  <2>1. Zero(w)' = w - left
    BY <1>1, <1>7 DEF Zero
  <2> QED
    BY <1>1, <1>3, <1>6, <2>1 DEF Base
<1> HIDE DEF left, when
<1>9. Paid' <= Full' + w /\ Ordered(w)'
  <2>1. Paid' <= Full' + w
    BY <1>1 DEF Ledger
  <2>2. Zero(w) + Per <= when
    BY <1>1, <1>6
  <2> QED
    BY <1>7, <1>8, <2>1, <2>2 DEF Ordered
<1>10. PICK n \in Nat : \E q : Backed(n, q, w)
  BY DEF Ledger, Solvent
<1>11. PICK q : Backed(n, q, w)
  BY <1>10
<1>12. PICK m : /\ Lists(n + 1, m, pc') /\ ActsOf(n + 1, m, act') \in [1 .. n + 1 -> Int]
                /\ \A i \in 1 .. n : ActsOf(n + 1, m, act')[i] = ActsOf(n, q, act)[i]
                /\ ActsOf(n + 1, m, act')[n + 1] = when
  <2>1. Lists(n, q, pc) /\ when \in Int
    BY <1>5, <1>11 DEF Backed
  <2>2. /\ pc[c] # "cancel" /\ pc'[c] = "cancel" /\ act'[c] = when
        /\ \A d \in Clients : d # c => pc'[d] = pc[d] /\ act'[d] = act[d]
    BY <1>4 DEF Goto, RateInv, TypeOK
  <2> QED
    BY <2>1, <2>2, OneMoreListed
<1>13. ASSUME NEW t \in Int, Event' <= t \/ w <= t
       PROVE  Owes(n + 1, ActsOf(n + 1, m, act'), t, Spent(Zero(w)', Base', t))
  <2>1. w <= t
    BY <1>1, <1>5, <1>6, <1>7, <1>13
  <2>2. Owes(n, ActsOf(n, q, act), t, Spent(Zero(w), Base, t))
    BY <1>11, <2>1 DEF Backed
  <2>3. Zero(w) + Per \in Int /\ Zero(w) <= Zero(w) + Per /\ w \in Int /\ n + 1 \in Nat
    BY <1>1, <1>6
  <2>4. Spent(Zero(w), Base, t) \in Int /\ Spent(Zero(w) + Per, Base, t) \in Int
    BY <1>6, <2>3, SpentGrows
  <2>5. ActsOf(n, q, act) \in [1 .. n -> Int]
    BY <1>11, ActsAreInts DEF Backed
  <2>6. Owes(n + 1, ActsOf(n + 1, m, act'), t, Spent(Zero(w), Base, t) + Claim(when - t))
    <3>1. Owes(n + 1, ActsOf(n + 1, m, act'), t,
               Spent(Zero(w), Base, t) + Claim(ActsOf(n + 1, m, act')[n + 1] - t))
      BY <1>12, <2>2, <2>4, <2>5, OwesOneMore
    <3> QED
      BY <1>12, <3>1
  <2>7. Spent(Zero(w), Base, t) + Claim(when - t) <= Spent(Zero(w) + Per, Base, t)
    BY <1>6, <2>1, <2>3, ReserveIsBacked
  <2>8. Claim(when - t) \in Int
    <3>1. when - t \in Int /\ when - t <= when - t
      BY <1>5
    <3> QED
      BY <3>1, ClaimFades
  <2>9. Spent(Zero(w), Base, t) + Claim(when - t) \in Int
    BY <2>4, <2>8
  <2> QED
    BY <1>8, <2>3, <2>4, <2>6, <2>7, <2>9, OwesMore
<1>14. Backed(n + 1, m, w)'
  BY <1>12, <1>13 DEF Backed
<1>15. Solvent(w)'
  <2>1. n + 1 \in Nat
    OBVIOUS
  <2> QED
    BY <1>14, <2>1 DEF Solvent
<1> QED
  BY <1>7, <1>9, <1>15 DEF Ledger

\* What a Cancel gives back was owed, and the others remain backed.
LEMMA LedgerCancel ==
  ASSUME RateInv, RateInv', NEW c \in Clients, Cancel(c), NEW w \in Nat, Ledger(w),
         Restorable(c) <= 0 \/ w = clock[c]
  PROVE  /\ Ledger(w)' /\ table' # NoLimiter
         /\ Restorable(c) <= 0 => limiters' = limiters /\ rewound' = rewound
         /\ Restorable(c) > 0 => Last' = w
<1>1. /\ UNCHANGED <<now, table>> /\ Paid' = Paid /\ Base' = Base /\ Calls(c, "cancel")
      /\ Per \in Nat /\ Per > 0 /\ Full \in Nat /\ Full' = Full /\ act[c] \in Nat
  BY FullIsNat, RateAssumption DEF Cancel, RateInv, TypeOK, Paid, Base, Full
<1>2. table # NoLimiter /\ mine[c] = table /\ pc[c] = "cancel" /\ Return(c)
  BY DEF Cancel, Calls, RateInv, OneLimiter
<1>3. Have(w) \in Int /\ Have(w) <= Full
  BY <1>2, LedgerTypes
<1>4. /\ Zero(w) \in Int /\ Base \in Int /\ Event \in Nat /\ Zero(w) = w - Have(w)
      /\ w - Full <= Zero(w) /\ Base <= Zero(w)
  BY <1>2, LedgerTypes, NothingGained
<1>5. Paid' <= Full' + w
  BY <1>1 DEF Ledger
<1>6. PICK n \in Nat : \E q : Backed(n, q, w)
  BY DEF Ledger, Solvent
<1>7. PICK q : Backed(n, q, w)
  BY <1>6
<1>8. Lists(n, q, pc) /\ ActsOf(n, q, act) \in [1 .. n -> Int]
  BY <1>7, ActsAreInts DEF Backed
<1>9. PICK j \in 1 .. n : \E m :
         /\ ActsOf(n, q, act)[j] = act[c]
         /\ Lists(n - 1, m, pc')
         /\ Without(n, ActsOf(n, q, act), j, ActsOf(n - 1, m, act'))
  <2>1. /\ pc'[c] # "cancel" /\ act' \in [Clients -> Nat]
        /\ \A d \in Clients : d # c => pc'[d] = pc[d] /\ act'[d] = act[d]
    BY <1>2 DEF Return, Goto, RateInv, TypeOK
  <2> QED
    BY <1>2, <1>8, <2>1, OneLessListed
<1>10. PICK m :
         /\ ActsOf(n, q, act)[j] = act[c]
         /\ Lists(n - 1, m, pc')
         /\ Without(n, ActsOf(n, q, act), j, ActsOf(n - 1, m, act'))
  BY <1>9
<1>11. n - 1 \in Nat
  OBVIOUS
<1>12. ASSUME Ordered(w)',
              \A t \in Int : Event' <= t \/ w <= t
                => Owes(n - 1, ActsOf(n - 1, m, act'), t, Spent(Zero(w)', Base', t))
       PROVE  Ledger(w)'
  <2>1. Backed(n - 1, m, w)'
    BY <1>10, <1>12 DEF Backed
  <2>2. Solvent(w)'
    BY <1>11, <2>1 DEF Solvent
  <2> QED
    BY <1>5, <1>12, <2>2 DEF Ledger
<1>13. \A t \in Int : Event <= t \/ w <= t
         => Owes(n, ActsOf(n, q, act), t, Spent(Zero(w), Base, t))
  BY <1>7 DEF Backed
<1> DEFINE r == Per - (Event - act[c])
           a == ActsOf(n, q, act)
           o == ActsOf(n - 1, m, act')
<1>14. a \in [1 .. n -> Int] /\ o \in [1 .. n - 1 -> Int] /\ a[j] = act[c] /\ r \in Int
       /\ Without(n, a, j, o)
  BY <1>1, <1>4, <1>8, <1>10 DEF Without
\* Nothing is given back, or the bucket is full and stays so.
<1>15. ASSUME Zero(w)' = Zero(w), Event' = Event \/ w <= Event', Ordered(w)'
       PROVE  Ledger(w)'
  <2> SUFFICES ASSUME NEW t \in Int, Event' <= t \/ w <= t
               PROVE  Owes(n - 1, o, t, Spent(Zero(w)', Base', t))
    BY <1>12, <1>15
  <2>1. Event <= t \/ w <= t
    <3>1. Event' \in Nat
      BY <1>1, <1>2, LedgerTypesNext
    <3> QED
      BY <1>1, <1>15, <3>1
  <2>2. Owes(n, a, t, Spent(Zero(w), Base, t))
    BY <1>13, <2>1
  <2>3. Spent(Zero(w), Base, t) \in Int
    <3>1. Zero(w) <= Zero(w)
      BY <1>4
    <3> QED
      BY <1>4, <3>1, SpentGrows
  <2> HIDE DEF a, o
  <2>4. Owes(n - 1, o, t, Spent(Zero(w), Base, t))
    BY <1>14, <2>2, <2>3, ForgottenIsBacked
  <2> QED
    BY <1>1, <1>15, <2>4
<1>16. CASE Restorable(c) <= 0
  <2>1. limiters' = limiters /\ rewound' = rewound
    BY <1>16 DEF Cancel
  <2>2. Have(w)' = Have(w) /\ Event' = Event
    BY <1>1, <2>1 DEF Have, Tokens, Capped, Full, Event
  <2>3. Zero(w)' = Zero(w)
    BY <1>1, <2>2 DEF Zero
  <2>4. Ordered(w)'
    BY <1>1, <2>2, <2>3 DEF Ledger, Ordered
  <2>5. Ledger(w)'
    BY <1>15, <2>2, <2>3, <2>4
  <2>6. ~(Restorable(c) > 0)
    <3>1. Restorable(c) \in Int
      BY <1>1, <1>2, <1>4 DEF Restorable, Event
    <3> QED
      BY <1>16, <3>1
  <2> QED
    BY <1>1, <1>2, <2>1, <2>5, <2>6
<1>17. CASE ~(Restorable(c) <= 0)
  <2> DEFINE e == IF act[c] = Event /\ act[c] - Per >= w THEN act[c] - Per ELSE Event
  <2>0. w = clock[c]
    BY <1>17
  <2>1. Restorable(c) = r /\ act[c] >= w /\ r > 0
    BY <1>1, <1>2, <1>14, <1>17, <2>0 DEF Restorable, Event
  <2>2. e \in Nat
    BY <1>1, <1>4
  <2>3. /\ Tokens(limiters[mine[c]], clock[c]) = Have(w)
        /\ \A x \in Int, k \in Nat : x <= Full /\ Put(c, x, k)
             => Have(w)' = x /\ Event' = k /\ Last' = w
    BY <1>1, <2>0, CallFinds
  <2>4. Put(c, Capped(Have(w) + r), e)
    BY <1>2, <1>17, <2>0, <2>1, <2>3 DEF Cancel, Event
  <2>5. Capped(Have(w) + r) \in Int /\ Capped(Have(w) + r) <= Full
    <3>1. Have(w) + r \in Int
      BY <1>3, <1>14
    <3> QED
      BY <3>1, CappedFits
  <2> HIDE DEF r, e
  <2>6. Have(w)' = Capped(Have(w) + r) /\ Event' = e /\ Last' = w
    BY <2>2, <2>3, <2>4, <2>5
  <2>7. Zero(w)' = IF Zero(w) - r < w - Full THEN w - Full ELSE Zero(w) - r
    <3>1. Zero(w)' = w - Capped(Have(w) + r)
      BY <1>1, <2>6 DEF Zero
    <3>2. Capped(Have(w) + r) = IF Have(w) + r > Full THEN Full ELSE Have(w) + r
      BY DEF Capped
    <3>3. ASSUME Have(w) + r > Full PROVE Zero(w) - r < w - Full
      BY <1>1, <1>3, <1>4, <1>14, <3>3
    <3>4. ASSUME ~(Have(w) + r > Full)
          PROVE  ~(Zero(w) - r < w - Full) /\ Zero(w) - r = w - (Have(w) + r)
      BY <1>1, <1>3, <1>4, <1>14, <3>4
    <3> QED
      BY <3>1, <3>2, <3>3, <3>4
  <2>8. ASSUME Zero(w) = w - Full PROVE Ledger(w)'
    <3>1. Zero(w)' = Zero(w)
      <4>1. r \in Int /\ r > 0 /\ w \in Int /\ Full \in Int
        BY <1>1, <1>14, <2>1
      <4>2. Zero(w) - r < w - Full
        BY <1>4, <2>8, <4>1
      <4> QED
        BY <2>7, <2>8, <4>2
    <3>2. Ordered(w)'
      BY <1>1, <2>8, <3>1 DEF Ordered
    <3>3. Event' = Event \/ w <= Event'
      BY <1>1, <1>4, <2>6 DEF e
    <3> QED
      BY <1>15, <3>1, <3>2, <3>3
  <2>9. ASSUME Zero(w) # w - Full PROVE Ledger(w)'
    <3>1. Zero(w) <= Event
      BY <2>9 DEF Ledger, Ordered
    <3>2. /\ Zero(w)' \in Int /\ Zero(w) - r <= Zero(w)' /\ Zero(w)' <= Zero(w)
      BY <1>1, <1>4, <1>14, <2>1, <2>7
    <3>3. Ordered(w)'
      <4>1. CASE act[c] = Event /\ act[c] - Per >= w
        <5>1. r = Per /\ e = Event - Per
          BY <1>1, <1>4, <4>1 DEF r, e
        <5>2. Zero(w)' = w - Full \/ Zero(w)' <= e
          BY <1>1, <1>4, <2>7, <3>1, <5>1
        <5> QED
          BY <1>1, <2>6, <5>2 DEF Ordered
      <4>2. CASE ~(act[c] = Event /\ act[c] - Per >= w)
        <5>1. Event' = Event
          BY <2>6, <4>2 DEF e
        <5>2. Zero(w)' <= Event
          BY <1>4, <3>1, <3>2
        <5> QED
          BY <5>1, <5>2 DEF Ordered
      <4> QED
        BY <4>1, <4>2
    <3> SUFFICES ASSUME NEW t \in Int, Event' <= t \/ w <= t
                 PROVE  Owes(n - 1, o, t, Spent(Zero(w)', Base', t))
      BY <1>12, <3>3
    <3>4. Event <= t \/ w <= t
      BY <1>1, <1>4, <2>2, <2>6 DEF e
    <3>5. r = Per - (Event - act[c]) /\ w \in Int /\ Event \in Int /\ act[c] \in Int
      BY <1>1, <1>4 DEF r
    <3>6. \A u \in Int : Event <= u \/ w <= u => Owes(n, a, u, Spent(Zero(w), Base, u))
      BY <1>13
    <3> HIDE DEF a, o
    <3>7. Owes(n - 1, o, t, Spent(Zero(w)', Base, t))
      BY <1>4, <1>14, <2>1, <3>1, <3>2, <3>4, <3>5, <3>6, CancelIsBacked
    <3> QED
      BY <1>1, <3>7
  <2> QED
    BY <1>1, <1>2, <1>17, <2>6, <2>8, <2>9
<1> QED
  BY <1>16, <1>17


\* A call that stores something and leaves the count of what last was moved back at
\* zero is not older than the last one.
LEMMA NotOlder ==
  ASSUME RateInv, NEW c \in Clients, NEW p \in {"allow", "reserve", "cancel"}, Calls(c, p),
         UNCHANGED now, NEW x \in Int, x <= Full, NEW e \in Nat, Put(c, x, e), rewound' = 0
  PROVE  rewound = 0 /\ Last <= clock[c]
<1>1. /\ mine[c] = table /\ mine[c] \in Clients /\ table # NoLimiter
      /\ clock[c] \in Nat /\ clock[c] <= now
  BY CallersClock
<1>2. rewound' = rewound + Rewind(limiters[table], clock[c])
  BY <1>1, PutFits
<1>3. rewound \in Nat /\ Last \in Nat /\ limiters[table].last = Last
  BY <1>1, Stored DEF Last
<1>4. CASE clock[c] < Last
  <2>1. Rewind(limiters[table], clock[c]) = Last - clock[c]
    BY <1>3, <1>4 DEF Rewind
  <2> QED
    BY <1>1, <1>2, <1>3, <1>4, <2>1
<1>5. CASE ~(clock[c] < Last)
  <2>1. Rewind(limiters[table], clock[c]) = 0
    BY <1>3, <1>5 DEF Rewind
  <2> QED
    BY <1>1, <1>2, <1>3, <1>5, <2>1
<1> QED
  BY <1>4, <1>5

\* At the clock of a call that is not older than the last one the ledger is in order.
LEMMA LedgerAtCall ==
  ASSUME RateInv, Books, table # NoLimiter, NEW w \in Nat, Last <= w, rewound = 0
  PROVE  Ledger(w)
<1>1. PICK v \in Nat : v = Last /\ Ledger(v)
  BY DEF Books
<1> QED
  BY <1>1, LedgerAdvance

\* The books are in order where there is a limiter.
LEMMA InOrder ==
  ASSUME table' # NoLimiter, NEW w \in Nat, Last' = w, Ledger(w)'
  PROVE  Books'
BY DEF Books

\* A step of the clock, of the map and of a refused Allow is not seen in the books.
LEMMA BooksStay ==
  ASSUME RateInv, RateInv', Books, UNCHANGED <<table, limiters, admitted, rewound>>,
         \A c \in Clients : /\ pc'[c] = "cancel" <=> pc[c] = "cancel"
                            /\ pc[c] = "cancel" => act'[c] = act[c]
  PROVE  Books'
<1> SUFFICES ASSUME rewound' = 0
             PROVE  Books'
  BY DEF Books
<1>1. CASE table = NoLimiter
  BY <1>1 DEF Books, Paid
<1>2. CASE table # NoLimiter
  <2>1. PICK w \in Nat : w = Last /\ Ledger(w)
    BY <1>2 DEF Books
  <2>2. Ledger(w)'
    BY <1>2, <2>1, LedgerStays
  <2>3. Last' = w /\ table' # NoLimiter
    BY <1>2, <2>1 DEF Last
  <2> QED
    BY <2>2, <2>3, InOrder
<1> QED
  BY <1>1, <1>2

\* Every step keeps the books in order.
LEMMA BooksStep == RateInv /\ Books /\ [Next]_vars => Books'
<1> SUFFICES ASSUME RateInv, Books, [Next]_vars, rewound' = 0 PROVE Books'
  BY DEF Books
<1>1. RateInv'
  BY RateStep
<1>2. CASE Tick
  BY <1>1, <1>2, BooksStay DEF Tick, history
<1>3. ASSUME NEW c \in Clients, Load(c) \/ ReadClock(c) \/ Deny(c) PROVE Books'
  <2>1. \A d \in Clients : /\ pc'[d] = "cancel" <=> pc[d] = "cancel"
                           /\ pc[d] = "cancel" => act'[d] = act[d]
    BY <1>3 DEF Load, ReadClock, Deny, Calls, Goto, RateInv, TypeOK
  <2> QED
    BY <1>1, <1>3, <2>1, BooksStay DEF Load, ReadClock, Deny, history
<1>4. CASE UNCHANGED vars
  BY <1>1, <1>4, BooksStay DEF vars, history
<1>5. ASSUME NEW c \in Clients, LoadOrStore(c) PROVE Books'
  <2>1. CASE table = NoLimiter
    <3>1. Paid = 0
      BY <1>5, <2>1 DEF Books, LoadOrStore, history
    <3>2. table' # NoLimiter /\ Last' = 0 /\ Ledger(0)'
      BY <1>1, <1>5, <2>1, <3>1, LedgerLoadOrStore
    <3>3. 0 \in Nat
      OBVIOUS
    <3> QED
      BY <3>2, <3>3, InOrder
  <2>2. CASE table # NoLimiter
    <3>1. \A d \in Clients : pc'[d] = "cancel" <=> pc[d] = "cancel"
      BY <1>5 DEF LoadOrStore, Goto, RateInv, TypeOK
    <3> QED
      BY <1>1, <1>5, <2>2, <3>1, BooksStay DEF LoadOrStore, history
  <2> QED
    BY <2>1, <2>2
<1>6. ASSUME NEW c \in Clients, Admit(c) PROVE Books'
  <2> DEFINE x == Tokens(limiters[mine[c]], clock[c]) - Per
  <2>1. Calls(c, "allow") /\ UNCHANGED <<now, table>> /\ Put(c, x, clock[c])
    BY <1>6 DEF Admit
  <2>2. PICK w \in Nat : w = clock[c]
    BY <2>1, CallersClock
  <2>3. table # NoLimiter /\ x \in Int /\ x <= Full
    BY <2>1, CallersClock, RateAssumption, FullIsNat
  <2> HIDE DEF x
  <2>4. rewound = 0 /\ Last <= w
    BY <2>1, <2>2, <2>3, NotOlder
  <2>5. Ledger(w)
    BY <2>3, <2>4, LedgerAtCall
  <2>6. Ledger(w)' /\ Last' = w /\ table' # NoLimiter
    BY <1>1, <1>6, <2>1, <2>2, <2>3, <2>5, LedgerAdmit
  <2> QED
    BY <2>6, InOrder
<1>7. ASSUME NEW c \in Clients, Reserve(c) PROVE Books'
  <2> DEFINE x == Tokens(limiters[mine[c]], clock[c]) - Per
             e == clock[c] + (IF x < 0 THEN -x ELSE 0)
  <2>1. Calls(c, "reserve") /\ UNCHANGED <<now, table>> /\ Put(c, x, e)
    BY <1>7 DEF Reserve
  <2>2. PICK w \in Nat : w = clock[c]
    BY <2>1, CallersClock
  <2>3. table # NoLimiter /\ x \in Int /\ x <= Full
    BY <2>1, CallersClock, RateAssumption, FullIsNat
  <2>4. e \in Nat
    BY <2>2, <2>3
  <2> HIDE DEF x, e
  <2>5. rewound = 0 /\ Last <= w
    BY <2>1, <2>2, <2>3, <2>4, NotOlder
  <2>6. Ledger(w)
    BY <2>3, <2>5, LedgerAtCall
  <2>7. Ledger(w)' /\ Last' = w /\ table' # NoLimiter
    BY <1>1, <1>7, <2>1, <2>2, <2>3, <2>6, LedgerReserve
  <2> QED
    BY <2>7, InOrder
<1>8. ASSUME NEW c \in Clients, Cancel(c) PROVE Books'
  <2> DEFINE l == limiters[mine[c]]
             x == Capped(Tokens(l, clock[c]) + Restorable(c))
             e == IF act[c] = l.event /\ act[c] - Per >= clock[c] THEN act[c] - Per ELSE l.event
  <2>1. /\ Calls(c, "cancel") /\ UNCHANGED <<now, table>>
        /\ Restorable(c) <= 0 => UNCHANGED <<limiters, rewound>>
        /\ ~(Restorable(c) <= 0) => Put(c, x, e)
    BY <1>8 DEF Cancel
  <2>2. /\ table # NoLimiter /\ clock[c] \in Nat /\ l.event \in Nat
        /\ Tokens(l, clock[c]) \in Int /\ act[c] \in Nat /\ Per \in Nat
    BY <2>1, CallersClock, RateAssumption DEF Buckets, RateInv, TypeOK
  <2>3. Restorable(c) \in Int /\ e \in Nat
    BY <2>2 DEF Restorable
  <2>4. x \in Int /\ x <= Full
    BY <2>2, <2>3, CappedFits
  <2> HIDE DEF l, x, e
  <2>5. CASE Restorable(c) <= 0
    <3>1. rewound = 0
      BY <2>1, <2>5
    <3>2. PICK w \in Nat : w = Last /\ Ledger(w)
      BY <2>2, <3>1 DEF Books
    <3>3. Ledger(w)' /\ table' # NoLimiter
      BY <1>1, <1>8, <2>5, <3>2, LedgerCancel
    <3>4. Last' = w
      BY <2>1, <2>5, <3>2 DEF Last
    <3> QED
      BY <3>3, <3>4, InOrder
  <2>6. CASE ~(Restorable(c) <= 0)
    <3>1. PICK w \in Nat : w = clock[c]
      BY <2>2
    <3>2. rewound = 0 /\ Last <= w
      BY <2>1, <2>3, <2>4, <2>6, <3>1, NotOlder
    <3>3. Ledger(w)
      BY <2>2, <3>2, LedgerAtCall
    <3>4. Ledger(w)' /\ table' # NoLimiter /\ (Restorable(c) > 0 => Last' = w)
      BY <1>1, <1>8, <3>1, <3>3, LedgerCancel
    <3>5. Restorable(c) > 0
      BY <2>3, <2>6
    <3> QED
      BY <3>4, <3>5, InOrder
  <2> QED
    BY <2>5, <2>6
<1> QED
  BY <1>2, <1>3, <1>4, <1>5, <1>6, <1>7, <1>8, Zenon DEF Next

\* Whatever the interleaving of first requests, Allow, Reserve and Cancel, and of
\* their clocks with the mutex, no more requests pass than the bucket and the time
\* pay for, for any number of requests at once, any burst and any rate, until a call
\* works with a clock older than the last call that changed the bucket
\* (ratelimit.go:22, 49-78).  From then on the bound is not promised, nor kept.
THEOREM BucketIsNeverOverdrawn == Spec => []AdmittedBound
<1>1. Init => Books
  BY RateAssumption DEF Init, Books, Paid
<1>2. RateInv /\ Books => AdmittedBound
  <2> SUFFICES ASSUME RateInv, Books, rewound = 0 PROVE Paid <= Full + now
    BY DEF AdmittedBound, Paid
  <2>1. now \in Nat /\ Full \in Nat
    BY FullIsNat DEF RateInv, TypeOK
  <2>2. CASE table = NoLimiter
    BY <2>1, <2>2 DEF Books
  <2>3. CASE table # NoLimiter
    <3>1. PICK w \in Nat : w = Last /\ Ledger(w)
      BY <2>3 DEF Books
    <3>2. Last <= now /\ Paid \in Nat
      BY <2>3, Stored
    <3> QED
      BY <2>1, <3>1, <3>2 DEF Ledger
  <2> QED
    BY <2>2, <2>3
<1> QED
  BY <1>1, <1>2, BooksStep, RateInvariance, PTL DEF Spec

\* What is in the bucket and what was admitted is paid for at the clock of the last
\* call, as long as no call was older than the one before it.
NothingForFree ==
  rewound = 0 /\ table # NoLimiter
    => limiters[table].tokens + Paid <= Full + limiters[table].last

\* Finding 3 has one direction: denied requests may cost the IP tokens, but in no
\* order do their Cancels put more into the bucket than their Reserves took out, as
\* long as no call works with a clock older than the last one (ratelimit.go:74-78).
THEOREM DenialsGainNothing == Spec => []NothingForFree
<1>1. Init => Books
  BY RateAssumption DEF Init, Books, Paid
<1>2. RateInv /\ Books => NothingForFree
  <2> SUFFICES ASSUME RateInv, Books, rewound = 0, table # NoLimiter
               PROVE  Stock + Paid <= Full + Last
    BY DEF NothingForFree, Stock, Last
  <2>1. PICK w \in Nat : w = Last /\ Ledger(w)
    BY DEF Books
  <2>2. Base <= Zero(w)
    BY <2>1, NothingGained
  <2>3. /\ Stock \in Int /\ Stock <= Full /\ Full \in Nat /\ Paid \in Nat
        /\ limiters[table].tokens = Stock /\ limiters[table].last = Last
    BY Stored DEF Stock, Last
  <2>4. Have(w) = Stock
    BY <2>1, <2>3 DEF Have, Tokens, Capped
  <2> QED
    BY <2>1, <2>2, <2>3, <2>4 DEF Base, Zero
<1> QED
  BY <1>1, <1>2, BooksStep, RateInvariance, PTL DEF Spec
=============================================================================
