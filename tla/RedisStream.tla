---------------------------- MODULE RedisStream ----------------------------
(***************************************************************************)
(* The Redis streams and the one consumer group that consumer.go reads     *)
(* through XGROUP CREATE MKSTREAM, XREADGROUP and XACK.  Redis is outside  *)
(* the repository: this is the part of its behaviour the Go code relies    *)
(* on.  A stream is known by its length (entry i is the i-th XADD); a      *)
(* message is a pair <<topic, id>>.  The group exists or not per stream,   *)
(* starts after the entry that was last when it was created ("$"), has a   *)
(* last-delivered cursor, and keeps one pending-entries list (PEL) per     *)
(* consumer name.                                                          *)
(***************************************************************************)
EXTENDS Naturals, FiniteSets

CONSTANTS Topics,     \* the registered topics, one stream each
          Names,      \* consumer names of the group
          BatchSize   \* COUNT of XREADGROUP (EventConfig.BatchSize)

ASSUME BatchSizeAssumption == BatchSize \in Nat \ {0}

VARIABLES len,     \* len[t]: entries of the stream of t
          grp,     \* grp[t]: the group exists on the stream of t
          origin,  \* origin[t]: last entry when the group was created
          read,    \* read[t]: last entry delivered to the group
          pel      \* pel[c]: messages delivered to c and not acknowledged

redis == <<len, grp, origin, read, pel>>

Msg == Topics \X (Nat \ {0})

RedisTypeOK ==
  /\ len \in [Topics -> Nat]
  /\ grp \in [Topics -> BOOLEAN]
  /\ origin \in [Topics -> Nat]
  /\ read \in [Topics -> Nat]
  /\ pel \in [Names -> SUBSET Msg]

RedisInit ==
  /\ len = [t \in Topics |-> 0]
  /\ grp = [t \in Topics |-> FALSE]
  /\ origin = [t \in Topics |-> 0]
  /\ read = [t \in Topics |-> 0]
  /\ pel = [c \in Names |-> {}]

\* The group was handed m; m is out of every PEL; m was acknowledged.
Delivered(m) == grp[m[1]] /\ origin[m[1]] < m[2] /\ m[2] <= read[m[1]]
Pending(m) == \E c \in Names : m \in pel[c]
Settled(m) == Delivered(m) /\ ~Pending(m)

XAdd(t) ==
  /\ len' = [len EXCEPT ![t] = @ + 1]
  /\ UNCHANGED <<grp, origin, read, pel>>

\* XGROUP CREATE key group $ MKSTREAM; BUSYGROUP leaves everything as it is.
XGroupCreate(t) ==
  IF grp[t]
    THEN UNCHANGED redis
    ELSE /\ grp' = [grp EXCEPT ![t] = TRUE]
         /\ origin' = [origin EXCEPT ![t] = len[t]]
         /\ read' = [read EXCEPT ![t] = len[t]]
         /\ UNCHANGED <<len, pel>>

\* XREADGROUP of several streams is NOGROUP when any of them has no group.
GroupsExist == \A t \in Topics : grp[t]

\* What XREADGROUP with id 0 returns: up to COUNT of c's PEL per stream.
PendingBatch(c) ==
  {m \in pel[c] :
     Cardinality({n \in pel[c] : n[1] = m[1] /\ n[2] < m[2]}) < BatchSize}

\* What XREADGROUP with id > returns: up to COUNT undelivered per stream.
Upto(t) == IF len[t] < read[t] + BatchSize THEN len[t] ELSE read[t] + BatchSize
NewBatch == UNION {{t} \X ((read[t] + 1) .. Upto(t)) : t \in Topics}

XReadGroupNew(c) ==
  /\ read' = [t \in Topics |-> Upto(t)]
  /\ pel' = [pel EXCEPT ![c] = @ \cup NewBatch]
  /\ UNCHANGED <<len, grp, origin>>

\* XACK names the group, not the consumer: whoever owns m loses it.
XAck(m) ==
  /\ pel' = [c \in Names |-> pel[c] \ {m}]
  /\ UNCHANGED <<len, grp, origin, read>>
=============================================================================
