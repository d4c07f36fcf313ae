------------------------ MODULE EventConsumerProofs ------------------------
(***************************************************************************)
(* Proofs about EventConsumer, for every set of processes, names and       *)
(* topics, every batch size and every bound.                               *)
(***************************************************************************)
EXTENDS EventConsumer, FiniteSetTheorems, WellFoundedInduction, TLAPS

\* What a read returns is made of messages (consumer.go:79, 128).
LEMMA ReplyTypes ==
  ASSUME RedisTypeOK
  PROVE  /\ \A t \in Topics : Upto(t) \in Nat
         /\ NewBatch \in SUBSET Msg
         /\ \A c \in Names : PendingBatch(c) \in SUBSET Msg
<1>1. \A t \in Topics : Upto(t) \in Nat
  BY BatchSizeAssumption DEF RedisTypeOK, Upto
<1>2. NewBatch \in SUBSET Msg
  <2>1. SUFFICES ASSUME NEW t \in Topics, NEW i \in (read[t] + 1) .. Upto(t)
                 PROVE  i \in Nat \ {0}
    BY DEF NewBatch, Msg
  <2> QED BY <1>1 DEF RedisTypeOK
<1>3. \A c \in Names : PendingBatch(c) \in SUBSET Msg
  BY DEF RedisTypeOK, PendingBatch
<1> QED BY <1>1, <1>2, <1>3

\* Every transition of Redis keeps its types.
LEMMA RedisSteps ==
  ASSUME RedisTypeOK
  PROVE  /\ \A t \in Topics : XAdd(t) => RedisTypeOK'
         /\ \A t \in Topics : XGroupCreate(t) => RedisTypeOK'
         /\ \A c \in Names : XReadGroupNew(c) => RedisTypeOK'
         /\ \A m : XAck(m) => RedisTypeOK'
         /\ UNCHANGED redis => RedisTypeOK'
<1>1. \A t \in Topics : XAdd(t) => RedisTypeOK'
  BY DEF RedisTypeOK, XAdd
<1>2. \A t \in Topics : XGroupCreate(t) => RedisTypeOK'
  BY DEF RedisTypeOK, XGroupCreate, redis
<1>3. \A c \in Names : XReadGroupNew(c) => RedisTypeOK'
  BY ReplyTypes DEF RedisTypeOK, XReadGroupNew
<1>4. \A m : XAck(m) => RedisTypeOK'
  BY DEF RedisTypeOK, XAck
<1>5. UNCHANGED redis => RedisTypeOK'
  BY DEF RedisTypeOK, redis
<1> QED BY <1>1, <1>2, <1>3, <1>4, <1>5

\* The part of TypeOK about the processes.
ProcTypeOK ==
  /\ pc \in [Procs -> {"down", "ensure", "check", "wait", "handle", "ack"}]
  /\ mode \in [Procs -> {"pending", "new"}]
  /\ streamKeys \in [Procs -> Seq(Topics)]
  /\ batch \in [Procs -> SUBSET Msg]
  /\ \A p \in Procs : batch[p] # {} <=> pc[p] \in {"handle", "ack"}
  /\ cancelled \in [Procs -> BOOLEAN]
  /\ deadline \in [Procs -> {"none", "armed", "expired"}]
  /\ exit \in [Procs -> {"none", "0", "1", "killed"}]

\* A process that ends keeps the types (root.go:90-104).
LEMMA FinishType ==
  ASSUME TypeOK, NEW p \in Procs, NEW code \in {"0", "1", "killed"},
         Finish(p, code)
  PROVE  ProcTypeOK'
BY DEF TypeOK, ProcTypeOK, Finish, Goto

\* So does a failed read (consumer.go:137-148).
LEMMA ReadErrorType ==
  ASSUME TypeOK, NEW p \in Procs, pc[p] = "wait", ReadError(p)
  PROVE  ProcTypeOK' /\ handled' \in SUBSET Msg
<1>1. ASSUME ~cancelled[p] PROVE ProcTypeOK'
  BY <1>1 DEF TypeOK, ProcTypeOK, ReadError, Goto
<1>2. ASSUME cancelled[p] PROVE ProcTypeOK'
  BY <1>2, FinishType DEF ReadError
<1> QED BY <1>1, <1>2 DEF ReadError, TypeOK

\* The initial state has the types.
LEMMA TypeInit == Init => TypeOK
BY BoundsAssumption DEF Init, RedisInit, TypeOK, RedisTypeOK, Msg

\* Each variable keeps its type, and a process holds messages exactly while it
\* is in processMessages, in every step of Consumer.Run and its environment.
LEMMA TypeStep == TypeOK /\ [Next]_vars => TypeOK'
<1> SUFFICES ASSUME TypeOK, [Next]_vars PROVE TypeOK'
  OBVIOUS
<1> USE NameOfAssumption, BoundsAssumption DEF TypeOK
<1>1. ASSUME NEW t \in Topics, Publish(t) PROVE TypeOK'
  BY <1>1, RedisSteps DEF Publish, proc
<1>2. ASSUME NEW p \in Procs, Start(p) PROVE TypeOK'
  <2>1. RedisTypeOK'
    BY <1>2, RedisSteps DEF Start
  <2>2. streamKeys' \in [Procs -> Seq(Topics)]
    BY <1>2 DEF Start
  <2>3. batch' = batch /\ pc[p] = "down" /\ pc' = [pc EXCEPT ![p] = "ensure"]
    BY <1>2 DEF Start, Goto
  <2>4. lost' \in [Names -> SUBSET Msg]
    BY <1>2 DEF Start
  <2> QED BY <1>2, <2>1, <2>2, <2>3, <2>4 DEF Start
<1>3. ASSUME NEW p \in Procs, NEW t \in Topics,
             EnsureGroup(p, t) \/ EnsureGroupFails(p, t)
      PROVE TypeOK'
  <2>1. RedisTypeOK'
    BY <1>3, RedisSteps DEF EnsureGroup, EnsureGroupFails
  <2>2. streamKeys' \in [Procs -> Seq(Topics)]
    <3>1. Append(streamKeys[p], t) \in Seq(Topics)
      OBVIOUS
    <3> QED BY <1>3, <3>1 DEF EnsureGroup, EnsureGroupFails, NextKey
  <2>3. upsets' \in 0 .. MaxUpsets
    BY <1>3 DEF EnsureGroup, EnsureGroupFails, Upset, NoUpset
  <2>4. /\ pc[p] = "ensure" /\ batch' = batch
        /\ \/ pc' = [pc EXCEPT ![p] = "check"]
           \/ pc' = [pc EXCEPT ![p] = "ensure"]
    BY <1>3 DEF EnsureGroup, EnsureGroupFails, NextKey, Goto
  <2> QED BY <1>3, <2>1, <2>2, <2>3, <2>4 DEF EnsureGroup, EnsureGroupFails, NextKey
<1>4. ASSUME NEW p \in Procs, Check(p) PROVE TypeOK'
  <2>1. CASE cancelled[p]
    BY <1>4, <2>1, FinishType, RedisSteps DEF Check, ProcTypeOK
  <2>2. CASE ~cancelled[p]
    BY <1>4, <2>2, RedisSteps DEF Check, Goto
  <2> QED BY <2>1, <2>2
<1>5. ASSUME NEW p \in Procs, PendingReply(p) PROVE TypeOK'
  <2>1. PendingBatch(NameOf[p]) \in SUBSET Msg
    BY ReplyTypes
  <2> QED BY <1>5, <2>1, RedisSteps DEF PendingReply, StartBatch, Goto
<1>6. ASSUME NEW p \in Procs, PendingDrained(p) PROVE TypeOK'
  BY <1>6, RedisSteps DEF PendingDrained, Goto
<1>7. ASSUME NEW p \in Procs, NewReply(p) PROVE TypeOK'
  <2>1. RedisTypeOK'
    BY <1>7, RedisSteps DEF NewReply
  <2> QED BY <1>7, <2>1, ReplyTypes DEF NewReply, StartBatch, Goto
<1>8. ASSUME NEW p \in Procs, BlockTimeout(p) \/ NoGroup(p) \/ ReadFails(p)
      PROVE TypeOK'
  <2>1. ProcTypeOK' /\ handled' \in SUBSET Msg
    BY <1>8, ReadErrorType DEF BlockTimeout, NoGroup, ReadFails
  <2>2. RedisTypeOK' /\ UNCHANGED lost
    BY <1>8, RedisSteps DEF BlockTimeout, NoGroup, ReadFails
  <2>3. upsets' \in 0 .. MaxUpsets
    BY <1>8 DEF BlockTimeout, NoGroup, ReadFails, Upset, NoUpset
  <2> QED BY <2>1, <2>2, <2>3 DEF ProcTypeOK
<1>9. ASSUME NEW p \in Procs, NewReplyLost(p) PROVE TypeOK'
  <2>1. ProcTypeOK' /\ handled' \in SUBSET Msg
    BY <1>9, ReadErrorType DEF NewReplyLost
  <2>2. RedisTypeOK' /\ lost' \in [Names -> SUBSET Msg]
    BY <1>9, RedisSteps, ReplyTypes DEF NewReplyLost
  <2>3. upsets' \in 0 .. MaxUpsets
    BY <1>9 DEF NewReplyLost, Upset
  <2> QED BY <2>1, <2>2, <2>3 DEF ProcTypeOK
<1>10. ASSUME NEW p \in Procs, HandlerOk(p) PROVE TypeOK'
  BY <1>10, RedisSteps DEF HandlerOk, Goto
<1>11. ASSUME NEW p \in Procs, HandlerError(p) \/ AckFails(p) \/ ForceExit(p) \/ Kill(p)
       PROVE TypeOK'
  <2>1. ProcTypeOK'
    BY <1>11, FinishType DEF HandlerError, AckFails, ForceExit, Kill
  <2>2. RedisTypeOK' /\ UNCHANGED <<handled, lost>>
    BY <1>11, RedisSteps DEF HandlerError, AckFails, ForceExit, Kill
  <2>3. upsets' \in 0 .. MaxUpsets
    BY <1>11 DEF HandlerError, AckFails, ForceExit, Kill, Upset, NoUpset
  <2> QED BY <2>1, <2>2, <2>3 DEF ProcTypeOK
<1>12. ASSUME NEW p \in Procs, AckOk(p) PROVE TypeOK'
  <2>1. PICK m \in batch[p] : IsNext(p, m) /\ XAck(m) /\ Acked(p, m)
    BY <1>12 DEF AckOk
  <2>2. RedisTypeOK'
    BY <2>1, RedisSteps
  <2>3. CASE batch[p] # {m}
    <3>1. /\ batch' = [batch EXCEPT ![p] = @ \ {m}]
          /\ pc' = [pc EXCEPT ![p] = "handle"]
          /\ UNCHANGED <<mode, streamKeys, cancelled, deadline, exit>>
      BY <2>1, <2>3 DEF Acked, Goto
    <3>2. batch[p] \ {m} # {}
      BY <2>1, <2>3
    <3> QED BY <1>12, <2>2, <3>1, <3>2 DEF AckOk
  <2>4. CASE batch[p] = {m} /\ cancelled[p]
    BY <1>12, <2>1, <2>2, <2>4, FinishType DEF AckOk, Acked, ProcTypeOK
  <2>5. CASE batch[p] = {m} /\ ~cancelled[p]
    <3>1. /\ batch' = [batch EXCEPT ![p] = {}]
          /\ pc' = [pc EXCEPT ![p] = "check"]
          /\ deadline' = [deadline EXCEPT ![p] = "none"]
          /\ UNCHANGED <<mode, streamKeys, cancelled, exit>>
      BY <2>1, <2>5 DEF Acked, Goto
    <3> QED BY <1>12, <2>2, <3>1 DEF AckOk
  <2> QED BY <2>3, <2>4, <2>5
<1>13. ASSUME NEW p \in Procs, AckReplyLost(p) PROVE TypeOK'
  <2>1. RedisTypeOK'
    BY <1>13, RedisSteps DEF AckReplyLost
  <2> QED BY <1>13, <2>1, FinishType DEF AckReplyLost, ProcTypeOK, Upset
<1>14. ASSUME NEW p \in Procs, Signal(p) \/ DeadlineExpires(p) PROVE TypeOK'
  <2>1. RedisTypeOK' /\ UNCHANGED <<pc, mode, streamKeys, batch, exit, handled, lost>>
    BY <1>14, RedisSteps DEF Signal, DeadlineExpires
  <2>2. cancelled' \in [Procs -> BOOLEAN]
    BY <1>14 DEF Signal, DeadlineExpires
  <2>3. deadline' \in [Procs -> {"none", "armed", "expired"}]
    BY <1>14 DEF Signal, DeadlineExpires
  <2>4. upsets' \in 0 .. MaxUpsets
    BY <1>14 DEF Signal, DeadlineExpires, Upset
  <2> QED BY <2>1, <2>2, <2>3, <2>4
<1>15. ASSUME UNCHANGED vars PROVE TypeOK'
  BY <1>15, RedisSteps DEF vars, proc
<1> QED
  BY <1>1, <1>2, <1>3, <1>4, <1>5, <1>6, <1>7, <1>8, <1>9, <1>10, <1>11, <1>12,
     <1>13, <1>14, <1>15 DEF Next, Progress, Read, Fault

\* Type correctness of the consumer (consumer.go:48-227).
THEOREM TypeCorrect == Spec => []TypeOK
<1> QED BY TypeInit, TypeStep, PTL DEF Spec

-----------------------------------------------------------------------------
(* At least once.  What makes SettledWasHandled inductive: a message that  *)
(* is about to be acknowledged, the one IsNext names in pc "ack", has been *)
(* handled.                                                                *)

RedisBounds ==
  \A t \in Topics : origin[t] <= read[t] /\ read[t] <= len[t] /\ len[t] <= MaxLen
PelDelivered == \A c \in Names : \A m \in pel[c] : Delivered(m)
BatchDelivered == \A p \in Procs : \A m \in batch[p] : Delivered(m)
KeysDistinct ==
  \A p \in Procs : \A i, j \in DOMAIN streamKeys[p] :
    streamKeys[p][i] = streamKeys[p][j] => i = j
AckHandled ==
  \A p \in Procs : pc[p] = "ack" => \A m \in batch[p] : IsNext(p, m) => m \in handled
SettledHandled == \A m \in Msg : Settled(m) => m \in handled

SafetyInv ==
  /\ TypeOK /\ RedisBounds /\ PelDelivered /\ BatchDelivered
  /\ KeysDistinct /\ AckHandled /\ SettledHandled

\* Every step does to Redis one command or nothing, and an XACK names the
\* message whose handler has just returned (consumer.go:215-220).
RedisCommand ==
  \/ UNCHANGED redis
  \/ \E t \in Topics : len[t] < MaxLen /\ XAdd(t)
  \/ \E t \in Topics : XGroupCreate(t)
  \/ \E c \in Names : GroupsExist /\ XReadGroupNew(c)
  \/ \E p \in Procs : pc[p] = "ack" /\ \E m \in batch[p] : IsNext(p, m) /\ XAck(m)

\* A step of any process is one command to Redis at most.
LEMMA OneCommand ==
  ASSUME TypeOK, [Next]_vars PROVE RedisCommand
<1> USE NameOfAssumption DEF RedisCommand
<1>1. ASSUME NEW t \in Topics, Publish(t) PROVE RedisCommand
  BY <1>1 DEF Publish
<1>2. ASSUME NEW p \in Procs, Start(p) PROVE RedisCommand
  BY <1>2 DEF Start
<1>3. ASSUME NEW p \in Procs, Progress(p) PROVE RedisCommand
  BY <1>3 DEF Progress, EnsureGroup, Check, Read, PendingReply, PendingDrained,
              NewReply, BlockTimeout, NoGroup, HandlerOk, AckOk
<1>4. ASSUME NEW p \in Procs, Fault(p) PROVE RedisCommand
  BY <1>4 DEF Fault, EnsureGroupFails, ReadFails, NewReplyLost, HandlerError, AckFails,
              AckReplyLost, Signal, DeadlineExpires, ForceExit, Kill
<1>5. ASSUME UNCHANGED vars PROVE RedisCommand
  BY <1>5 DEF vars
<1> QED BY <1>1, <1>2, <1>3, <1>4, <1>5 DEF Next

\* A read by ">" moves every cursor to Upto, at most to the end of the stream.
LEMMA UptoBounds ==
  ASSUME RedisTypeOK, RedisBounds, NEW t \in Topics
  PROVE  Upto(t) \in Nat /\ read[t] <= Upto(t) /\ Upto(t) <= len[t]
BY BatchSizeAssumption DEF RedisTypeOK, RedisBounds, Upto

\* No command un-delivers a message, puts an undelivered one in a PEL, or
\* settles one that is not acknowledged.
LEMMA RedisKeeps ==
  ASSUME TypeOK, RedisBounds, PelDelivered, RedisCommand
  PROVE  /\ RedisBounds' /\ PelDelivered'
         /\ \A m \in Msg : Delivered(m) => Delivered(m)'
         /\ \A m \in Msg : Settled(m)' =>
              \/ Settled(m)
              \/ \E p \in Procs : pc[p] = "ack" /\ m \in batch[p] /\ IsNext(p, m)
<1> DEFINE Keeps == /\ RedisBounds' /\ PelDelivered'
                    /\ \A m \in Msg : Delivered(m) => Delivered(m)'
           Kept == \A m \in Msg : Settled(m)' => Settled(m)
<1> RedisTypeOK BY DEF TypeOK
<1>1. ASSUME UNCHANGED redis PROVE Keeps /\ Kept
  BY <1>1 DEF redis, RedisBounds, PelDelivered, Delivered, Settled, Pending
<1>2. ASSUME NEW t \in Topics, len[t] < MaxLen, XAdd(t) PROVE Keeps /\ Kept
  BY <1>2, BoundsAssumption
     DEF XAdd, RedisTypeOK, RedisBounds, PelDelivered, Delivered, Settled, Pending
<1>3. ASSUME NEW t \in Topics, XGroupCreate(t) PROVE Keeps /\ Kept
  <2>1. CASE grp[t]
    BY <1>1, <1>3, <2>1 DEF XGroupCreate
  <2>2. CASE ~grp[t]
    <3>1. RedisBounds'
      BY <1>3, <2>2 DEF XGroupCreate, RedisTypeOK, RedisBounds
    <3>2. \A m \in Msg : Delivered(m)' <=> Delivered(m)
      BY <1>3, <2>2 DEF XGroupCreate, RedisTypeOK, Delivered, Msg
    <3>3. pel' = pel
      BY <1>3, <2>2 DEF XGroupCreate
    <3> QED BY <3>1, <3>2, <3>3 DEF PelDelivered, RedisTypeOK, Settled, Pending
  <2> QED BY <2>1, <2>2
<1>4. ASSUME NEW c \in Names, GroupsExist, XReadGroupNew(c) PROVE Keeps /\ Kept
  <2>1. RedisBounds'
    BY <1>4, UptoBounds, BoundsAssumption DEF XReadGroupNew, RedisTypeOK, RedisBounds
  <2>2. \A m \in Msg : Delivered(m) => Delivered(m)'
    <3> SUFFICES ASSUME NEW m \in Msg, Delivered(m) PROVE Delivered(m)'
      OBVIOUS
    <3>1. m[1] \in Topics /\ m[2] \in Nat
      BY DEF Msg
    <3>2. /\ Upto(m[1]) \in Nat /\ read[m[1]] \in Nat /\ read[m[1]] <= Upto(m[1])
          /\ read'[m[1]] = Upto(m[1])
      BY <1>4, <3>1, UptoBounds DEF XReadGroupNew, RedisTypeOK
    <3> QED BY <1>4, <3>1, <3>2 DEF XReadGroupNew, Delivered
  <2>3. \A m \in NewBatch : m \in Msg /\ Delivered(m)'
    <3> SUFFICES ASSUME NEW t \in Topics, NEW i \in (read[t] + 1) .. Upto(t)
                 PROVE  <<t, i>> \in Msg /\ Delivered(<<t, i>>)'
      BY DEF NewBatch
    <3> QED BY <1>4, UptoBounds
            DEF XReadGroupNew, RedisTypeOK, RedisBounds, GroupsExist, Delivered, Msg
  <2>4. PelDelivered'
    <3> SUFFICES ASSUME NEW d \in Names, NEW m \in pel'[d] PROVE Delivered(m)'
      BY DEF PelDelivered
    <3>1. m \in pel[d] \/ m \in NewBatch
      BY <1>4 DEF XReadGroupNew, RedisTypeOK
    <3>2. m \in pel[d] => m \in Msg /\ Delivered(m)
      BY DEF PelDelivered, RedisTypeOK
    <3> QED BY <2>2, <2>3, <3>1, <3>2
  <2>5. ASSUME NEW m \in Msg, Settled(m)' PROVE Settled(m)
    <3>1. PICK t \in Topics, i \in Nat : m = <<t, i>>
      BY DEF Msg
    <3>2. m \notin NewBatch
      BY <1>4, <2>5 DEF XReadGroupNew, Settled, Pending, RedisTypeOK
    <3>3. i \notin (read[t] + 1) .. Upto(t)
      BY <3>1, <3>2 DEF NewBatch
    <3>4. Delivered(m)
      BY <1>4, <2>5, <3>1, <3>3, UptoBounds
         DEF XReadGroupNew, Settled, Delivered, RedisTypeOK, GroupsExist
    <3> QED BY <1>4, <2>5, <3>4 DEF XReadGroupNew, Settled, Pending, RedisTypeOK
  <2> QED BY <2>1, <2>2, <2>4, <2>5
<1>5. ASSUME NEW p \in Procs, pc[p] = "ack", NEW x \in batch[p], IsNext(p, x), XAck(x)
      PROVE  Keeps /\ \A m \in Msg : Settled(m)' => Settled(m) \/ m = x
  <2>1. Keeps
    BY <1>5 DEF XAck, RedisBounds, PelDelivered, Delivered, RedisTypeOK
  <2>2. ASSUME NEW m \in Msg, Settled(m)', m # x PROVE Settled(m)
    BY <1>5, <2>2 DEF XAck, Settled, Pending, Delivered
  <2> QED BY <2>1, <2>2
<1> QED BY <1>1, <1>2, <1>3, <1>4, <1>5 DEF RedisCommand

\* streamKeys has no topic twice, so the message that is next is unique
\* (consumer.go:50-54, 199-207).
LEMMA NextIsUnique ==
  ASSUME TypeOK, KeysDistinct, NEW p \in Procs,
         NEW m \in batch[p], NEW n \in batch[p], IsNext(p, m), IsNext(p, n)
  PROVE  m = n
<1> SUFFICES ASSUME m # n PROVE FALSE
  OBVIOUS
<1>1. m \in Msg /\ n \in Msg
  BY DEF TypeOK
<1>2. m[2] \in Nat /\ n[2] \in Nat
  BY <1>1 DEF Msg
<1>3. Before(p, m, n) /\ Before(p, n, m)
  BY DEF IsNext
<1>4. streamKeys[p] \in Seq(Topics)
  BY DEF TypeOK
<1>5. \A i \in DOMAIN streamKeys[p] : i \in Nat
  BY <1>4
<1>6. \A i, j \in DOMAIN streamKeys[p] :
        streamKeys[p][i] = streamKeys[p][j] => i = j
  BY DEF KeysDistinct
<1>7. CASE m[1] = n[1]
  <2>1. m[2] < n[2]
    BY <1>3, <1>5, <1>6, <1>7 DEF Before
  <2>2. n[2] < m[2]
    BY <1>3, <1>5, <1>6, <1>7 DEF Before
  <2> QED BY <1>2, <2>1, <2>2
<1>8. CASE m[1] # n[1]
  BY <1>3, <1>5, <1>6, <1>8 DEF Before
<1> QED BY <1>7, <1>8

\* ensureGroup goes through each topic once (consumer.go:50-54).
LEMMA KeysStep ==
  ASSUME TypeOK, KeysDistinct, [Next]_vars PROVE KeysDistinct'
<1>1. ASSUME UNCHANGED streamKeys PROVE KeysDistinct'
  BY <1>1 DEF KeysDistinct
<1>2. ASSUME NEW p \in Procs, Start(p) PROVE KeysDistinct'
  BY <1>2 DEF Start, KeysDistinct, TypeOK
<1>3. ASSUME NEW p \in Procs, NEW t \in Topics, NextKey(p, t) PROVE KeysDistinct'
  <2>1. streamKeys[p] \in Seq(Topics)
    BY DEF TypeOK
  <2>2. streamKeys' = [streamKeys EXCEPT ![p] = Append(streamKeys[p], t)]
    BY <1>3 DEF NextKey
  <2>3. \A i \in DOMAIN streamKeys[p] : streamKeys[p][i] # t
    BY <1>3 DEF NextKey, Ensured
  <2>4. ASSUME NEW q \in Procs,
               NEW i \in DOMAIN streamKeys'[q], NEW j \in DOMAIN streamKeys'[q],
               streamKeys'[q][i] = streamKeys'[q][j]
        PROVE  i = j
    <3>1. CASE q # p
      BY <2>2, <2>4, <3>1 DEF TypeOK, KeysDistinct
    <3>2. CASE q = p
      <4> DEFINE s == streamKeys[p]
      <4>1. streamKeys'[q] = Append(s, t)
        BY <2>2, <3>2 DEF TypeOK
      <4>2. /\ Len(Append(s, t)) = Len(s) + 1
            /\ \A k \in 1 .. Len(s) : Append(s, t)[k] = s[k]
            /\ Append(s, t)[Len(s) + 1] = t
            /\ DOMAIN Append(s, t) = 1 .. (Len(s) + 1)
            /\ DOMAIN s = 1 .. Len(s)
            /\ Len(s) \in Nat
        BY <2>1
      <4>3. \A k, l \in DOMAIN s : s[k] = s[l] => k = l
        BY DEF KeysDistinct
      <4> HIDE DEF s
      <4>4. i \in 1 .. (Len(s) + 1) /\ j \in 1 .. (Len(s) + 1)
        BY <4>1, <4>2
      <4>5. \A k \in 1 .. Len(s) : s[k] # t
        BY <2>3, <4>2 DEF s
      <4> QED BY <2>4, <4>1, <4>2, <4>3, <4>4, <4>5
    <3> QED BY <3>1, <3>2
  <2> QED BY <2>4 DEF KeysDistinct
<1>4. ASSUME NEW t \in Topics, Publish(t) PROVE UNCHANGED streamKeys
  BY <1>4 DEF Publish, proc
<1>5. ASSUME NEW p \in Procs, Progress(p), ~UNCHANGED streamKeys
      PROVE  \E t \in Topics : NextKey(p, t)
  BY <1>5 DEF Progress, EnsureGroup, Check, Read, PendingReply, PendingDrained,
     NewReply, BlockTimeout, NoGroup, HandlerOk, AckOk, StartBatch, ReadError,
     Acked, Finish
<1>6. ASSUME NEW p \in Procs, Fault(p), ~UNCHANGED streamKeys
      PROVE  \E t \in Topics : NextKey(p, t)
  BY <1>6 DEF Fault, EnsureGroupFails, ReadFails, NewReplyLost, HandlerError, AckFails,
     AckReplyLost, Signal, DeadlineExpires, ForceExit, Kill, ReadError, Finish
<1>7. ASSUME UNCHANGED vars PROVE UNCHANGED streamKeys
  BY <1>7 DEF vars, proc
<1> QED BY <1>1, <1>2, <1>3, <1>4, <1>5, <1>6, <1>7 DEF Next

\* A process gets messages only from a reply, and every message of a reply is
\* then in the PEL of its name; it drops them one by one or when it ends.
LEMMA BatchSource ==
  ASSUME TypeOK, [Next]_vars, NEW q \in Procs
  PROVE  batch'[q] \subseteq batch[q] \/ batch'[q] \subseteq pel'[NameOf[q]]
<1> DEFINE Goal == batch'[q] \subseteq batch[q] \/ batch'[q] \subseteq pel'[NameOf[q]]
<1> USE NameOfAssumption DEF TypeOK
<1>1. ASSUME UNCHANGED batch PROVE Goal
  BY <1>1
<1>2. ASSUME NEW p \in Procs, NEW code, Finish(p, code) PROVE Goal
  BY <1>2 DEF Finish
<1>3. ASSUME NEW p \in Procs, PendingReply(p) PROVE Goal
  BY <1>3 DEF PendingReply, StartBatch, PendingBatch, redis, RedisTypeOK
<1>4. ASSUME NEW p \in Procs, NewReply(p) PROVE Goal
  BY <1>4 DEF NewReply, StartBatch, XReadGroupNew, RedisTypeOK
<1>5. ASSUME NEW p \in Procs, AckOk(p) PROVE Goal
  <2>1. PICK m \in batch[p] : Acked(p, m)
    BY <1>5 DEF AckOk
  <2>2. CASE batch[p] = {m} /\ cancelled[p]
    BY <1>2, <2>1, <2>2 DEF Acked
  <2>3. CASE ~(batch[p] = {m} /\ cancelled[p])
    <3>1. \/ batch' = [batch EXCEPT ![p] = @ \ {m}]
          \/ batch' = [batch EXCEPT ![p] = {}]
      BY <2>1, <2>3 DEF Acked
    <3>2. batch'[q] = batch[q] \/ batch'[q] = batch[q] \ {m} \/ batch'[q] = {}
      BY <3>1
    <3> QED BY <3>2
  <2> QED BY <2>2, <2>3
<1>6. ASSUME NEW p \in Procs,
             (\E t \in Topics : EnsureGroup(p, t)) \/ Check(p) \/ PendingDrained(p)
             \/ BlockTimeout(p) \/ NoGroup(p) \/ HandlerOk(p)
      PROVE  Goal
  <2>1. UNCHANGED batch \/ Finish(p, "0")
    BY <1>6 DEF EnsureGroup, NextKey, Check, PendingDrained, BlockTimeout,
       NoGroup, HandlerOk, ReadError
  <2> QED BY <1>1, <1>2, <2>1
<1>7. ASSUME NEW p \in Procs, Fault(p) PROVE Goal
  <2>1. UNCHANGED batch \/ \E code \in {"0", "1", "killed"} : Finish(p, code)
    BY <1>7 DEF Fault, EnsureGroupFails, NextKey, ReadFails, NewReplyLost,
     HandlerError, AckFails, AckReplyLost, Signal, DeadlineExpires, ForceExit, Kill,
     ReadError
  <2> QED BY <1>1, <1>2, <2>1
<1>8. ASSUME NEW p \in Procs, Start(p) PROVE Goal
  BY <1>8 DEF Start
<1>9. ASSUME NEW t \in Topics, Publish(t) PROVE Goal
  BY <1>9 DEF Publish, proc
<1>10. ASSUME UNCHANGED vars PROVE Goal
  BY <1>10 DEF vars, proc
<1> QED BY <1>3, <1>4, <1>5, <1>6, <1>7, <1>8, <1>9, <1>10 DEF Next, Progress, Read

\* handled grows, by the message that is next; a process comes to pc "ack"
\* only from its handler's success and stays there with the same batch.
LEMMA AckSource ==
  ASSUME TypeOK, [Next]_vars
  PROVE  /\ handled \subseteq handled'
         /\ \A q \in Procs : pc'[q] = "ack" =>
              \/ pc[q] = "ack" /\ batch'[q] = batch[q] /\ streamKeys'[q] = streamKeys[q]
              \/ HandlerOk(q)
<1> DEFINE Goal ==
      /\ handled \subseteq handled'
      /\ \A q \in Procs : pc'[q] = "ack" =>
           \/ pc[q] = "ack" /\ batch'[q] = batch[q] /\ streamKeys'[q] = streamKeys[q]
           \/ HandlerOk(q)
<1> USE DEF TypeOK, Goto
<1>1. ASSUME UNCHANGED <<pc, batch, streamKeys, handled>> PROVE Goal
  BY <1>1
<1>2. ASSUME NEW p \in Procs, NEW code, Finish(p, code), UNCHANGED handled PROVE Goal
  BY <1>2 DEF Finish
<1>3. ASSUME NEW p \in Procs, PendingReply(p) \/ PendingDrained(p) \/ NewReply(p)
      PROVE  Goal
  BY <1>3 DEF PendingReply, PendingDrained, NewReply, StartBatch
<1>4. ASSUME NEW p \in Procs, ReadError(p) PROVE Goal
  BY <1>2, <1>4 DEF ReadError
<1>5. ASSUME NEW p \in Procs, AckOk(p) PROVE Goal
  BY <1>2, <1>5 DEF AckOk, Acked
<1>6. ASSUME NEW p \in Procs, NEW t \in Topics, NextKey(p, t) PROVE Goal
  BY <1>6 DEF NextKey
<1>7. ASSUME NEW p \in Procs, Check(p) PROVE Goal
  BY <1>2, <1>7 DEF Check
<1>8. ASSUME NEW p \in Procs, HandlerOk(p) PROVE Goal
  BY <1>8 DEF HandlerOk
<1>9. ASSUME NEW p \in Procs, Start(p) PROVE Goal
  BY <1>9 DEF Start
<1>10. ASSUME NEW t \in Topics, Publish(t) PROVE Goal
  BY <1>10 DEF Publish, proc
<1>11. ASSUME UNCHANGED vars PROVE Goal
  BY <1>11 DEF vars, proc
<1>12. ASSUME NEW p \in Procs, Progress(p) PROVE Goal
  BY <1>3, <1>4, <1>5, <1>6, <1>7, <1>8, <1>12
     DEF Progress, Read, EnsureGroup, BlockTimeout, NoGroup
<1>13. ASSUME NEW p \in Procs, Fault(p) PROVE Goal
  BY <1>1, <1>2, <1>4, <1>6, <1>13
     DEF Fault, EnsureGroupFails, ReadFails, NewReplyLost, HandlerError, AckFails,
     AckReplyLost, Signal, DeadlineExpires, ForceExit, Kill
<1> QED BY <1>9, <1>10, <1>11, <1>12, <1>13 DEF Next

\* The initial state satisfies the invariant.
LEMMA SafetyInit == Init => SafetyInv
BY TypeInit, BoundsAssumption
   DEF SafetyInv, Init, RedisInit, RedisBounds, PelDelivered, BatchDelivered,
   KeysDistinct, AckHandled, SettledHandled, Settled, Delivered, Msg

\* Every step keeps the invariant.
LEMMA SafetyStep == SafetyInv /\ [Next]_vars => SafetyInv'
<1> SUFFICES ASSUME SafetyInv, [Next]_vars PROVE SafetyInv'
  OBVIOUS
<1> USE DEF SafetyInv
<1>1. TypeOK'
  BY TypeStep
<1>2. /\ RedisBounds' /\ PelDelivered'
      /\ \A m \in Msg : Delivered(m) => Delivered(m)'
      /\ \A m \in Msg : Settled(m)' =>
           \/ Settled(m)
           \/ \E p \in Procs : pc[p] = "ack" /\ m \in batch[p] /\ IsNext(p, m)
  BY OneCommand, RedisKeeps
<1>3. KeysDistinct'
  BY KeysStep
<1>4. BatchDelivered'
  <2> SUFFICES ASSUME NEW q \in Procs, NEW m \in batch'[q] PROVE Delivered(m)'
    BY DEF BatchDelivered
  <2>1. CASE m \in batch[q]
    BY <1>2, <2>1 DEF BatchDelivered, TypeOK
  <2>2. CASE m \in pel'[NameOf[q]]
    BY <1>2, <2>2, NameOfAssumption DEF PelDelivered
  <2> QED BY <2>1, <2>2, BatchSource
<1>5. AckHandled'
  <2> SUFFICES ASSUME NEW q \in Procs, pc'[q] = "ack", NEW m \in batch'[q], IsNext(q, m)'
               PROVE  m \in handled'
    BY DEF AckHandled
  <2>1. CASE pc[q] = "ack" /\ batch'[q] = batch[q] /\ streamKeys'[q] = streamKeys[q]
    BY <2>1, AckSource DEF AckHandled, IsNext, Before
  <2>2. CASE HandlerOk(q)
    <3>1. PICK x \in batch[q] : IsNext(q, x) /\ handled' = handled \cup {x}
      BY <2>2 DEF HandlerOk
    <3>2. m \in batch[q] /\ IsNext(q, m)
      BY <2>2 DEF HandlerOk, IsNext, Before
    <3> QED BY <3>1, <3>2, NextIsUnique
  <2> QED BY <2>1, <2>2, AckSource
<1>6. SettledHandled'
  BY <1>2, AckSource DEF SettledHandled, AckHandled
<1> QED BY <1>1, <1>2, <1>3, <1>4, <1>5, <1>6

\* The invariant holds in every reachable state.
LEMMA SafetyInvariant == Spec => []SafetyInv
<1> QED BY SafetyInit, SafetyStep, PTL DEF Spec

\* At-least-once delivery, for any number of processes, also when several
\* share a consumer name (consumer.go:215-223).
THEOREM AtLeastOnceDelivery == Spec => []SettledWasHandled
<1>1. SafetyInv => SettledWasHandled
  BY DEF SafetyInv, TypeOK, RedisTypeOK, SettledHandled, SettledWasHandled, Msg
<1> QED BY <1>1, SafetyInvariant, PTL

-----------------------------------------------------------------------------
(* EventConsumer implements AtLeastOnce.                                   *)

\* Only a handler that returns nil makes a message handled.
LEMMA HandledChanges ==
  ASSUME [Next]_vars PROVE UNCHANGED handled \/ \E p \in Procs : HandlerOk(p)
<1>1. ASSUME NEW p \in Procs, Progress(p), ~HandlerOk(p) PROVE UNCHANGED handled
  BY <1>1 DEF Progress, EnsureGroup, NextKey, Check, Read, PendingReply, PendingDrained,
     NewReply, StartBatch, BlockTimeout, NoGroup, ReadError, AckOk
<1>2. ASSUME NEW p \in Procs, Fault(p) PROVE UNCHANGED handled
  BY <1>2 DEF Fault, EnsureGroupFails, NextKey, ReadFails, NewReplyLost, ReadError,
     HandlerError, AckFails, AckReplyLost, Signal, DeadlineExpires, ForceExit, Kill
<1>3. ASSUME NEW p \in Procs, Start(p) PROVE UNCHANGED handled
  BY <1>3 DEF Start
<1>4. ASSUME NEW t \in Topics, Publish(t) PROVE UNCHANGED handled
  BY <1>4 DEF Publish
<1>5. ASSUME UNCHANGED vars PROVE UNCHANGED handled
  BY <1>5 DEF vars
<1> QED BY <1>1, <1>2, <1>3, <1>4, <1>5 DEF Next

\* A delivered message is one of the bounded set of messages, and is owed.
LEMMA DeliveredIsOwed ==
  ASSUME SafetyInv, NEW m \in Msg, Delivered(m) PROVE m \in OwedMessages
<1>1. m[1] \in Topics /\ m[2] \in Nat \ {0} /\ m = <<m[1], m[2]>>
  BY DEF Msg
<1>2. /\ read[m[1]] <= len[m[1]] /\ len[m[1]] <= MaxLen
      /\ read[m[1]] \in Nat /\ len[m[1]] \in Nat
  BY <1>1 DEF SafetyInv, TypeOK, RedisTypeOK, RedisBounds
<1>3. m[2] <= len[m[1]] /\ m[2] \in 1 .. MaxLen
  BY <1>1, <1>2, BoundsAssumption DEF Delivered
<1> QED BY <1>1, <1>3 DEF OwedMessages, Messages, Delivered

\* The messages of AtLeastOnce are messages of the streams.
LEMMA MessagesAreMsg == Messages \subseteq Msg
BY BoundsAssumption DEF Messages, Msg

\* One Redis command at a time: XADD may make a message owed, XACK settles the
\* message it names, and nothing else is seen by AtLeastOnce.
LEMMA CommandMaps ==
  ASSUME SafetyInv, RedisCommand, UNCHANGED handled
  PROVE  [Promise!Next]_(Promise!vars)
<1> USE DEF SafetyInv
<1> RedisTypeOK BY DEF TypeOK
<1> DEFINE Stutter == OwedMessages' = OwedMessages /\ SettledMessages' = SettledMessages
<1>0. Stutter => UNCHANGED Promise!vars
  BY DEF Promise!vars
<1>1. ASSUME UNCHANGED redis PROVE Stutter
  BY <1>1 DEF redis, OwedMessages, SettledMessages, Settled, Delivered, Pending
<1>2. ASSUME NEW t \in Topics, len[t] < MaxLen, XAdd(t) PROVE [Promise!Next]_(Promise!vars)
  <2> DEFINE m == <<t, len[t] + 1>>
  <2>1. m \in Messages
    BY <1>2, BoundsAssumption DEF RedisTypeOK, Messages
  <2>2. SettledMessages' = SettledMessages
    BY <1>2 DEF XAdd, SettledMessages, Settled, Delivered, Pending
  <2>3. len' = [len EXCEPT ![t] = @ + 1] /\ UNCHANGED <<grp, origin, read, pel>>
    BY <1>2 DEF XAdd
  <2>4. \A n \in Messages : n # m => (n \in OwedMessages' <=> n \in OwedMessages)
    <3> SUFFICES ASSUME NEW n \in Messages, n # m
                 PROVE  n[2] <= len'[n[1]] <=> n[2] <= len[n[1]]
      BY <2>3 DEF OwedMessages
    <3>1. n = <<n[1], n[2]>> /\ n[1] \in Topics /\ n[2] \in Nat
      BY BoundsAssumption DEF Messages
    <3> QED BY <2>3, <3>1 DEF RedisTypeOK
  <2>5. m \notin OwedMessages
    BY DEF OwedMessages, RedisTypeOK
  <2>6. CASE grp[t]
    <3>1. m \in OwedMessages'
      BY <2>1, <2>3, <2>6 DEF OwedMessages, RedisTypeOK, RedisBounds
    <3>2. OwedMessages' = OwedMessages \cup {m}
      BY <2>1, <2>4, <3>1 DEF OwedMessages
    <3>3. Promise!Publish(m)
      BY <2>2, <2>5, <3>2 DEF Promise!Publish
    <3> QED BY <2>1, <3>3 DEF Promise!Next
  <2>7. CASE ~grp[t]
    <3>1. m \notin OwedMessages'
      BY <2>3, <2>7 DEF OwedMessages
    <3>2. OwedMessages' = OwedMessages
      BY <2>4, <2>5, <3>1 DEF OwedMessages
    <3> QED BY <1>0, <2>2, <3>2
  <2> QED BY <2>6, <2>7
<1>3. ASSUME NEW t \in Topics, XGroupCreate(t) PROVE Stutter
  <2>1. CASE grp[t]
    BY <1>1, <1>3, <2>1 DEF XGroupCreate
  <2>2. CASE ~grp[t]
    <3>1. /\ grp' = [grp EXCEPT ![t] = TRUE]
          /\ origin' = [origin EXCEPT ![t] = len[t]]
          /\ read' = [read EXCEPT ![t] = len[t]]
          /\ UNCHANGED <<len, pel>>
      BY <1>3, <2>2 DEF XGroupCreate
    <3>2. \A n \in Messages : n[1] \in Topics /\ n[2] \in Nat
      BY BoundsAssumption DEF Messages
    <3>3. OwedMessages' = OwedMessages
      BY <2>2, <3>1, <3>2 DEF OwedMessages, RedisTypeOK
    <3>4. \A n \in Messages : Delivered(n)' <=> Delivered(n)
      BY <2>2, <3>1, <3>2 DEF Delivered, RedisTypeOK
    <3>5. SettledMessages' = SettledMessages
      BY <3>1, <3>4 DEF SettledMessages, Settled, Pending
    <3> QED BY <3>3, <3>5
  <2> QED BY <2>1, <2>2
<1>4. ASSUME NEW c \in Names, GroupsExist, XReadGroupNew(c) PROVE Stutter
  <2>1. OwedMessages' = OwedMessages
    BY <1>4 DEF XReadGroupNew, OwedMessages
  <2>2. /\ \A m \in Msg : Delivered(m) => Delivered(m)'
        /\ \A m \in Msg : Settled(m)' =>
             \/ Settled(m)
             \/ \E p \in Procs : pc[p] = "ack" /\ m \in batch[p] /\ IsNext(p, m)
    BY <1>4, RedisKeeps DEF RedisCommand
  <2>3. ASSUME NEW m \in Msg, Settled(m) PROVE Settled(m)'
    <3>1. m \notin NewBatch
      BY <2>3 DEF Settled, Delivered, NewBatch, RedisTypeOK
    <3> QED BY <1>4, <2>2, <2>3, <3>1 DEF XReadGroupNew, Settled, Pending, RedisTypeOK
  <2>4. ASSUME NEW m \in Msg, Settled(m)' PROVE Settled(m)
    <3>1. m \notin NewBatch /\ ~Pending(m)
      BY <1>4, <2>4 DEF XReadGroupNew, Settled, Pending, RedisTypeOK
    <3>2. PICK t \in Topics, i \in Nat : m = <<t, i>>
      BY DEF Msg
    <3>3. i \notin (read[t] + 1) .. Upto(t)
      BY <3>1, <3>2 DEF NewBatch
    <3>4. Delivered(m)
      BY <1>4, <2>4, <3>2, <3>3, UptoBounds
         DEF XReadGroupNew, Settled, Delivered, RedisTypeOK, GroupsExist
    <3> QED BY <3>1, <3>4 DEF Settled
  <2> QED BY <2>1, <2>3, <2>4, MessagesAreMsg DEF SettledMessages
<1>5. ASSUME NEW p \in Procs, pc[p] = "ack", NEW x \in batch[p], IsNext(p, x), XAck(x)
      PROVE  Promise!Next
  <2>1. x \in Msg /\ Delivered(x) /\ x \in handled
    BY <1>5 DEF TypeOK, BatchDelivered, AckHandled
  <2>2. x \in Messages
    BY <2>1, DeliveredIsOwed DEF OwedMessages
  <2>3. OwedMessages' = OwedMessages
    BY <1>5 DEF XAck, OwedMessages
  <2>4. SettledMessages' = SettledMessages \cup {x}
    BY <1>5, <2>1, <2>2 DEF XAck, SettledMessages, Settled, Delivered, Pending
  <2>5. Promise!Settle(x)
    BY <2>1, <2>3, <2>4 DEF Promise!Settle
  <2> QED BY <2>2, <2>5 DEF Promise!Next
<1> QED BY <1>0, <1>1, <1>2, <1>3, <1>4, <1>5 DEF RedisCommand

\* Every step of the consumer is a step of AtLeastOnce or a stutter.
LEMMA PromiseStep ==
  ASSUME SafetyInv, [Next]_vars PROVE [Promise!Next]_(Promise!vars)
<1>1. CASE UNCHANGED handled
  BY <1>1, OneCommand, CommandMaps DEF SafetyInv
<1>2. ASSUME NEW p \in Procs, HandlerOk(p) PROVE [Promise!Next]_(Promise!vars)
  <2>1. PICK m \in batch[p] : handled' = handled \cup {m}
    BY <1>2 DEF HandlerOk
  <2>2. OwedMessages' = OwedMessages /\ SettledMessages' = SettledMessages
    BY <1>2 DEF HandlerOk, redis, OwedMessages, SettledMessages, Settled, Delivered, Pending
  <2>3. CASE m \in handled
    BY <2>1, <2>2, <2>3 DEF Promise!vars
  <2>4. CASE m \notin handled
    <3>1. m \in Msg /\ Delivered(m)
      BY DEF SafetyInv, TypeOK, BatchDelivered
    <3>2. m \in OwedMessages /\ m \in Messages
      BY <3>1, DeliveredIsOwed DEF OwedMessages
    <3>3. m \notin SettledMessages
      BY <2>4, <3>1 DEF SafetyInv, SettledHandled, SettledMessages
    <3> QED BY <2>1, <2>2, <3>2, <3>3 DEF Promise!Next, Promise!Handle
  <2> QED BY <2>3, <2>4
<1> QED BY <1>1, <1>2, HandledChanges

\* The initial state is one of AtLeastOnce.
LEMMA PromiseInit == Init => Promise!Init
BY DEF Init, RedisInit, Promise!Init, OwedMessages, SettledMessages, Settled, Delivered,
   Messages

\* The consumer implements its abstract specification: every step maps to a
\* step of AtLeastOnce or to a stutter (consumer.go:48-227).
THEOREM ConsumerKeepsPromise == Spec => KeepsPromise
<1> QED BY PromiseInit, PromiseStep, SafetyInvariant, PTL DEF Spec, KeepsPromise, Promise!Spec

-----------------------------------------------------------------------------
(* Shutdown and set-up of one process, whatever the others do.  ctx ends a *)
(* process after the batch in hand; the two ways in which this and the     *)
(* set-up of the groups can fail are the only ones.                        *)

Mine(p) == Start(p) \/ Progress(p) \/ Fault(p)

\* No other process writes what is local to p.
LEMMA OthersLeaveAlone ==
  ASSUME TypeOK, [Next]_vars, NEW p \in Procs, ~Mine(p)
  PROVE  /\ pc'[p] = pc[p] /\ batch'[p] = batch[p] /\ cancelled'[p] = cancelled[p]
         /\ deadline'[p] = deadline[p] /\ streamKeys'[p] = streamKeys[p]
<1> DEFINE Local == /\ pc'[p] = pc[p] /\ batch'[p] = batch[p]
                    /\ cancelled'[p] = cancelled[p] /\ deadline'[p] = deadline[p]
                    /\ streamKeys'[p] = streamKeys[p]
<1> USE DEF TypeOK, Goto
<1>1. ASSUME UNCHANGED vars \/ \E t \in Topics : Publish(t) PROVE Local
  BY <1>1 DEF vars, proc, Publish
<1> SUFFICES ASSUME NEW q \in Procs, q # p, Mine(q) PROVE Local
  BY <1>1 DEF Next, Mine
<1>2. ASSUME NEW code, Finish(q, code) PROVE Local
  BY <1>2 DEF Finish
<1>3. ASSUME ReadError(q) PROVE Local
  BY <1>2, <1>3 DEF ReadError
<1>4. ASSUME NEW t \in Topics, NextKey(q, t) PROVE Local
  BY <1>4 DEF NextKey
<1>5. ASSUME Start(q) PROVE Local
  BY <1>5 DEF Start
<1>6. ASSUME Check(q) \/ AckOk(q) PROVE Local
  BY <1>2, <1>6 DEF Check, AckOk, Acked
<1>7. ASSUME PendingReply(q) \/ PendingDrained(q) \/ NewReply(q) \/ HandlerOk(q)
      PROVE  Local
  BY <1>7 DEF PendingReply, PendingDrained, NewReply, StartBatch, HandlerOk
<1>8. ASSUME Signal(q) \/ DeadlineExpires(q) PROVE Local
  BY <1>8 DEF Signal, DeadlineExpires
<1>9. ASSUME Progress(q) PROVE Local
  BY <1>3, <1>4, <1>6, <1>7, <1>9 DEF Progress, Read, EnsureGroup, BlockTimeout, NoGroup
<1>10. ASSUME Fault(q) PROVE Local
  BY <1>2, <1>3, <1>4, <1>8, <1>10
     DEF Fault, EnsureGroupFails, ReadFails, NewReplyLost, HandlerError, AckFails,
     AckReplyLost, ForceExit, Kill
<1> QED BY <1>5, <1>9, <1>10 DEF Mine

\* What p itself does is one of seven things.
LEMMA MineCases ==
  ASSUME NEW p \in Procs, Mine(p)
  PROVE  \/ Start(p)
         \/ \E t \in Topics : EnsureGroup(p, t) \/ EnsureGroupFails(p, t)
         \/ \E code : pc[p] # "down" /\ Finish(p, code)
         \/ /\ pc[p] \in {"check", "wait"} /\ (pc[p] = "check" => ~cancelled[p])
            /\ Goto(p, IF pc[p] = "check" THEN "wait" ELSE "check")
            /\ UNCHANGED <<streamKeys, batch, cancelled, deadline>>
         \/ pc[p] = "wait" /\ \E msgs : StartBatch(p, msgs)
         \/ HandlerOk(p)
         \/ \E m \in batch[p] : pc[p] = "ack" /\ Acked(p, m) /\ ~Finish(p, "0")
         \/ Signal(p) \/ DeadlineExpires(p)
<1> DEFINE Moves == /\ pc[p] \in {"check", "wait"} /\ (pc[p] = "check" => ~cancelled[p])
                    /\ Goto(p, IF pc[p] = "check" THEN "wait" ELSE "check")
                    /\ UNCHANGED <<streamKeys, batch, cancelled, deadline>>
           Ends == \E code : pc[p] # "down" /\ Finish(p, code)
<1>1. ASSUME pc[p] = "wait", ReadError(p) PROVE Moves \/ Ends
  BY <1>1 DEF ReadError, Goto
<1>2. ASSUME Check(p) \/ PendingDrained(p) PROVE Moves \/ Ends
  BY <1>2 DEF Check, PendingDrained, Goto
<1>3. ASSUME AckOk(p)
      PROVE  Ends \/ \E m \in batch[p] : pc[p] = "ack" /\ Acked(p, m) /\ ~Finish(p, "0")
  BY <1>3 DEF AckOk
<1>4. ASSUME HandlerError(p) \/ AckFails(p) \/ AckReplyLost(p) \/ ForceExit(p) \/ Kill(p)
      PROVE  Ends
  BY <1>4 DEF HandlerError, AckFails, AckReplyLost, ForceExit, Kill
<1>5. ASSUME BlockTimeout(p) \/ NoGroup(p) \/ ReadFails(p) \/ NewReplyLost(p)
      PROVE  Moves \/ Ends
  BY <1>1, <1>5 DEF BlockTimeout, NoGroup, ReadFails, NewReplyLost
<1>6. ASSUME PendingReply(p) \/ NewReply(p)
      PROVE  pc[p] = "wait" /\ \E msgs : StartBatch(p, msgs)
  BY <1>6 DEF PendingReply, NewReply
<1> QED BY <1>2, <1>3, <1>4, <1>5, <1>6 DEF Mine, Progress, Read, Fault

\* A process whose ctx is done and that waits for no reply asks for none any
\* more, and its batch only gets smaller (consumer.go:46, 69, 118).
AsksForNothing(p) == pc'[p] # "wait" /\ batch'[p] \subseteq batch[p]
DrainIsFinal ==
  [][\A p \in Procs :
       cancelled[p] /\ pc[p] \notin {"down", "wait"} => AsksForNothing(p)]_vars

\* ctx stops the reading for good, up to the next start of the process
\* (consumer.go:69, 118, 150-154, 190-227).
THEOREM SignalledReadsNoMore == Spec => DrainIsFinal
<1>1. ASSUME TypeOK, [Next]_vars, NEW p \in Procs,
             cancelled[p], pc[p] \notin {"down", "wait"}
      PROVE  AsksForNothing(p)
  <2> USE DEF TypeOK, AsksForNothing, Goto
  <2>1. CASE ~Mine(p)
    BY <1>1, <2>1, OthersLeaveAlone
  <2>2. CASE Start(p)
    BY <1>1, <2>2 DEF Start
  <2>3. ASSUME NEW t \in Topics, NextKey(p, t) PROVE AsksForNothing(p)
    BY <1>1, <2>3 DEF NextKey
  <2>4. ASSUME NEW code, Finish(p, code) PROVE AsksForNothing(p)
    BY <1>1, <2>4 DEF Finish
  <2>5. CASE HandlerOk(p)
    BY <1>1, <2>5 DEF HandlerOk
  <2>6. ASSUME NEW m \in batch[p], Acked(p, m), ~Finish(p, "0") PROVE AsksForNothing(p)
    BY <1>1, <2>6 DEF Acked
  <2>7. CASE Signal(p) \/ DeadlineExpires(p)
    BY <1>1, <2>7 DEF Signal, DeadlineExpires
  <2> QED BY <1>1, <2>1, <2>2, <2>3, <2>4, <2>5, <2>6, <2>7, MineCases
         DEF EnsureGroup, EnsureGroupFails
<1>2. TypeOK /\ [Next]_vars =>
        [\A p \in Procs :
           cancelled[p] /\ pc[p] \notin {"down", "wait"} => AsksForNothing(p)]_vars
  BY <1>1
<1> QED BY <1>2, TypeCorrect, PTL DEF Spec, DrainIsFinal

\* A signal that comes while no batch is in hand.
SignalsBetweenBatches ==
  [][\A p \in Procs : Signal(p) => pc[p] \notin {"handle", "ack"}]_vars

\* The one cause of a drain without a deadline is a signal in the middle of a
\* batch: a batch that begins after the signal always has one
\* (consumer.go:190-196).
THEOREM DeadlineIsOnlyMissedInBatch ==
  Spec /\ SignalsBetweenBatches => []DrainHasDeadline
<1> DEFINE Early == \A p \in Procs : Signal(p) => pc[p] \notin {"handle", "ack"}
           Drains(p) == cancelled[p] /\ pc[p] \in {"handle", "ack"} => deadline[p] # "none"
<1>1. Init => DrainHasDeadline
  BY DEF Init, DrainHasDeadline
<1>2. ASSUME TypeOK, DrainHasDeadline, [Next]_vars, Early, NEW p \in Procs
      PROVE  Drains(p)'
  <2> USE DEF TypeOK, Goto
  <2>0. Drains(p)
    BY <1>2 DEF DrainHasDeadline
  <2>1. CASE ~Mine(p)
    BY <1>2, <2>0, <2>1, OthersLeaveAlone
  <2>2. CASE Start(p)
    BY <1>2, <2>2 DEF Start
  <2>3. ASSUME NEW t \in Topics, NextKey(p, t) PROVE Drains(p)'
    BY <1>2, <2>3 DEF NextKey
  <2>4. ASSUME NEW code, Finish(p, code) PROVE Drains(p)'
    BY <1>2, <2>4 DEF Finish
  <2>5. ASSUME Goto(p, "wait") \/ Goto(p, "check") PROVE Drains(p)'
    BY <1>2, <2>5
  <2>6. ASSUME NEW msgs, StartBatch(p, msgs) PROVE Drains(p)'
    BY <1>2, <2>6 DEF StartBatch
  <2>7. CASE HandlerOk(p)
    BY <1>2, <2>0, <2>7 DEF HandlerOk
  <2>8. ASSUME NEW m \in batch[p], pc[p] = "ack", Acked(p, m), ~Finish(p, "0")
        PROVE  Drains(p)'
    BY <1>2, <2>0, <2>8 DEF Acked
  <2>9. CASE Signal(p)
    BY <1>2, <2>9 DEF Signal
  <2>10. CASE DeadlineExpires(p)
    BY <1>2, <2>10 DEF DeadlineExpires
  <2> QED BY <1>2, <2>1, <2>2, <2>3, <2>4, <2>5, <2>6, <2>7, <2>8, <2>9, <2>10, MineCases
         DEF EnsureGroup, EnsureGroupFails
<1>3. TypeOK /\ DrainHasDeadline /\ [Next]_vars /\ [Early]_vars => DrainHasDeadline'
  <2>1. CASE UNCHANGED vars
    BY <2>1 DEF vars, proc, DrainHasDeadline
  <2> QED BY <1>2, <2>1 DEF DrainHasDeadline
<1> QED BY <1>1, <1>3, TypeCorrect, PTL DEF Spec, SignalsBetweenBatches

\* XGROUP CREATE fails, if at all, where the group exists already.
GroupCallsSucceed ==
  [][\A p \in Procs, t \in Topics : EnsureGroupFails(p, t) => grp[t]]_vars

\* What ensureGroup leaves behind: the topics it went through have a group,
\* and a process that reads went through all of them.
KeysHaveGroups ==
  \A p \in Procs :
    /\ pc[p] # "down" => \A t \in Ensured(p) : grp[t]
    /\ pc[p] \notin {"down", "ensure"} => GroupsExist

\* The one cause of a consumer without groups is a failed XGROUP CREATE: with
\* no such failure a process that reads finds every group there, NOGROUP is
\* never answered, and no later step takes a group away
\* (consumer.go:40, 50-54, 229-240).
THEOREM GroupsOnlyMissAfterFailure == Spec /\ GroupCallsSucceed => []KeysHaveGroups
<1> DEFINE Works == \A p \in Procs, t \in Topics : EnsureGroupFails(p, t) => grp[t]
<1>1. Init => KeysHaveGroups
  BY DEF Init, KeysHaveGroups
<1>2. ASSUME TypeOK, [Next]_vars, NEW t \in Topics, grp[t] PROVE grp'[t]
  BY <1>2, OneCommand
     DEF RedisCommand, redis, XAdd, XGroupCreate, XReadGroupNew, XAck, TypeOK, RedisTypeOK
<1>3. ASSUME TypeOK, KeysHaveGroups, [Next]_vars, Works, NEW p \in Procs,
             pc'[p] # "down"
      PROVE  /\ \A t \in Ensured(p)' : grp'[t]
             /\ pc'[p] # "ensure" => GroupsExist'
  <2> USE DEF TypeOK, Goto
  <2>0. Ensured(p) \subseteq Topics
    BY <1>3 DEF Ensured
  <2>1. ASSUME pc[p] # "down", streamKeys'[p] = streamKeys[p],
               pc[p] = "ensure" => pc'[p] = "ensure"
        PROVE  /\ \A t \in Ensured(p)' : grp'[t]
               /\ pc'[p] # "ensure" => GroupsExist'
    <3>1. Ensured(p)' = Ensured(p)
      BY <2>1 DEF Ensured
    <3> QED BY <1>2, <1>3, <2>0, <2>1, <3>1 DEF KeysHaveGroups, GroupsExist
  <2>2. CASE ~Mine(p)
    BY <1>3, <2>1, <2>2, OthersLeaveAlone
  <2>3. CASE Start(p)
    <3>1. pc'[p] = "ensure" /\ streamKeys'[p] = <<>>
      BY <1>3, <2>3 DEF Start
    <3> QED BY <3>1 DEF Ensured
  <2>4. ASSUME NEW t \in Topics, NextKey(p, t), grp'[t]
        PROVE  /\ \A u \in Ensured(p)' : grp'[u]
               /\ pc'[p] # "ensure" => GroupsExist'
    <3> DEFINE s == streamKeys[p]
    <3>1. s \in Seq(Topics) /\ streamKeys'[p] = Append(s, t)
      BY <1>3, <2>4 DEF NextKey
    <3>2. Ensured(p)' = Ensured(p) \cup {t}
      <4>1. /\ DOMAIN Append(s, t) = 1 .. (Len(s) + 1) /\ DOMAIN s = 1 .. Len(s)
            /\ Len(s) \in Nat
            /\ \A k \in 1 .. Len(s) : Append(s, t)[k] = s[k]
            /\ Append(s, t)[Len(s) + 1] = t
        BY <3>1
      <4>2. Ensured(p)' = {Append(s, t)[i] : i \in DOMAIN Append(s, t)}
        BY <3>1 DEF Ensured
      <4>3. Ensured(p) = {s[i] : i \in DOMAIN s}
        BY DEF Ensured
      <4> HIDE DEF s
      <4> QED BY <4>1, <4>2, <4>3
    <3>3. pc[p] = "ensure" /\ \A u \in Ensured(p) : grp'[u]
      BY <1>2, <1>3, <2>0, <2>4 DEF NextKey, KeysHaveGroups
    <3>4. pc'[p] # "ensure" => Topics \subseteq Ensured(p) \cup {t}
      BY <1>3, <2>4 DEF NextKey
    <3> QED BY <2>4, <3>2, <3>3, <3>4 DEF GroupsExist
  <2>5. ASSUME NEW t \in Topics, EnsureGroup(p, t) \/ EnsureGroupFails(p, t)
        PROVE  NextKey(p, t) /\ grp'[t]
    <3>1. CASE EnsureGroup(p, t)
      BY <1>3, <3>1 DEF EnsureGroup, XGroupCreate, redis, RedisTypeOK
    <3>2. CASE EnsureGroupFails(p, t)
      BY <1>2, <1>3, <3>2 DEF EnsureGroupFails
    <3> QED BY <2>5, <3>1, <3>2
  <2>6. ASSUME NEW code, Finish(p, code) PROVE FALSE
    BY <1>3, <2>6 DEF Finish
  <2>7. ASSUME pc[p] \notin {"down", "ensure"}, streamKeys'[p] = streamKeys[p]
        PROVE  /\ \A t \in Ensured(p)' : grp'[t]
               /\ pc'[p] # "ensure" => GroupsExist'
    BY <2>1, <2>7
  <2> QED
    BY <1>3, <2>1, <2>2, <2>3, <2>4, <2>5, <2>6, <2>7, MineCases
    DEF StartBatch, HandlerOk, Acked, Signal, DeadlineExpires
<1>4. TypeOK /\ KeysHaveGroups /\ [Next]_vars /\ [Works]_vars => KeysHaveGroups'
  <2>1. CASE UNCHANGED vars
    BY <2>1 DEF vars, proc, redis, KeysHaveGroups, Ensured, GroupsExist
  <2> QED BY <1>3, <2>1 DEF KeysHaveGroups
<1> QED BY <1>1, <1>4, TypeCorrect, PTL DEF Spec, GroupCallsSucceed
=============================================================================
