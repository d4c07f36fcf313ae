--------------------- MODULE EventConsumerOwnNameProofs ---------------------
(***************************************************************************)
(* What EventConsumer guarantees when every process has a consumer name of *)
(* its own (OwnName): the properties that fail as soon as two processes    *)
(* share one.                                                              *)
(***************************************************************************)
EXTENDS EventConsumerProofs

PelDisjoint == \A c, d \in Names : c # d => pel[c] \cap pel[d] = {}

Older(m, n) == n[1] = m[1] /\ n[2] < m[2]

\* All there is to know of one process and the PEL of its name.  The batch is
\* closed under older pending messages of its topics, lost replies excepted;
\* the pending loop has no lost replies behind it; an exit code means down.
Slot(p) ==
  LET owes == pel[NameOf[p]]
      gone == lost[NameOf[p]]
  IN  /\ batch[p] \subseteq owes
      /\ \A m \in batch[p] : \A n \in owes \ gone : Older(m, n) => n \in batch[p]
      /\ pc[p] # "down" /\ mode[p] = "new" =>
           owes = batch[p] \cup gone /\ batch[p] \cap gone = {}
      /\ pc[p] # "down" /\ mode[p] = "pending" => gone = {}
      /\ exit[p] # "none" => pc[p] = "down"
      /\ exit[p] = "0" /\ mode[p] = "new" => owes \subseteq gone

OwnNameInv == SafetyInv /\ PelDisjoint /\ \A p \in Procs : Slot(p)

\* A non-empty set of naturals has a least element.
LEMMA LeastNat ==
  ASSUME NEW T \in SUBSET Nat, T # {}
  PROVE  \E x \in T : \A y \in T : x <= y
<1>1. PICK x \in T : \A y \in T : <<y, x>> \notin OpToRel(<, Nat)
  BY NatLessThanWellFounded, WFMin
<1>2. \A y \in T : ~(y < x)
  BY <1>1 DEF OpToRel
<1> QED BY <1>2

\* The older pending messages of m's topic are finitely many.
LEMMA OlderFinite ==
  ASSUME RedisTypeOK, NEW c \in Names, NEW m \in pel[c]
  PROVE  IsFiniteSet({n \in pel[c] : n[1] = m[1] /\ n[2] < m[2]})
<1> DEFINE S == {n \in pel[c] : n[1] = m[1] /\ n[2] < m[2]}
<1>1. m \in Msg /\ pel[c] \subseteq Msg
  BY DEF RedisTypeOK
<1>2. m[1] \in Topics /\ m[2] \in Nat
  BY <1>1 DEF Msg
<1>3. IsFiniteSet({m[1]} \X (1 .. m[2]))
  <2>1. IsFiniteSet({m[1]})
    BY FS_Singleton
  <2>2. IsFiniteSet(1 .. m[2])
    BY <1>2, FS_Interval
  <2> QED BY <2>1, <2>2, FS_Product
<1>4. S \subseteq {m[1]} \X (1 .. m[2])
  BY <1>1, <1>2 DEF Msg
<1> QED BY <1>3, <1>4, FS_Subset

\* XREADGROUP with id 0 answers empty only if nothing is pending
\* (consumer.go:100-103).
LEMMA EmptyHistory ==
  ASSUME RedisTypeOK, NEW c \in Names, PendingBatch(c) = {}
  PROVE  pel[c] = {}
<1> SUFFICES ASSUME NEW m \in pel[c] PROVE FALSE
  OBVIOUS
<1>1. pel[c] \subseteq Msg
  BY DEF RedisTypeOK
<1> DEFINE Ids == {i \in Nat : <<m[1], i>> \in pel[c]}
<1>2. m = <<m[1], m[2]>> /\ m[2] \in Ids
  BY <1>1 DEF Msg
<1>3. PICK i \in Ids : \A j \in Ids : i <= j
  BY <1>2, LeastNat
<1> DEFINE x == <<m[1], i>>
<1>4. {n \in pel[c] : n[1] = x[1] /\ n[2] < x[2]} = {}
  <2> SUFFICES ASSUME NEW n \in pel[c], n[1] = x[1], n[2] < x[2] PROVE FALSE
    OBVIOUS
  <2>1. n = <<n[1], n[2]>> /\ n[2] \in Nat
    BY <1>1 DEF Msg
  <2>2. n[2] \in Ids
    BY <2>1
  <2> QED BY <1>3, <2>1, <2>2
<1>5. Cardinality({n \in pel[c] : n[1] = x[1] /\ n[2] < x[2]}) = 0
  BY <1>4, FS_EmptySet
<1>6. x \in PendingBatch(c)
  BY <1>5, BatchSizeAssumption DEF PendingBatch
<1> QED BY <1>6

\* It returns the oldest messages of each topic.
LEMMA HistoryIsOldest ==
  ASSUME RedisTypeOK, NEW c \in Names, NEW m \in PendingBatch(c),
         NEW n \in pel[c], Older(m, n)
  PROVE  n \in PendingBatch(c)
<1> DEFINE S(x) == {y \in pel[c] : y[1] = x[1] /\ y[2] < x[2]}
<1>1. m \in pel[c] /\ pel[c] \subseteq Msg
  BY DEF RedisTypeOK, PendingBatch
<1>2. \A y \in pel[c] : y[2] \in Nat
  BY <1>1 DEF Msg
<1>3. S(n) \subseteq S(m)
  BY <1>1, <1>2 DEF Older
<1>4. IsFiniteSet(S(m)) /\ IsFiniteSet(S(n))
  BY <1>1, OlderFinite
<1>5. Cardinality(S(n)) <= Cardinality(S(m))
  BY <1>3, <1>4, FS_Subset
<1>6. Cardinality(S(n)) \in Nat /\ Cardinality(S(m)) \in Nat
  BY <1>4, FS_CardinalityType
<1>7. Cardinality(S(m)) < BatchSize
  BY DEF PendingBatch
<1>8. Cardinality(S(n)) < BatchSize
  BY <1>5, <1>6, <1>7, BatchSizeAssumption
<1> QED BY <1>8 DEF PendingBatch

-----------------------------------------------------------------------------
(* The inductive invariant.                                                *)

\* A ">" read delivers messages that are in no PEL yet.
LEMMA NewBatchIsNew ==
  ASSUME TypeOK, PelDelivered, NEW c \in Names
  PROVE  NewBatch \cap pel[c] = {}
<1> SUFFICES ASSUME NEW t \in Topics, NEW i \in (read[t] + 1) .. Upto(t),
                    <<t, i>> \in pel[c]
             PROVE  FALSE
  BY DEF NewBatch
<1>1. i <= read[t]
  BY DEF PelDelivered, Delivered
<1> QED BY <1>1, ReplyTypes DEF TypeOK, RedisTypeOK

\* No command puts a message into two PELs.
LEMMA PelDisjointStep ==
  ASSUME TypeOK, PelDelivered, PelDisjoint, RedisCommand PROVE PelDisjoint'
<1>1. ASSUME UNCHANGED pel PROVE PelDisjoint'
  BY <1>1 DEF PelDisjoint
<1>2. ASSUME NEW c \in Names, XReadGroupNew(c) PROVE PelDisjoint'
  BY <1>2, NewBatchIsNew DEF XReadGroupNew, PelDisjoint, TypeOK, RedisTypeOK
<1>3. ASSUME NEW m, XAck(m) PROVE PelDisjoint'
  BY <1>3 DEF XAck, PelDisjoint
<1> QED BY <1>1, <1>2, <1>3 DEF RedisCommand, XAdd, XGroupCreate, redis

\* A step of p leaves alone what belongs to another process: an XACK removes a
\* message of p's own PEL, which is disjoint from the others.
OwnSlot(p) == <<pc[p], mode[p], batch[p], exit[p], pel[NameOf[p]], lost[NameOf[p]]>>

\* With own names, a step of one process leaves the slot of another as it is.
LEMMA OthersUntouched ==
  ASSUME OwnName, OwnNameInv, NEW p \in Procs, NEW q \in Procs, p # q,
         Start(p) \/ Progress(p) \/ Fault(p)
  PROVE  UNCHANGED OwnSlot(q)
<1> DEFINE c == NameOf[p]
           d == NameOf[q]
<1>1. c \in Names /\ d \in Names /\ c # d
  BY NameOfAssumption DEF OwnName
<1> USE DEF OwnNameInv, SafetyInv, TypeOK, RedisTypeOK, OwnSlot
<1>2. ASSUME NEW m \in batch[p], XAck(m) PROVE pel'[d] = pel[d]
  <2>1. m \in pel[c]
    BY DEF Slot
  <2>2. m \notin pel[d]
    BY <1>1, <2>1 DEF PelDisjoint
  <2> QED BY <1>1, <1>2, <2>2 DEF XAck
<1>3. ASSUME XReadGroupNew(c) PROVE pel'[d] = pel[d]
  BY <1>1, <1>3 DEF XReadGroupNew
<1>4. ASSUME NEW code, Finish(p, code)
      PROVE  UNCHANGED <<pc[q], mode[q], batch[q], exit[q]>>
  BY <1>4 DEF Finish, Goto
<1>5. ASSUME ReadError(p) PROVE UNCHANGED <<pc[q], mode[q], batch[q], exit[q]>>
  BY <1>4, <1>5 DEF ReadError, Goto
<1>6. ASSUME NEW msgs, StartBatch(p, msgs)
      PROVE  UNCHANGED <<pc[q], mode[q], batch[q], exit[q], lost>>
  BY <1>6 DEF StartBatch, Goto
<1>7. ASSUME NEW t \in Topics, NextKey(p, t)
      PROVE  UNCHANGED <<pc[q], mode[q], batch[q], exit[q], lost>>
  BY <1>7 DEF NextKey, Goto
<1>8. CASE Start(p)
  BY <1>1, <1>8 DEF Start, Goto, redis
<1>9. CASE \E t \in Topics : EnsureGroup(p, t) \/ EnsureGroupFails(p, t)
  BY <1>7, <1>9 DEF EnsureGroup, EnsureGroupFails, XGroupCreate, redis
<1>10. CASE Check(p)
  BY <1>4, <1>10 DEF Check, Goto, redis
<1>11. CASE PendingReply(p) \/ PendingDrained(p)
  BY <1>6, <1>11 DEF PendingReply, PendingDrained, Goto, redis
<1>12. CASE NewReply(p)
  BY <1>3, <1>6, <1>12 DEF NewReply
<1>13. CASE BlockTimeout(p) \/ NoGroup(p) \/ ReadFails(p)
  BY <1>5, <1>13 DEF BlockTimeout, NoGroup, ReadFails, redis
<1>14. CASE NewReplyLost(p)
  BY <1>1, <1>3, <1>5, <1>14 DEF NewReplyLost
<1>15. CASE HandlerOk(p)
  BY <1>15 DEF HandlerOk, Goto, redis
<1>16. CASE HandlerError(p) \/ AckFails(p) \/ ForceExit(p) \/ Kill(p)
  BY <1>4, <1>16 DEF HandlerError, AckFails, ForceExit, Kill, redis
<1>17. CASE AckOk(p)
  <2>1. PICK m \in batch[p] : XAck(m) /\ Acked(p, m)
    BY <1>17 DEF AckOk
  <2>2. UNCHANGED <<pc[q], mode[q], batch[q], exit[q]>>
    BY <1>4, <2>1 DEF Acked, Goto
  <2> QED BY <1>2, <1>17, <2>1, <2>2 DEF AckOk
<1>18. CASE AckReplyLost(p)
  BY <1>2, <1>4, <1>18 DEF AckReplyLost
<1>19. CASE Signal(p) \/ DeadlineExpires(p)
  BY <1>19 DEF Signal, DeadlineExpires, redis
<1> QED
  BY <1>8, <1>9, <1>10, <1>11, <1>12, <1>13, <1>14, <1>15, <1>16, <1>17, <1>18, <1>19
     DEF Progress, Read, Fault

\* A process that goes on running with the same batch.
LEMMA RunningSlot ==
  ASSUME NEW p \in Procs, Slot(p), pc[p] # "down", pc'[p] # "down",
         UNCHANGED <<mode[p], batch[p], exit[p], pel[NameOf[p]], lost[NameOf[p]]>>
  PROVE  Slot(p)'
BY DEF Slot

\* A process that ends, with code "0" only between two batches.
LEMMA FinishSlot ==
  ASSUME TypeOK, NEW p \in Procs, Slot(p), pc[p] # "down", NEW code, Finish(p, code),
         code = "0" => batch[p] = {},
         pel'[NameOf[p]] \subseteq pel[NameOf[p]], UNCHANGED lost[NameOf[p]]
  PROVE  Slot(p)'
<1>1. /\ pc'[p] = "down" /\ batch'[p] = {} /\ exit'[p] = code /\ mode'[p] = mode[p]
  BY DEF Finish, Goto, TypeOK
<1>2. code = "0" /\ mode[p] = "new" => pel[NameOf[p]] \subseteq lost[NameOf[p]]
  BY DEF Slot
<1> QED BY <1>1, <1>2 DEF Slot

\* A failed read keeps the slot (consumer.go:137-148).
LEMMA ReadErrorSlot ==
  ASSUME TypeOK, NEW p \in Procs, Slot(p), pc[p] = "wait", ReadError(p),
         UNCHANGED <<pel[NameOf[p]], lost[NameOf[p]]>>
  PROVE  Slot(p)'
<1>1. batch[p] = {}
  BY DEF TypeOK
<1>2. CASE cancelled[p]
  BY <1>1, <1>2, FinishSlot DEF ReadError
<1>3. CASE ~cancelled[p]
  BY <1>3, RunningSlot DEF ReadError, Goto, TypeOK
<1> QED BY <1>2, <1>3

\* An acknowledgement takes one message from the batch and from the PEL.
LEMMA AckSlot ==
  ASSUME OwnNameInv, NEW p \in Procs, AckOk(p) PROVE Slot(p)'
<1> DEFINE c == NameOf[p]
<1> c \in Names BY NameOfAssumption
<1> USE DEF OwnNameInv, SafetyInv
<1>1. PICK m \in batch[p] : IsNext(p, m) /\ XAck(m) /\ Acked(p, m)
  BY DEF AckOk
<1>2. /\ pel'[c] = pel[c] \ {m} /\ lost' = lost /\ pc[p] = "ack"
      /\ exit[p] = "none"
  BY <1>1 DEF AckOk, XAck, Slot
<1>3. CASE batch[p] = {m} /\ cancelled[p]
  <2>1. /\ pc'[p] = "down" /\ batch'[p] = {} /\ exit'[p] = "0" /\ mode'[p] = mode[p]
    BY <1>1, <1>3 DEF Acked, Finish, Goto, TypeOK
  <2> QED BY <1>2, <1>3, <2>1 DEF Slot
<1>4. CASE ~(batch[p] = {m} /\ cancelled[p])
  <2>1. /\ pc'[p] # "down" /\ mode'[p] = mode[p] /\ exit'[p] = exit[p]
        /\ batch'[p] = batch[p] \ {m}
    BY <1>1, <1>4 DEF Acked, Goto, TypeOK
  <2> QED BY <1>2, <2>1 DEF Slot
<1> QED BY <1>3, <1>4

\* A process keeps its own slot.
LEMMA OwnSlotStep ==
  ASSUME OwnNameInv, NEW p \in Procs, Start(p) \/ Progress(p) \/ Fault(p)
  PROVE  Slot(p)'
<1> DEFINE c == NameOf[p]
<1> c \in Names BY NameOfAssumption
<1> USE DEF OwnNameInv, SafetyInv, TypeOK
<1>1. CASE Start(p)
  <2>1. batch[p] = {}
    BY <1>1 DEF Start
  <2>2. /\ pc'[p] = "ensure" /\ mode'[p] = "pending" /\ exit'[p] = "none"
        /\ lost'[c] = {} /\ batch'[p] = {} /\ pel' = pel
    BY <1>1, <2>1 DEF Start, Goto, redis
  <2> QED BY <2>2 DEF Slot
<1>2. CASE \E t \in Topics : EnsureGroup(p, t) \/ EnsureGroupFails(p, t)
  BY <1>2, RunningSlot
     DEF EnsureGroup, EnsureGroupFails, NextKey, Goto, XGroupCreate, redis
<1>3. CASE Check(p)
  <2>1. CASE cancelled[p]
    BY <1>3, <2>1, FinishSlot DEF Check, redis
  <2>2. CASE ~cancelled[p]
    BY <1>3, <2>2, RunningSlot DEF Check, Goto, redis
  <2> QED BY <2>1, <2>2
<1>4. CASE PendingReply(p)
  <2>1. /\ pc[p] = "wait" /\ pc'[p] = "handle" /\ mode[p] = "pending" /\ mode' = mode
        /\ exit' = exit /\ pel' = pel /\ lost' = lost /\ batch'[p] = PendingBatch(c)
    BY <1>4 DEF PendingReply, StartBatch, Goto, redis
  <2>2. PendingBatch(c) \subseteq pel[c]
    BY DEF PendingBatch
  <2>3. \A m \in PendingBatch(c) : \A n \in pel[c] : Older(m, n) => n \in PendingBatch(c)
    BY HistoryIsOldest
  <2> QED BY <2>1, <2>2, <2>3 DEF Slot
<1>5. CASE PendingDrained(p)
  <2>1. pel[c] = {}
    BY <1>5, EmptyHistory DEF PendingDrained
  <2>2. /\ pc[p] = "wait" /\ pc'[p] = "check" /\ mode[p] = "pending" /\ mode'[p] = "new"
        /\ exit' = exit /\ pel' = pel /\ lost' = lost /\ batch' = batch
    BY <1>5 DEF PendingDrained, Goto, redis
  <2> QED BY <2>1, <2>2 DEF Slot
<1>6. CASE NewReply(p)
  <2>1. /\ pc[p] = "wait" /\ pc'[p] = "handle" /\ mode[p] = "new" /\ mode' = mode
        /\ exit' = exit /\ lost' = lost /\ batch'[p] = NewBatch
        /\ pel'[c] = pel[c] \cup NewBatch
    BY <1>6 DEF NewReply, StartBatch, Goto, XReadGroupNew, RedisTypeOK
  <2>2. batch[p] = {} /\ NewBatch \cap pel[c] = {}
    BY <2>1, NewBatchIsNew
  <2> QED BY <2>1, <2>2 DEF Slot
<1>7. CASE BlockTimeout(p) \/ NoGroup(p) \/ ReadFails(p)
  BY <1>7, ReadErrorSlot DEF BlockTimeout, NoGroup, ReadFails, redis
<1>8. CASE NewReplyLost(p)
  <2>1. /\ pc[p] = "wait" /\ mode[p] = "new" /\ batch[p] = {}
        /\ lost'[c] = lost[c] \cup NewBatch /\ pel'[c] = pel[c] \cup NewBatch
    BY <1>8 DEF NewReplyLost, XReadGroupNew, RedisTypeOK
  <2>2. /\ mode'[p] = mode[p] /\ batch'[p] = {}
        /\ \/ pc'[p] = "down" /\ exit'[p] = "0"
           \/ pc'[p] = "check" /\ exit'[p] = exit[p]
    BY <1>8, <2>1 DEF NewReplyLost, ReadError, Finish, Goto
  <2>3. pel[c] = batch[p] \cup lost[c] /\ exit[p] = "none"
    <3>1. Slot(p)
      OBVIOUS
    <3> QED BY <2>1, <3>1, Zenon DEF Slot
  <2>4. pel'[c] = lost'[c]
    BY <2>1, <2>3
  <2>5. CASE pc'[p] = "down" /\ exit'[p] = "0"
    BY <2>2, <2>4, <2>5 DEF Slot
  <2>6. CASE pc'[p] = "check" /\ exit'[p] = exit[p]
    BY <2>1, <2>2, <2>3, <2>4, <2>6 DEF Slot
  <2> QED BY <2>2, <2>5, <2>6
<1>9. CASE HandlerOk(p)
  BY <1>9, RunningSlot DEF HandlerOk, Goto, redis
<1>10. CASE HandlerError(p) \/ AckFails(p) \/ ForceExit(p)
  BY <1>10, FinishSlot DEF HandlerError, AckFails, ForceExit, redis
<1>11. CASE Kill(p)
  BY <1>11, FinishSlot DEF Kill, redis
<1>12. CASE AckOk(p)
  BY <1>12, AckSlot
<1>13. CASE AckReplyLost(p)
  BY <1>13, FinishSlot DEF AckReplyLost, XAck
<1>14. CASE Signal(p) \/ DeadlineExpires(p)
  <2>1. UNCHANGED OwnSlot(p)
    BY <1>14 DEF Signal, DeadlineExpires, OwnSlot, redis
  <2> QED BY <2>1 DEF OwnSlot, Slot
<1> QED
  BY <1>1, <1>2, <1>3, <1>4, <1>5, <1>6, <1>7, <1>8, <1>9, <1>10, <1>11, <1>12, <1>13,
     <1>14 DEF Progress, Read, Fault

\* Before the first start every slot is empty.
LEMMA OwnNameInit == Init => OwnNameInv
<1> SUFFICES ASSUME Init PROVE OwnNameInv
  OBVIOUS
<1>1. SafetyInv
  BY SafetyInit
<1>2. PelDisjoint /\ \A p \in Procs : Slot(p)
  BY NameOfAssumption DEF Init, RedisInit, PelDisjoint, Slot
<1> QED BY <1>1, <1>2 DEF OwnNameInv

\* Every step keeps the invariant of processes with own names.
LEMMA OwnNameStep ==
  ASSUME OwnName PROVE OwnNameInv /\ [Next]_vars => OwnNameInv'
<1> SUFFICES ASSUME OwnNameInv, [Next]_vars PROVE OwnNameInv'
  OBVIOUS
<1>1. SafetyInv'
  BY SafetyStep DEF OwnNameInv
<1>2. PelDisjoint'
  BY OneCommand, PelDisjointStep DEF OwnNameInv, SafetyInv
<1>3. ASSUME NEW q \in Procs, UNCHANGED OwnSlot(q) PROVE Slot(q)'
  BY <1>3 DEF OwnNameInv, OwnSlot, Slot
<1>4. ASSUME NEW q \in Procs PROVE Slot(q)'
  <2>1. ASSUME NEW t \in Topics, Publish(t) PROVE UNCHANGED OwnSlot(q)
    BY <2>1 DEF Publish, XAdd, proc, OwnSlot
  <2>2. ASSUME NEW p \in Procs, Start(p) \/ Progress(p) \/ Fault(p) PROVE Slot(q)'
    BY <1>3, <2>2, OwnSlotStep, OthersUntouched
  <2>3. ASSUME UNCHANGED vars PROVE UNCHANGED OwnSlot(q)
    BY <2>3 DEF vars, redis, proc, OwnSlot
  <2> QED BY <1>3, <2>1, <2>2, <2>3 DEF Next
<1> QED BY <1>1, <1>2, <1>4 DEF OwnNameInv

\* With own names the invariant holds in every reachable state.
LEMMA OwnNameInvariant ==
  ASSUME OwnName PROVE Spec => []OwnNameInv
<1> QED BY OwnNameInit, OwnNameStep, PTL DEF Spec

-----------------------------------------------------------------------------
(* The theorems.                                                           *)

\* With a name per process, no handler runs on an acknowledged message
\* (consumer.go:199-224).
THEOREM NothingHandledAfterAck ==
  ASSUME OwnName PROVE Spec => []HandlesOnlyPending
<1>1. OwnNameInv => HandlesOnlyPending
  BY DEF OwnNameInv, Slot, HandlesOnlyPending
<1> QED BY <1>1, OwnNameInvariant, PTL

\* The new-message loop owes its batch and the lost replies, nothing else
\* (consumer.go:60-65, 117-159).
THEOREM NewLoopAccounting ==
  ASSUME OwnName PROVE Spec => []NewLoopOwesItsBatch
<1>1. OwnNameInv => NewLoopOwesItsBatch
  BY DEF OwnNameInv, Slot, NewLoopOwesItsBatch
<1> QED BY <1>1, OwnNameInvariant, PTL

\* A graceful exit of the new-message loop leaves only lost replies pending
\* (consumer.go:46, 154-157).
THEOREM GracefulExit ==
  ASSUME OwnName PROVE Spec => []GracefulExitDrained
<1>1. OwnNameInv => GracefulExitDrained
  BY DEF OwnNameInv, Slot, GracefulExitDrained
<1> QED BY <1>1, OwnNameInvariant, PTL

\* Messages of a topic are first handled in stream order, across errors and
\* restarts (consumer.go:59-65, 214).
THEOREM InOrder ==
  ASSUME OwnName PROVE Spec => HandledInOrder
<1>1. ASSUME OwnNameInv, [Next]_vars, NEW p \in Procs,
             NEW m \in handled' \ handled, m \in batch[p],
             NEW n \in pel[NameOf[p]] \ lost[NameOf[p]], Older(m, n)
      PROVE  n \in handled
  <2> USE DEF OwnNameInv, SafetyInv
  <2>1. PICK q \in Procs : HandlerOk(q)
    BY <1>1, HandledChanges
  <2>2. PICK x \in batch[q] : IsNext(q, x) /\ handled' = handled \cup {x}
    BY <2>1 DEF HandlerOk
  <2>3. x = m
    BY <1>1, <2>2
  <2>4. q = p
    <3>1. m \in pel[NameOf[p]] /\ m \in pel[NameOf[q]]
      BY <1>1, <2>2, <2>3 DEF Slot
    <3>2. NameOf[p] = NameOf[q]
      BY <1>1, <3>1, NameOfAssumption DEF PelDisjoint
    <3> QED BY <3>2 DEF OwnName
  <2>5. n \in batch[p]
    BY <1>1 DEF Slot
  <2>6. n # m
    <3>1. m \in Msg
      BY <1>1 DEF TypeOK
    <3> QED BY <1>1, <3>1 DEF Older, Msg
  <2>7. Before(p, m, n)
    BY <2>2, <2>3, <2>4, <2>5, <2>6 DEF IsNext
  <2>8. n[2] \in Nat /\ m[2] \in Nat
    BY <1>1, <2>5 DEF TypeOK, Msg
  <2>9. \A i, j \in DOMAIN streamKeys[p] :
          streamKeys[p][i] = streamKeys[p][j] => i = j
    BY <1>1 DEF KeysDistinct
  <2>10. \A i \in DOMAIN streamKeys[p] : i \in Nat
    BY <1>1 DEF TypeOK
  <2> QED BY <1>1, <2>7, <2>8, <2>9, <2>10 DEF Before, Older
<1>2. OwnNameInv /\ [Next]_vars =>
        [\A p \in Procs : \A m \in handled' \ handled :
           m \in batch[p] =>
             \A n \in pel[NameOf[p]] \ lost[NameOf[p]] :
               n[1] = m[1] /\ n[2] < m[2] => n \in handled]_vars
  BY <1>1 DEF Older
<1> QED BY <1>2, OwnNameInvariant, PTL DEF Spec, HandledInOrder
=============================================================================
