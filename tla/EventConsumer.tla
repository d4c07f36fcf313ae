--------------------------- MODULE EventConsumer ---------------------------
(***************************************************************************)
(* internal/event/consumer.go: processes that run Consumer.Run over the    *)
(* streams of RedisStream, each under SetupSignalHandler                   *)
(* (internal/command/root.go) and a supervisor that starts it again.       *)
(* XREADGROUP, the handler and XACK are each a call and its outcome, so a  *)
(* signal, a publication, another process or a crash may fall in between.  *)
(*                                                                         *)
(* pc[p]: "down" not running; "ensure" in the ensureGroup loop; "check" at *)
(* the ctx.Done() test that heads both read loops; "wait" in XREADGROUP;   *)
(* "handle" in the handler of the next message of batch[p]; "ack" in its   *)
(* XACK.  mode[p] tells processPendingMessages from processNewMessages.    *)
(***************************************************************************)
EXTENDS RedisStream, Sequences

CONSTANTS Procs,      \* processes running the consumer
          NameOf,     \* NameOf[p]: the consumer name p was built with
          MaxLen,     \* bound: publications per topic
          MaxUpsets,  \* bound: failed or lost calls, handler errors, signals, kills
          LossyReads  \* whether the reply of a ">" read may be lost

ASSUME NameOfAssumption == NameOf \in [Procs -> Names]
ASSUME BoundsAssumption ==
  MaxLen \in Nat /\ MaxUpsets \in Nat /\ LossyReads \in BOOLEAN

VARIABLES pc, mode,
          streamKeys, \* the topics Run has ensured, in its iteration order
          batch,      \* messages of the last reply not yet acknowledged
          cancelled,  \* ctx is done (first signal received)
          deadline,   \* handlerCtx: "none", "armed" (WithTimeout), "expired"
          exit,       \* why p is down: "none", "0", "1" or "killed"
          handled,    \* history: messages whose handler returned nil
          lost,       \* history: delivered to a name in a reply that was lost
          upsets      \* upsets so far

proc == <<pc, mode, streamKeys, batch, cancelled, deadline>>
vars == <<redis, proc, exit, handled, lost, upsets>>

Init ==
  /\ RedisInit
  /\ pc = [p \in Procs |-> "down"]
  /\ mode = [p \in Procs |-> "pending"]
  /\ streamKeys = [p \in Procs |-> <<>>]
  /\ batch = [p \in Procs |-> {}]
  /\ cancelled = [p \in Procs |-> FALSE]
  /\ deadline = [p \in Procs |-> "none"]
  /\ exit = [p \in Procs |-> "none"]
  /\ handled = {}
  /\ lost = [c \in Names |-> {}]
  /\ upsets = 0

Upset == upsets < MaxUpsets /\ upsets' = upsets + 1
NoUpset == UNCHANGED upsets

Goto(p, l) == pc' = [pc EXCEPT ![p] = l]

\* Run returns (code "0" or "1"), or the process dies ("killed").
Finish(p, code) ==
  /\ Goto(p, "down")
  /\ exit' = [exit EXCEPT ![p] = code]
  /\ batch' = [batch EXCEPT ![p] = {}]
  /\ deadline' = [deadline EXCEPT ![p] = "none"]
  /\ UNCHANGED <<mode, streamKeys, cancelled>>

-----------------------------------------------------------------------------
(* The environment: publishers and the supervisor.                         *)

Publish(t) ==
  /\ len[t] < MaxLen
  /\ XAdd(t)
  /\ UNCHANGED <<proc, exit, handled, lost, upsets>>

\* Variant: a restarted process reads new messages only.
StartAtNew(p) ==
  /\ pc[p] = "down"
  /\ Goto(p, "ensure")
  /\ mode' = [mode EXCEPT ![p] = "new"]
  /\ streamKeys' = [streamKeys EXCEPT ![p] = <<>>]
  /\ cancelled' = [cancelled EXCEPT ![p] = FALSE]
  /\ exit' = [exit EXCEPT ![p] = "none"]
  /\ lost' = [lost EXCEPT ![NameOf[p]] = {}]
  /\ UNCHANGED <<redis, batch, deadline, handled, upsets>>

Start(p) ==
  /\ pc[p] = "down"
  /\ Goto(p, "ensure")
  /\ mode' = [mode EXCEPT ![p] = "pending"]
  /\ streamKeys' = [streamKeys EXCEPT ![p] = <<>>]
  /\ cancelled' = [cancelled EXCEPT ![p] = FALSE]
  /\ exit' = [exit EXCEPT ![p] = "none"]
  /\ lost' = [lost EXCEPT ![NameOf[p]] = {}]
  /\ UNCHANGED <<redis, batch, deadline, handled, upsets>>

-----------------------------------------------------------------------------
(* Run: ensureGroup for every registered topic, in map order.  A failure   *)
(* is logged and ignored; a lost reply is an EnsureGroup.                  *)

Ensured(p) == {streamKeys[p][i] : i \in DOMAIN streamKeys[p]}

NextKey(p, t) ==
  /\ pc[p] = "ensure"
  /\ t \notin Ensured(p)
  /\ streamKeys' = [streamKeys EXCEPT ![p] = Append(@, t)]
  /\ Goto(p, IF Topics \subseteq Ensured(p) \cup {t} THEN "check" ELSE "ensure")
  /\ UNCHANGED <<mode, batch, cancelled, deadline, exit, handled, lost>>

EnsureGroup(p, t) == NextKey(p, t) /\ XGroupCreate(t) /\ NoUpset

EnsureGroupFails(p, t) ==
  /\ NextKey(p, t)
  /\ IF cancelled[p] THEN NoUpset ELSE Upset
  /\ UNCHANGED redis

-----------------------------------------------------------------------------
(* The two read loops.                                                     *)

\* select on ctx.Done(): when it is done in the pending loop, Run goes on to
\* processNewMessages, whose own test returns nil too.
Check(p) ==
  /\ pc[p] = "check"
  /\ IF cancelled[p]
       THEN Finish(p, "0")
       ELSE Goto(p, "wait")
            /\ UNCHANGED <<mode, streamKeys, batch, cancelled, deadline, exit>>
  /\ UNCHANGED <<redis, handled, lost, upsets>>

\* processMessages begins: the deadline is set only if ctx is done by now.
StartBatch(p, msgs) ==
  /\ Goto(p, "handle")
  /\ batch' = [batch EXCEPT ![p] = msgs]
  /\ deadline' = [deadline EXCEPT ![p] = IF cancelled[p] THEN "armed" ELSE "none"]
  /\ UNCHANGED <<mode, streamKeys, cancelled, exit, handled, lost, upsets>>

\* Variant: any reply, an empty one too, is processed.
PendingAnyReply(p) ==
  /\ pc[p] = "wait" /\ mode[p] = "pending" /\ GroupsExist
  /\ StartBatch(p, PendingBatch(NameOf[p]))
  /\ UNCHANGED redis

PendingReply(p) ==
  /\ pc[p] = "wait" /\ mode[p] = "pending" /\ GroupsExist
  /\ PendingBatch(NameOf[p]) # {}
  /\ StartBatch(p, PendingBatch(NameOf[p]))
  /\ UNCHANGED redis

\* The history is empty: break, and on to processNewMessages.
PendingDrained(p) ==
  /\ pc[p] = "wait" /\ mode[p] = "pending" /\ GroupsExist
  /\ PendingBatch(NameOf[p]) = {}
  /\ mode' = [mode EXCEPT ![p] = "new"]
  /\ Goto(p, "check")
  /\ UNCHANGED <<redis, streamKeys, batch, cancelled, deadline, exit, handled,
                 lost, upsets>>

NewReply(p) ==
  /\ pc[p] = "wait" /\ mode[p] = "new" /\ GroupsExist
  /\ NewBatch # {}
  /\ XReadGroupNew(NameOf[p])
  /\ StartBatch(p, NewBatch)

\* XREADGROUP returned an error: stop if ctx is done, else log and continue.
ReadError(p) ==
  /\ IF cancelled[p]
       THEN Finish(p, "0")
       ELSE Goto(p, "check")
            /\ UNCHANGED <<mode, streamKeys, batch, cancelled, deadline, exit>>
  /\ UNCHANGED handled

\* redis.Nil after BlockTime without an entry.
BlockTimeout(p) ==
  /\ pc[p] = "wait" /\ mode[p] = "new" /\ GroupsExist
  /\ NewBatch = {}
  /\ ReadError(p)
  /\ UNCHANGED <<redis, lost, upsets>>

\* A server that has no group answers NOGROUP on every call.
NoGroup(p) ==
  /\ pc[p] = "wait" /\ ~GroupsExist
  /\ ReadError(p)
  /\ UNCHANGED <<redis, lost, upsets>>

\* The call fails before Redis executes it (network, or ctx done in the pool).
ReadFails(p) ==
  /\ pc[p] = "wait"
  /\ ReadError(p)
  /\ IF cancelled[p] THEN NoUpset ELSE Upset
  /\ UNCHANGED <<redis, lost>>

\* Redis executed the ">" read and the reply never arrived.
NewReplyLost(p) ==
  /\ LossyReads
  /\ pc[p] = "wait" /\ mode[p] = "new" /\ GroupsExist
  /\ NewBatch # {}
  /\ XReadGroupNew(NameOf[p])
  /\ lost' = [lost EXCEPT ![NameOf[p]] = @ \cup NewBatch]
  /\ ReadError(p)
  /\ Upset

-----------------------------------------------------------------------------
(* processMessages: stream by stream in streamKeys order, oldest first.    *)

Before(p, m, n) ==
  \/ m[1] = n[1] /\ m[2] < n[2]
  \/ \E i, j \in DOMAIN streamKeys[p] :
       i < j /\ streamKeys[p][i] = m[1] /\ streamKeys[p][j] = n[1]

IsNext(p, m) == m \in batch[p] /\ \A n \in batch[p] : n # m => Before(p, m, n)

\* The handler may ignore an expired deadline, as ExampleHandler does.
HandlerOk(p) ==
  /\ pc[p] = "handle"
  /\ \E m \in batch[p] : IsNext(p, m) /\ handled' = handled \cup {m}
  /\ Goto(p, "ack")
  /\ UNCHANGED <<redis, mode, streamKeys, batch, cancelled, deadline, exit, lost,
                 upsets>>

\* Variants: log the error and acknowledge; log it and take the next message.
HandlerErrorAcks(p) ==
  /\ pc[p] = "handle" /\ Upset
  /\ Goto(p, "ack")
  /\ UNCHANGED <<redis, mode, streamKeys, batch, cancelled, deadline, exit, handled, lost>>

HandlerErrorSkips(p) ==
  /\ pc[p] = "handle" /\ Upset
  /\ \E m \in batch[p] :
       /\ IsNext(p, m)
       /\ batch' = [batch EXCEPT ![p] = @ \ {m}]
       /\ Goto(p, IF batch[p] = {m} THEN "check" ELSE "handle")
  /\ UNCHANGED <<redis, mode, streamKeys, cancelled, deadline, exit, handled, lost>>

HandlerError(p) ==
  /\ pc[p] = "handle"
  /\ IF deadline[p] = "expired" THEN NoUpset ELSE Upset
  /\ Finish(p, "1")
  /\ UNCHANGED <<redis, handled, lost>>

\* Variant: ctx is tested between two messages of a batch.
AckedStopsEarly(p, m) ==
  IF cancelled[p]
    THEN Finish(p, "0")
    ELSE /\ Goto(p, IF batch[p] = {m} THEN "check" ELSE "handle")
         /\ batch' = [batch EXCEPT ![p] = @ \ {m}]
         /\ UNCHANGED <<mode, streamKeys, cancelled, deadline, exit>>

\* After the last message the deadline is released and ctx tested again.
Acked(p, m) ==
  IF batch[p] # {m}
    THEN /\ Goto(p, "handle")
         /\ batch' = [batch EXCEPT ![p] = @ \ {m}]
         /\ UNCHANGED <<mode, streamKeys, cancelled, deadline, exit>>
    ELSE IF cancelled[p]
      THEN Finish(p, "0")
      ELSE /\ Goto(p, "check")
           /\ batch' = [batch EXCEPT ![p] = {}]
           /\ deadline' = [deadline EXCEPT ![p] = "none"]
           /\ UNCHANGED <<mode, streamKeys, cancelled, exit>>

\* Variant: one XACK for the whole batch.
AckBatch(p) ==
  /\ pc[p] = "ack" /\ deadline[p] # "expired"
  /\ pel' = [c \in Names |-> pel[c] \ batch[p]]
  /\ batch' = [batch EXCEPT ![p] = {}]
  /\ Goto(p, "check")
  /\ UNCHANGED <<len, grp, origin, read, mode, streamKeys, cancelled, deadline, exit,
                 handled, lost, upsets>>

AckOk(p) ==
  /\ pc[p] = "ack" /\ deadline[p] # "expired"
  /\ \E m \in batch[p] : IsNext(p, m) /\ XAck(m) /\ Acked(p, m)
  /\ UNCHANGED <<handled, lost, upsets>>

\* Variant: a failed XACK is tried again for ever.
AckRetries(p) == pc[p] = "ack" /\ UNCHANGED vars

AckFails(p) ==
  /\ pc[p] = "ack"
  /\ IF deadline[p] = "expired" THEN NoUpset ELSE Upset
  /\ Finish(p, "1")
  /\ UNCHANGED <<redis, handled, lost>>

\* Variant: the message is handled and acknowledged again after an error.
AckErrorRedoes(p) ==
  /\ pc[p] = "ack" /\ deadline[p] # "expired"
  /\ \E m \in batch[p] : IsNext(p, m) /\ XAck(m)
  /\ Goto(p, "handle")
  /\ Upset
  /\ UNCHANGED <<mode, streamKeys, batch, cancelled, deadline, exit, handled, lost>>

\* Redis executed the XACK; the caller sees an error.
AckReplyLost(p) ==
  /\ pc[p] = "ack" /\ deadline[p] # "expired"
  /\ \E m \in batch[p] : IsNext(p, m) /\ XAck(m)
  /\ Finish(p, "1")
  /\ Upset
  /\ UNCHANGED <<handled, lost>>

-----------------------------------------------------------------------------
(* SetupSignalHandler, the handler deadline, and crashes.                  *)

Signal(p) ==
  /\ pc[p] # "down" /\ ~cancelled[p]
  /\ cancelled' = [cancelled EXCEPT ![p] = TRUE]
  /\ Upset
  /\ UNCHANGED <<redis, pc, mode, streamKeys, batch, deadline, exit, handled, lost>>

DeadlineExpires(p) ==
  /\ deadline[p] = "armed"
  /\ deadline' = [deadline EXCEPT ![p] = "expired"]
  /\ UNCHANGED <<redis, pc, mode, streamKeys, batch, cancelled, exit, handled,
                 lost, upsets>>

\* A second signal, or the signal handler's own timeout: os.Exit(1).
ForceExit(p) ==
  /\ pc[p] # "down" /\ cancelled[p]
  /\ Finish(p, "1")
  /\ UNCHANGED <<redis, handled, lost, upsets>>

Kill(p) ==
  /\ pc[p] # "down"
  /\ Finish(p, "killed")
  /\ Upset
  /\ UNCHANGED <<redis, handled, lost>>

-----------------------------------------------------------------------------
Read(p) == PendingReply(p) \/ PendingDrained(p) \/ NewReply(p)
           \/ BlockTimeout(p) \/ NoGroup(p)

\* What p does when nothing goes wrong.
Progress(p) ==
  \/ \E t \in Topics : EnsureGroup(p, t)
  \/ Check(p) \/ Read(p) \/ HandlerOk(p) \/ AckOk(p)

Fault(p) ==
  \/ \E t \in Topics : EnsureGroupFails(p, t)
  \/ ReadFails(p) \/ NewReplyLost(p) \/ HandlerError(p)
  \/ AckFails(p) \/ AckReplyLost(p)
  \/ Signal(p) \/ DeadlineExpires(p) \/ ForceExit(p) \/ Kill(p)

Next ==
  \/ \E t \in Topics : Publish(t)
  \/ \E p \in Procs : Start(p) \/ Progress(p) \/ Fault(p)

Spec == Init /\ [][Next]_vars

(* Fairness: the supervisor starts a process that is down, a running       *)
(* process keeps running, and a handler returns.  Signals, crashes, failed *)
(* calls, publications and os.Exit are never forced.                       *)
Fairness ==
  \A p \in Procs :
    /\ WF_vars(Start(p))
    /\ WF_vars(Progress(p))
    /\ WF_vars(deadline[p] = "expired" /\ AckFails(p))

FairSpec == Spec /\ Fairness

-----------------------------------------------------------------------------
(* Properties.                                                             *)

\* Every variable has its type, and a process holds messages exactly while it
\* is inside processMessages (consumer.go:100, 199: no handler runs on an
\* empty reply and a batch ends with its last message).
TypeOK ==
  /\ RedisTypeOK
  /\ pc \in [Procs -> {"down", "ensure", "check", "wait", "handle", "ack"}]
  /\ mode \in [Procs -> {"pending", "new"}]
  /\ streamKeys \in [Procs -> Seq(Topics)]
  /\ batch \in [Procs -> SUBSET Msg]
  /\ \A p \in Procs : batch[p] # {} <=> pc[p] \in {"handle", "ack"}
  /\ cancelled \in [Procs -> BOOLEAN]
  /\ deadline \in [Procs -> {"none", "armed", "expired"}]
  /\ exit \in [Procs -> {"none", "0", "1", "killed"}]
  /\ handled \in SUBSET Msg
  /\ lost \in [Names -> SUBSET Msg]
  /\ upsets \in 0 .. MaxUpsets

\* At least once: a message the group was given and that no consumer still
\* owes an acknowledgement for has been through a handler that returned nil,
\* whatever crashes, lost replies and duplicate consumers there were
\* (consumer.go:215-223: XACK comes after the handler's success).
SettledWasHandled ==
  \A t \in Topics : \A i \in 1 .. read[t] :
    Settled(<<t, i>>) => <<t, i>> \in handled

\* A name per process: debug.go:20-24 and debug2.go:26-30.
OwnName == \A p, q \in Procs : NameOf[p] = NameOf[q] => p = q

\* With a name per process, a message is in the PEL of one name only and a
\* handler never runs on a message that was acknowledged: processMessages
\* works on entries that are still pending (consumer.go:199-224).
HandlesOnlyPending ==
  \A p \in Procs : batch[p] \subseteq pel[NameOf[p]]

\* The new-message loop starts with an empty PEL and leaves nothing behind:
\* while it runs, what its name owes is the batch in hand and the replies that
\* never arrived (consumer.go:60-65, 117-159).
NewLoopOwesItsBatch ==
  \A p \in Procs :
    pc[p] # "down" /\ mode[p] = "new" =>
      pel[NameOf[p]] = batch[p] \cup lost[NameOf[p]]

\* A graceful exit from the new-message loop (ctx done, Run returns nil) leaves
\* no message unacknowledged but those of lost replies (consumer.go:46, 154).
GracefulExitDrained ==
  \A p \in Procs :
    exit[p] = "0" /\ mode[p] = "new" => pel[NameOf[p]] \subseteq lost[NameOf[p]]

\* In order per topic and consumer, across handler errors and restarts: when a
\* handler succeeds on a message for the first time, every older one of its
\* topic that the same name owes has been handled, lost replies excepted
\* (consumer.go:59-65, 214: stop at the first error, resume from the PEL).
HandledInOrder ==
  [][\A p \in Procs : \A m \in handled' \ handled :
       m \in batch[p] =>
         \A n \in pel[NameOf[p]] \ lost[NameOf[p]] :
           n[1] = m[1] /\ n[2] < m[2] => n \in handled]_vars

Messages == Topics \X (1 .. MaxLen)
OwedMessages ==
  {m \in Messages : grp[m[1]] /\ origin[m[1]] < m[2] /\ m[2] <= len[m[1]]}
SettledMessages == {m \in Messages : Settled(m)}

Promise == INSTANCE AtLeastOnce WITH
             Message <- Messages,
             owed <- OwedMessages,
             done <- handled,
             settled <- SettledMessages

\* Consumer.Run keeps the promise of AtLeastOnce for the messages published
\* after the group was created ("$" at consumer.go:232).
KeepsPromise == Promise!Spec

\* Liveness of the same promise: if upsets end, replies of ">" reads arrive and
\* the supervisor restarts what stops, every owed message is handled and
\* settled.
KeepsPromiseFairly == Promise!FairSpec

\* A process that was signalled stops, without help from os.Exit.
StopsAfterSignal ==
  \A p \in Procs : cancelled[p] /\ pc[p] # "down" ~> pc[p] = "down"

\* What consumer.go:46 and :190 say: once ctx is done, the batch in hand has
\* ShutdownTimeout to finish, after which its handler context ends.
DrainHasDeadline ==
  \A p \in Procs :
    cancelled[p] /\ pc[p] \in {"handle", "ack"} => deadline[p] # "none"

\* What consumer.go:40 says: Run creates the group of every registered topic
\* when there is none; so a process that runs has, in time, groups to read.
GroupsGetCreated ==
  \A p \in Procs : pc[p] = "check" ~> GroupsExist
=============================================================================
