--------------------------- MODULE EventPublisher ---------------------------
(***************************************************************************)
(* internal/event/publisher.go: Publish, as the command debug              *)
(* publish_event calls it.  The event goes to the stream first and to the  *)
(* audit file of its topic afterwards; nothing binds the two together.     *)
(* go-redis, outside the repository, sends a command again when its        *)
(* connection breaks, executed or not.                                     *)
(***************************************************************************)
EXTENDS DailyWriter

CONSTANT MaxUpsets  \* bound: faults of Redis and of the disk

ASSUME UpsetAssumption == MaxUpsets \in Nat

VARIABLES job,      \* "none", "xadd", "audit", "ok", "failed"
          stamp,    \* day of the payload's "time"
          copies,   \* entries of the event in the stream
          audited,  \* day of the file that has its audit line, 0: none
          upsets

publishVars == <<job, stamp, copies, audited, upsets>>

PublishInit == job = "none" /\ stamp = 0 /\ copies = 0 /\ audited = 0 /\ upsets = 0

Upset == upsets < MaxUpsets /\ upsets' = upsets + 1

\* publish_event.go and buildEventData: the payload is ready, XADD is sent.
Publish ==
  /\ job = "none"
  /\ job' = "xadd" /\ stamp' = today
  /\ UNCHANGED <<copies, audited, upsets, today, writerVars>>

XAddOk ==
  /\ job = "xadd"
  /\ job' = "audit" /\ copies' = copies + 1
  /\ UNCHANGED <<stamp, audited, upsets, today, writerVars>>

\* The reply is lost and go-redis repeats the command.
XAddRepeats ==
  /\ job = "xadd" /\ Upset
  /\ copies' = copies + 1
  /\ UNCHANGED <<job, stamp, audited, today, writerVars>>

\* Variant: the error of XADD is not returned.
XAddErrorIgnored ==
  /\ job = "xadd" /\ Upset
  /\ job' = "audit" /\ copies' \in {copies, copies + 1}
  /\ UNCHANGED <<stamp, audited, today, writerVars>>

\* XADD fails for good; Redis may have executed it.
XAddFails ==
  /\ job = "xadd" /\ Upset
  /\ job' = "failed" /\ copies' \in {copies, copies + 1}
  /\ UNCHANGED <<stamp, audited, today, writerVars>>

\* writeAuditLine: the day is read again, under the writer's mutex.
AuditLine ==
  /\ job = "audit"
  /\ Write("audit")
  /\ job' = "ok" /\ audited' = today
  /\ UNCHANGED <<stamp, copies, upsets, today>>

\* The line is not written: Publish logs that and reports success.
AuditLost ==
  /\ job = "audit" /\ Upset
  /\ WriteFails("audit")
  /\ job' = "ok"
  /\ UNCHANGED <<stamp, copies, audited, today>>

PublishNext ==
  Publish \/ XAddOk \/ XAddRepeats \/ XAddFails \/ AuditLine \/ AuditLost

-----------------------------------------------------------------------------
PublishTypeOK ==
  /\ job \in {"none", "xadd", "audit", "ok", "failed"}
  /\ stamp \in 0 .. MaxDay /\ audited \in 0 .. MaxDay
  /\ copies \in 0 .. MaxUpsets + 1 /\ upsets \in 0 .. MaxUpsets

\* An audit line, and a Publish without error, mean that the event is in the
\* stream; without a fault it is there once and has its line.  The line is
\* never in a file older than the event (publisher.go:99-117).
AuditAgreesWithStream ==
  /\ audited # 0 => copies >= 1 /\ stamp <= audited
  /\ job = "ok" => copies >= 1
  /\ job = "ok" /\ upsets = 0 => copies = 1 /\ audited # 0
=============================================================================
