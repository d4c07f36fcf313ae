--------------------------- MODULE AlertNotifier ---------------------------
(***************************************************************************)
(* internal/pkg/alert: Notifier.Send of concurrent callers with alerting   *)
(* and deduplication enabled.  Try reads the clock and then, under the     *)
(* read lock, the time of the key's last success; deliver runs in a        *)
(* goroutine of its own, sends to every sink at once and waits for all;    *)
(* Commit reads the clock and then, under the lock, stores it and removes  *)
(* what has expired.  The clock may move between any two steps.            *)
(***************************************************************************)
EXTENDS Integers, FiniteSets

CONSTANTS Alerts,    \* Sends (with their deliveries) that may overlap
          Keys,      \* deduplication keys, BuildDedupKey of the alerts
          Sinks,     \* the enabled channels
          Window,
          MaxTime    \* bound on the clock

ASSUME AlertAssumption == Window \in Nat \ {0} /\ MaxTime \in Nat

VARIABLES now,
          last,      \* last[k]: Deduplicator.last, or Absent
          pc,        \* "idle", "lookup", "deliver", "stamp", "commit"
          key,       \* key of the alert
          clock,     \* time.Now() as the alert's goroutine last read it
          running,   \* sinks whose Send has not returned
          anyOK,     \* a sink has accepted the alert
          accepted,  \* history: keys with an alert that a sink accepted
          full,      \* history: last as it would be without the clean-up
          newest     \* history: newest stamp committed for the key, or Absent

vars == <<now, last, pc, key, clock, running, anyOK, accepted, full, newest>>
deliveryVars == <<running, anyOK, accepted>>
mapVars == <<last, full, newest>>

Absent == -1

Init ==
  /\ now = 0
  /\ last = [k \in Keys |-> Absent]
  /\ pc = [a \in Alerts |-> "idle"]
  /\ key \in [Alerts -> Keys]
  /\ clock = [a \in Alerts |-> 0]
  /\ running = [a \in Alerts |-> {}]
  /\ anyOK = [a \in Alerts |-> FALSE]
  /\ accepted = {}
  /\ full = last
  /\ newest = last

Goto(a, l) == pc' = [pc EXCEPT ![a] = l]
\* Variant: the end of the window is stored instead of its start.
ReadEnd(a) == clock' = [clock EXCEPT ![a] = now + Window]

\* time.Now() before the lock is taken.
ReadClock(a) == clock' = [clock EXCEPT ![a] = now]

Tick ==
  /\ now < MaxTime
  /\ now' = now + 1
  /\ UNCHANGED <<last, pc, key, clock, deliveryVars, full, newest>>

\* Send: the key is built and Try reads the clock.
Send(a, k) ==
  /\ pc[a] = "idle"
  /\ Goto(a, "lookup")
  /\ key' = [key EXCEPT ![a] = k]
  /\ ReadClock(a)
  /\ UNCHANGED <<now, mapVars, deliveryVars>>

CoolingDown(a) ==
  last[key[a]] # Absent /\ clock[a] - last[key[a]] < Window

\* Try answers false: Send returns.
Throttle(a) ==
  /\ pc[a] = "lookup" /\ CoolingDown(a)
  /\ Goto(a, "idle")
  /\ UNCHANGED <<now, key, clock, mapVars, deliveryVars>>

\* Try answers true: go deliver, and SendAll starts one goroutine per sink.
StartDelivery(a) ==
  /\ pc[a] = "lookup" /\ ~ CoolingDown(a)
  /\ Goto(a, "deliver")
  /\ running' = [running EXCEPT ![a] = Sinks]
  /\ anyOK' = [anyOK EXCEPT ![a] = FALSE]
  /\ UNCHANGED <<now, key, clock, mapVars, accepted>>

\* A sink's Send returns: accepted, or an error or a timeout of its own.
SinkReturns(a, s, ok) ==
  /\ pc[a] = "deliver" /\ s \in running[a]
  /\ running' = [running EXCEPT ![a] = @ \ {s}]
  /\ anyOK' = [anyOK EXCEPT ![a] = @ \/ ok]
  /\ accepted' = IF ok THEN accepted \cup {key[a]} ELSE accepted
  /\ UNCHANGED <<now, pc, key, clock, mapVars>>

\* Variant: whatever the sinks answered, the window starts.
FinishAlways(a) ==
  /\ pc[a] = "deliver" /\ running[a] = {}
  /\ Goto(a, "stamp")
  /\ UNCHANGED <<now, key, clock, mapVars, deliveryVars>>

\* All sinks have returned; Commit follows only if one accepted.
Finish(a) ==
  /\ pc[a] = "deliver" /\ running[a] = {}
  /\ Goto(a, IF anyOK[a] THEN "stamp" ELSE "idle")
  /\ UNCHANGED <<now, key, clock, mapVars, deliveryVars>>

\* Commit, before the lock.
Stamp(a) ==
  /\ pc[a] = "stamp"
  /\ Goto(a, "commit")
  /\ ReadClock(a)
  /\ UNCHANGED <<now, key, mapVars, deliveryVars>>

\* Variant: the clean-up removes everything older than the stamp.
ExpiredAtOnce(stamp, at) == stamp < at

\* What the clean-up removes.
Expired(stamp, at) == stamp < at - Window

\* Commit, under the lock: the stamp, and the clean-up of the whole map.
Commit(a) ==
  LET stamped(m) == [m EXCEPT ![key[a]] = clock[a]]
  IN  /\ pc[a] = "commit"
      /\ Goto(a, "idle")
      /\ last' = [k \in Keys |-> IF Expired(stamped(last)[k], clock[a])
                                   THEN Absent ELSE stamped(last)[k]]
      /\ full' = stamped(full)
      /\ newest' = IF newest[key[a]] < clock[a] THEN stamped(newest) ELSE newest
      /\ UNCHANGED <<now, key, clock, deliveryVars>>

AlertStep(a) ==
  \/ Throttle(a) \/ StartDelivery(a) \/ Finish(a) \/ Stamp(a) \/ Commit(a)
  \/ \E s \in Sinks, ok \in BOOLEAN : SinkReturns(a, s, ok)

Next == Tick \/ \E a \in Alerts : AlertStep(a) \/ \E k \in Keys : Send(a, k)

Spec == Init /\ [][Next]_vars
-----------------------------------------------------------------------------
TypeOK ==
  /\ now \in 0 .. MaxTime
  /\ last \in [Keys -> {Absent} \cup 0 .. now]
  /\ full \in [Keys -> {Absent} \cup 0 .. now]
  /\ newest \in [Keys -> {Absent} \cup 0 .. now]
  /\ pc \in [Alerts -> {"idle", "lookup", "deliver", "stamp", "commit"}]
  /\ key \in [Alerts -> Keys]
  /\ clock \in [Alerts -> 0 .. now]
  /\ running \in [Alerts -> SUBSET Sinks]
  /\ anyOK \in [Alerts -> BOOLEAN]
  /\ accepted \subseteq Keys

\* The clean-up inside Commit never ends a window that is still open: what it
\* has removed is older than the window, whichever goroutine removed it and
\* however long ago that one read its clock (dedup.go:92-98).
CleanupKeepsWindow ==
  \A k \in Keys :
    last[k] = full[k] \/ (last[k] = Absent /\ full[k] < now - Window)

LetsThrough(a) == pc[a] = "lookup" /\ pc'[a] = "deliver"
Throttles(a) == pc[a] = "lookup" /\ pc'[a] = "idle"

WithinWindow(a, stamp) == stamp # Absent /\ clock[a] - stamp < Window

\* An alert is only dropped for a success of the same key: some sink has
\* accepted an alert of the key, and a Commit less than a window ago says so.
\* Deliveries that all sinks refused silence nothing (dedup.go:15,
\* notifier.go:86-101).
ThrottledForASuccess ==
  [][\A a \in Alerts : Throttles(a) =>
       key[a] \in accepted /\ WithinWindow(a, newest[key[a]])]_vars

\* An alert that comes within the window of the last Commit is dropped.  Two
\* races of the code escape it and are excluded here: an older Commit that
\* wrote after the newest one (full # newest), and a Try that was paused for
\* a whole window between its clock and its look-up (dedup.go:66-82, 88-90).
CooldownHolds ==
  [][\A a \in Alerts :
       /\ LetsThrough(a)
       /\ full[key[a]] = newest[key[a]]
       /\ newest[key[a]] >= now - Window
       => ~ WithinWindow(a, newest[key[a]])]_vars
=============================================================================
