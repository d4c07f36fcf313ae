---------------------------- MODULE AtLeastOnce ----------------------------
(***************************************************************************)
(* What internal/event promises a topic's subscriber: a message the group  *)
(* is owed is given to the handler before it is settled, and is settled    *)
(* once and for all.  How many processes, deliveries or retries that takes *)
(* is not visible here: handling a message again while it is unsettled is  *)
(* a stuttering step.                                                      *)
(***************************************************************************)
CONSTANT Message

VARIABLES owed,     \* messages published while the group exists
          done,     \* messages whose handler has succeeded
          settled   \* messages the group will never deliver again

vars == <<owed, done, settled>>

Init == owed = {} /\ done = {} /\ settled = {}

Publish(m) ==
  /\ m \notin owed
  /\ owed' = owed \cup {m}
  /\ UNCHANGED <<done, settled>>

Handle(m) ==
  /\ m \in owed \ settled
  /\ done' = done \cup {m}
  /\ UNCHANGED <<owed, settled>>

Settle(m) ==
  /\ m \in done
  /\ settled' = settled \cup {m}
  /\ UNCHANGED <<owed, done>>

Next == \E m \in Message : Publish(m) \/ Handle(m) \/ Settle(m)

Spec == Init /\ [][Next]_vars

FairSpec ==
  Spec /\ \A m \in Message : WF_vars(Handle(m)) /\ WF_vars(Settle(m))
=============================================================================
