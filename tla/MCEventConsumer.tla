-------------------------- MODULE MCEventConsumer --------------------------
(* Constants of EventConsumer for TLC: one or two processes of the group   *)
(* group_debug, as internal/command/consume/debug.go and debug2.go start   *)
(* them.                                                                   *)
EXTENDS EventConsumer

CONSTANTS debug, debug2   \* process names, also used as consumer names

\* "consume debug" and "consume debug2": one name each.
OwnNames == [p \in Procs |-> p]

\* Two copies of "consume debug", as in a rolling restart.
SharedName == [p \in Procs |-> debug]
=============================================================================
