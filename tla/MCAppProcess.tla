---------------------------- MODULE MCAppProcess ----------------------------
(* Constants of AppProcess for TLC.  Requests differ in nothing but their    *)
(* names; symmetry is left out because the run checks a temporal property.   *)
EXTENDS AppProcess

AllKinds == {"api", "admin", "cli"}
BothWriters == {"app", "audit"}
=============================================================================
