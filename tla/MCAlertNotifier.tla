-------------------------- MODULE MCAlertNotifier --------------------------
(* AlertNotifier for TLC: overlapping alerts, which are interchangeable, as *)
(* are the keys and the sinks.                                              *)
EXTENDS AlertNotifier, TLC

AlertSymmetry == Permutations(Alerts) \cup Permutations(Keys) \cup Permutations(Sinks)
=============================================================================
