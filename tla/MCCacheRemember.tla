-------------------------- MODULE MCCacheRemember --------------------------
(* CacheRemember for TLC: two callers share a process and a third is in one *)
(* of its own.                                                              *)
EXTENDS CacheRemember

CONSTANTS c1, c2, c3

TwoProcesses == [c \in Callers |-> IF c = c3 THEN "B" ELSE "A"]
=============================================================================
