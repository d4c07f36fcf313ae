---------------------------- MODULE MCHttpClient ----------------------------
(* Constants of HttpClient for TLC: bodies of up to three runes, so that the *)
(* limit falls before, inside and after a rune.                              *)
EXTENDS HttpClient

RunesUpTo(n) == UNION {[1 .. k -> 1 .. 3] : k \in 0 .. n}
ShortBodies == RunesUpTo(3)
=============================================================================
