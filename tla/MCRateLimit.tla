---------------------------- MODULE MCRateLimit ----------------------------
(* RateLimit for TLC: a fresh IP and a few requests at once.  The requests *)
(* are interchangeable.                                                    *)
EXTENDS RateLimit, TLC

ClientSymmetry == Permutations(Clients)
=============================================================================
