---------------------------- MODULE MCRateLimit ----------------------------
(* The rate limiter on small instances. *)
EXTENDS RateLimit, TLC

(* Requests are interchangeable *)
Symmetry == Permutations(Hitters)
=============================================================================
