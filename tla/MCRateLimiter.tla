--------------------------- MODULE MCRateLimiter ---------------------------
(* Instances of RateLimiter for TLC: requests are interchangeable. *)
EXTENDS RateLimiter, TLC

RequestSymmetry == Permutations(Requests)
=============================================================================
