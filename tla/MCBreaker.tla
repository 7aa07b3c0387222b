----------------------------- MODULE MCBreaker -----------------------------
(* Instances of Breaker for TLC: calls are model values.  Temporal         *)
(* properties are checked with the invariants, so there is no symmetry.    *)
EXTENDS Breaker

=============================================================================
