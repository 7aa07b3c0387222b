---------------------------- MODULE MCHotReload ----------------------------
(* Instances of HotReload for TLC: workers, admins and clients are model   *)
(* values.  Temporal properties are checked with the invariants, so there  *)
(* is no symmetry.                                                         *)
EXTENDS HotReload

=============================================================================
