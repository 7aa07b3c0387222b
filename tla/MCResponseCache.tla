-------------------------- MODULE MCResponseCache --------------------------
(* Instances of ResponseCache for TLC.  The questions of the first run: one *)
(* that is asked both ways, one that shares its model's index, and one too  *)
(* large to go upstream in one piece.                                       *)
EXTENDS ResponseCache, TLC

CONSTANTS k1, k2, big

MixedQuestions ==
    {[kind |-> "chat", key |-> k1], [kind |-> "stream", key |-> k1],
     [kind |-> "chat", key |-> k2], [kind |-> "chat", key |-> big]}

Symmetry == Permutations(Requests) \cup Permutations(Invalidations)
=============================================================================
