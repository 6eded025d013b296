---------------------------- MODULE MCWriteBehind ----------------------------
(* A buffer with room for one row, and a pool just large enough for the      *)
(* assumption that ties it to the number of timeouts before a release.       *)
EXTENDS WriteBehind

Symmetry == Permutations(Quotes)
=============================================================================
