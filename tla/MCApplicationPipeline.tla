------------------------ MODULE MCApplicationPipeline ------------------------
(* Two tasks over one lead. *)
EXTENDS ApplicationPipeline, TLC

Symmetry == Permutations(Tasks)
=============================================================================
