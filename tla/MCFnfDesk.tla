------------------------------ MODULE MCFnfDesk ------------------------------
(* Two desks that both run the session driver, with one operator request.    *)
EXTENDS FnfDesk, TLC

Symmetry == Permutations(Drivers) \cup Permutations(Trades)
              \cup Permutations(Instruments)

Premium    == {2}
Results    == {-1}
Configured == {6}
Limits     == {}
=============================================================================
