----------------------------- MODULE MCPaperDesk -----------------------------
(* Small desks: one request at a time with varied amounts, and two requests  *)
(* at once with a single amount.                                             *)
EXTENDS PaperDesk, TLC

Symmetry == Permutations(Callers) \cup Permutations(Trades)
              \cup Permutations(Instruments)

Small == {3, 4, 6}
Results == {-3, 2}
Configured == {7, 10}

One == {4}
Loss == {-1}
Capital == {10}
=============================================================================
