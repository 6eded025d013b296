----------------------------- MODULE MCWeekRoll -----------------------------
(* One small account over two or three weeks, with two requests that roll.  *)
EXTENDS WeekRoll, TLC

Symmetry == Permutations(Rollers) \cup Permutations(Trades)

Outlay == {2}
Ruin   == {-2, 3}
Edits  == {4, 6}
=============================================================================
