------------------------- MODULE MCInstructionRunner -------------------------
(* Two tasks over one instruction: two sessions with edits and a fault, and one *)
(* session without either.                                                      *)
EXTENDS InstructionRunner, TLC

Symmetry == Permutations(Tasks) \cup Permutations(Instructions)

EveryDay == {Never}
AnyDay == {Never, 1}
=============================================================================
