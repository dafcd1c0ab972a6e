-------------------------- MODULE MCStateRecovery --------------------------
(* Two controllers, either a new state root or one an older release left. *)
EXTENDS StateRecovery, TLC

Symmetry == Permutations(Controllers)
=============================================================================
