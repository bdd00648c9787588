-------------------------- MODULE MCTurnResultJournal --------------------------
(***************************************************************************)
(* TLC instances of TurnResultJournal.                                     *)
(***************************************************************************)
EXTENDS TurnResultJournal, TLC

Symmetry == Permutations(Key) \cup Permutations(Epoch) \cup Permutations(Answer)
=============================================================================
