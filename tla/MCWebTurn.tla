------------------------------- MODULE MCWebTurn -------------------------------
(***************************************************************************)
(* TLC instances of WebTurn.                                               *)
(***************************************************************************)
EXTENDS WebTurn, TLC

Symmetry == Permutations(Calls)
===============================================================================
