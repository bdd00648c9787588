---------------------------- MODULE MCTurnBroker ----------------------------
(***************************************************************************)
(* TLC instances of TurnBroker: which turns are Zero Risk or external, and *)
(* the traces they belong to, for two handles.                             *)
(***************************************************************************)
EXTENDS TurnBroker, TLC

CONSTANTS t1, t2, r1, r2

NoTokens  == {}
FirstOnly == {t1}
OwnTraces == t1 :> r1 @@ t2 :> r2
OneTrace  == [t \in Token |-> r1]

Symmetry == Permutations(Call) \cup Permutations(Activity) \cup Permutations(Waiter)
=============================================================================
