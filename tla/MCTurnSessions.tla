--------------------------- MODULE MCTurnSessions ---------------------------
(* Three executions of one native thread: "old" and "new" share a retained  *)
(* conversation and steer each other, "next" answers after a compaction.    *)
EXTENDS TurnSessions

CONSTANTS old, new, owner, chat, first, second

MCOwnerOf == [k \in Key |-> owner]
MCConvOf == [k \in Key |-> chat]
MCTurnOf == [k \in Key |-> IF k = old THEN first ELSE second]
MCInstruction == [k \in Key |-> k]
MCPredecessors == [k \in Key |-> IF k = new THEN {old} ELSE {}]

Symmetry == Permutations(Session) \union Permutations(Request)
=============================================================================
