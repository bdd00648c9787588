----------------------------- MODULE MCMcpHarness -----------------------------
(***************************************************************************)
(* TLC instances of McpHarness: one native turn and one or two requests.   *)
(***************************************************************************)
EXTENDS McpHarness, TLC

CONSTANTS t1, r1, a1, a2, c1, c2

NoTokens == {}
OneTrace == [t \in Token |-> r1]
OwnCall  == [a \in Activity |-> IF a = a1 THEN c1 ELSE c2]
=============================================================================
