--------------------------- MODULE MCBrowserTabs ---------------------------
(* Two turns of one conversation and one of another. *)
EXTENDS BrowserTabs

CONSTANTS first, second, other

MCConversation == [t \in Traces |-> IF t = other THEN "B" ELSE "A"]
MCMaxStarts == [k \in {"A", "B"} |-> IF k = "A" THEN 2 ELSE 1]
MCNewer == [t \in Traces |-> IF t = first THEN {second} ELSE {}]
=============================================================================
