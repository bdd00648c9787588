------------------------------- MODULE ToolRelay -------------------------------
(***************************************************************************)
(* What the turn broker promises about tool calls, without its queues,     *)
(* timers, waiters, leases and fences.  ChatGPT submits calls to an open   *)
(* turn; Codex is handed everything that waits and answers what it was     *)
(* handed; compaction answers in Codex's place, once and for all, for what *)
(* it was not handed; the end of a turn rejects the rest.  Every call has  *)
(* exactly one outcome, and only a call that was handed over has a result. *)
(***************************************************************************)

CONSTANTS Turn, Call

VARIABLES
    opened, open,       \* turns ever opened, turns open now
    waiting, handed,    \* per turn: calls not handed over yet; handed over, unanswered
    interrupted,        \* per turn: compaction was requested
    outcome             \* per call

relayVars == <<opened, open, waiting, handed, interrupted, outcome>>

Init ==
    /\ opened = {} /\ open = {}
    /\ waiting = [t \in Turn |-> {}] /\ handed = [t \in Turn |-> {}]
    /\ interrupted = [t \in Turn |-> FALSE]
    /\ outcome = [c \in Call |-> "unused"]

Open(t) ==
    /\ t \notin opened
    /\ opened' = opened \cup {t} /\ open' = open \cup {t}
    /\ UNCHANGED <<waiting, handed, interrupted, outcome>>

Submit(t, c) ==
    /\ t \in open /\ ~interrupted[t] /\ outcome[c] = "unused"
    /\ waiting' = [waiting EXCEPT ![t] = @ \cup {c}]
    /\ outcome' = [outcome EXCEPT ![c] = "pending"]
    /\ UNCHANGED <<opened, open, handed, interrupted>>

HandOver(t) ==
    /\ t \in open /\ ~interrupted[t] /\ waiting[t] # {}
    /\ handed' = [handed EXCEPT ![t] = @ \cup waiting[t]]
    /\ waiting' = [waiting EXCEPT ![t] = {}]
    /\ UNCHANGED <<opened, open, interrupted, outcome>>

Answer(t, c) ==
    /\ t \in open /\ c \in handed[t]
    /\ handed' = [handed EXCEPT ![t] = @ \ {c}]
    /\ outcome' = [outcome EXCEPT ![c] = "result"]
    /\ UNCHANGED <<opened, open, waiting, interrupted>>

Interrupt(t) ==
    /\ t \in open /\ ~interrupted[t]
    /\ interrupted' = [interrupted EXCEPT ![t] = TRUE]
    /\ waiting' = [waiting EXCEPT ![t] = {}]
    /\ outcome' = [c \in Call |-> IF c \in waiting[t] THEN "compacted" ELSE outcome[c]]
    /\ UNCHANGED <<opened, open, handed>>

Divert(t, c) ==
    /\ t \in open /\ interrupted[t] /\ outcome[c] = "unused"
    /\ outcome' = [outcome EXCEPT ![c] = "compacted"]
    /\ UNCHANGED <<opened, open, waiting, handed, interrupted>>

End(turns) ==
    LET lost(t) == waiting[t] \cup handed[t] IN
    /\ turns # {} /\ turns \subseteq open
    /\ open' = open \ turns
    /\ waiting' = [t \in Turn |-> IF t \in turns THEN {} ELSE waiting[t]]
    /\ handed' = [t \in Turn |-> IF t \in turns THEN {} ELSE handed[t]]
    /\ outcome' = [c \in Call |-> IF \E t \in turns : c \in lost(t) THEN "rejected"
                                  ELSE outcome[c]]
    /\ UNCHANGED <<opened, interrupted>>

Next ==
    \/ \E t \in Turn : \/ Open(t) \/ HandOver(t) \/ Interrupt(t)
                       \/ \E c \in Call : Submit(t, c) \/ Answer(t, c) \/ Divert(t, c)
    \/ \E turns \in SUBSET Turn : End(turns)

Spec == Init /\ [][Next]_relayVars
=============================================================================
