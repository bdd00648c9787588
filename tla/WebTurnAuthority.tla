--------------------------- MODULE WebTurnAuthority ---------------------------
(***************************************************************************)
(* The pure reducer of adapters/chatgpt-web/web-turn-authority.ts: what    *)
(* one logical Codex execution has accepted from the browser, the broker   *)
(* and the client.  An authority is a record; an event is an operator from *)
(* an authority to the next one.  Where the reducer throws, the state does *)
(* not change: the caller tests the "Legal" operator of the event first.   *)
(* Not kept: the execution key (one execution), the session binding, the   *)
(* effects, which no caller reads, and the physical release of the browser *)
(* (TurnSessions has it).                                                  *)
(***************************************************************************)
EXTENDS Integers, Sequences, FiniteSets

NoRev == -1                 \* an absent fence revision
NoText == <<-1>>            \* an absent text; every real text is a sequence of positive chunks

NoCandidate == [answer |-> NoText, source |-> "none"]
Open == [kind |-> "none", answer |-> NoText]

InitialAuthority ==
  [epoch |-> 0, submission |-> "prepared", toolCalls |-> {}, batch |-> 0,
   observed |-> 0, candidate |-> NoCandidate, fence |-> NoRev, fenceCommitted |-> FALSE,
   terminal |-> Open]

IsTerminal(a) == a.terminal.kind # "none"

(* browser_rebound: only a newer epoch counts. *)
Rebound(a, epoch) ==
  IF IsTerminal(a) \/ epoch <= a.epoch THEN a ELSE [a EXCEPT !.epoch = epoch]

(* cancelled / failed / compaction_handoff_accepted. *)
Close(a, kind) ==
  IF IsTerminal(a) THEN a ELSE [a EXCEPT !.terminal = [kind |-> kind, answer |-> NoText]]

SendActivated(a) == IF IsTerminal(a) THEN a ELSE [a EXCEPT !.submission = "send_activated"]

Submitted(a) == IF IsTerminal(a) THEN a ELSE [a EXCEPT !.submission = "accepted"]

ToolBatchLegal(a, ids, revision) ==
  \/ IsTerminal(a)
  \/ /\ a.submission = "accepted"
     /\ a.toolCalls = {}
     /\ ids # {}
     /\ revision > a.batch

ToolBatch(a, ids, revision) ==
  IF IsTerminal(a) THEN a
  ELSE [a EXCEPT !.toolCalls = ids, !.batch = revision, !.candidate = NoCandidate,
                 !.fence = NoRev, !.fenceCommitted = FALSE]

BoundaryLegal(a, revision) == IsTerminal(a) \/ revision = a.batch

BoundaryObserved(a, revision) == IF IsTerminal(a) THEN a ELSE [a EXCEPT !.observed = revision]

ToolResult(a, id) == IF IsTerminal(a) THEN a ELSE [a EXCEPT !.toolCalls = @ \ {id}]

\* Mutant: a candidate that follows the commit of the fence is only noted.
CandidateOnly(a, answer, source) ==
  IF IsTerminal(a) \/ a.submission # "accepted" \/ a.toolCalls # {} \/ answer = <<>>
  THEN a
  ELSE [a EXCEPT !.candidate = [answer |-> answer, source |-> source], !.fence = NoRev]

FinalCandidate(a, answer, source) ==
  LET new == [answer |-> answer, source |-> source]
  IN IF \/ IsTerminal(a)
        \/ a.submission # "accepted"
        \/ a.toolCalls # {}
        \/ answer = <<>>
        \/ a.candidate = new
     THEN a
     ELSE IF a.fenceCommitted
     THEN [a EXCEPT !.candidate = new, !.terminal = [kind |-> "final", answer |-> answer]]
     ELSE [a EXCEPT !.candidate = new, !.fence = NoRev]

FenceBegunLegal(a) == IsTerminal(a) \/ (a.submission = "accepted" /\ a.toolCalls = {})

FenceBegun(a, revision) == IF IsTerminal(a) THEN a ELSE [a EXCEPT !.fence = revision]

FenceDecided(a, revision, committed) ==
  CASE IsTerminal(a) \/ a.fence # revision -> a
    [] ~IsTerminal(a) /\ a.fence = revision /\ ~committed ->
         [a EXCEPT !.candidate = NoCandidate, !.fence = NoRev, !.fenceCommitted = FALSE]
    [] ~IsTerminal(a) /\ a.fence = revision /\ committed ->
         IF a.candidate = NoCandidate
         THEN [a EXCEPT !.fenceCommitted = TRUE]
         ELSE [a EXCEPT !.terminal = [kind |-> "final", answer |-> a.candidate.answer]]

(* observe: a fact of another browser epoch is dropped. The number a fact      *)
(* carries within its epoch always grows on the pipe, and is left out.       *)
Fresh(a, epoch) == epoch = a.epoch

===============================================================================
