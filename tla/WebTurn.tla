-------------------------------- MODULE WebTurn --------------------------------
(***************************************************************************)
(* One tool-capable Codex turn on the ChatGPT website, from the authorized *)
(* Send to the answer Codex is given.  Four parties act on it:             *)
(*   - ChatGPT writes its answer on the page and on the network stream,    *)
(*     and calls tools through the MCP server and the broker;              *)
(*   - the browser worker, in the launcher's helper process, watches the   *)
(*     page and reports upwards through a pipe;                            *)
(*   - the daemon applies what the pipe delivers to the turn authority,    *)
(*     the progress recorder and the broker's completion fence;            *)
(*   - the adapter round serves one HTTP request of Codex at a time: it    *)
(*     hands tool batches out, takes their results and finally completes.  *)
(* The broker is the part of turn-broker.ts this needs; TurnBroker has the *)
(* whole of it.                                                            *)
(***************************************************************************)
EXTENDS WebTurnAuthority, SequencesExt

CONSTANTS
  Calls,        \* tool calls ChatGPT may make during the turn
  MaxText,      \* length of the longest answer
  MaxEpoch,     \* bound: page rebinds
  MaxDrops      \* bound: disconnects of the Codex client

ASSUME WebTurnConstants ==
  /\ IsFiniteSet(Calls)
  /\ MaxText \in Nat \ {0} /\ MaxEpoch \in Nat /\ MaxDrops \in Nat

VARIABLES
  auth,     \* the authority's record
  prog,     \* ChatGptExternalTurnProgress, in the daemon
  mirror,   \* ChatGptMirroredTurnProgress, in the helper
  broker,   \* the turn in the broker: its calls, activity revision and fence
  chat,     \* the page and the network stream of the answer
  work,     \* runBrowserTurn
  up,       \* helper to daemon: a pipe
  reply,    \* daemon to helper: the answer the worker blocks on
  sess,     \* the daemon's session: the outcome, the published text
  round     \* the adapter round

vars == <<auth, prog, mirror, broker, chat, work, up, reply, sess, round>>
daemonVars == <<auth, prog, broker, sess>>

Texts == UNION {[1..n -> 1..9] : n \in 0..MaxText}
Extends(longer, shorter) == IsPrefix(shorter, longer)

NoReply == [type |-> "none", rev |-> NoRev, ok |-> FALSE]
Reply(type, rev, ok) == [type |-> type, rev |-> rev, ok |-> ok]

Msg(type, rev, text, source) ==
  [type |-> type, rev |-> rev, text |-> text, source |-> source, epoch |-> 0]
Signal(type) == Msg(type, NoRev, NoText, "none")
Numbered(type, rev) == Msg(type, rev, NoText, "none")
(* reportBrowserFact: a fact carries the worker's epoch. *)
Fact(type, rev, text, source) == [Msg(type, rev, text, source) EXCEPT !.epoch = work.epoch]

Init ==
  /\ auth = InitialAuthority
  /\ prog = [rev |-> 0, batch |-> 0, active |-> 0, observed |-> 0, retired |-> FALSE]
  /\ mirror = [batch |-> 0, active |-> 0]
  /\ broker = [st |-> [c \in Calls |-> "none"], rev |-> 0, committed |-> NoRev, live |-> TRUE]
  /\ chat \in {[sent |-> FALSE, dom |-> <<>>, done |-> FALSE, wire |-> w,
                answer |-> NoText, after |-> 0] : w \in {"off", "open"}}
  /\ work = [pc |-> "prepare", epoch |-> 0, tracked |-> 0, base |-> NoText,
             fence |-> NoRev, published |-> <<>>, offer |-> NoText, continued |-> FALSE,
             captured |-> 0, fresh |-> TRUE]
  /\ up = <<>>
  /\ reply = NoReply
  /\ sess = [outcome |-> "pending", answer |-> NoText, feed |-> <<>>, outstanding |-> {},
             aborted |-> FALSE, broken |-> FALSE]
  /\ round = [pc |-> "armed", batch |-> {}, rev |-> 0, why |-> "none", drops |-> 0]

-------------------------------------------------------------------------------
(* The broker's part. *)

Quiet(b) == \A c \in Calls : b.st[c] \in {"none", "done"}
Invoked(b) == {c \in Calls : b.st[c] \in {"queued", "delivered"}}

(* nextToolBatch hands out again what was delivered and has no result yet.   *)
NextToolBatch(b) ==
  LET delivered == {c \in Calls : b.st[c] = "delivered"}
  IN IF delivered # {} THEN delivered ELSE {c \in Calls : b.st[c] = "queued"}

(* Revocation of the capability, and what the daemon does when it sees it. *)
Revoked(b) == [b EXCEPT !.live = FALSE]

Retired(p) == [p EXCEPT !.retired = TRUE, !.active = 0]

CapabilityRetires ==
  /\ broker.live
  /\ broker' = Revoked(broker)
  /\ prog' = Retired(prog)
  /\ sess' = [sess EXCEPT !.aborted = @ \/ sess.outcome = "pending"]
  /\ UNCHANGED <<auth, mirror, chat, work, up, reply, round>>

\* Mutant: the browser is not told to stop.
CancelWithoutStop ==
  /\ auth' = Close(auth, "cancelled")
  /\ broker' = Revoked(broker)
  /\ prog' = Retired(prog)
  /\ UNCHANGED sess

(* ChatGptTurnSession.cancel, on a native interrupt. *)
CancelTurn ==
  /\ auth' = Close(auth, "cancelled")
  /\ sess' = [sess EXCEPT !.aborted = TRUE]
  /\ broker' = Revoked(broker)
  /\ prog' = Retired(prog)

NativeCancels ==
  /\ sess.outcome = "pending"
  /\ ~sess.aborted
  /\ CancelTurn
  /\ UNCHANGED <<mirror, chat, work, up, reply, round>>

-------------------------------------------------------------------------------
(* ChatGPT: the prompt is on its way once Send was pressed. What happens on   *)
(* the page matters for as long as the worker looks at it.                   *)

PromptSent == chat.sent
Watched == work.pc \notin {"finished", "failed"}

(* An MCP request claims an activity; the fence refuses it once committed. *)
ChatClaims(c) ==
  /\ PromptSent
  /\ broker.live
  /\ broker.committed = NoRev
  /\ broker.st[c] = "none"
  /\ broker' = [broker EXCEPT !.st[c] = "claimed", !.rev = @ + 1]
  /\ UNCHANGED <<auth, prog, mirror, chat, work, up, reply, sess, round>>

ChatInvokes(c) ==
  /\ broker.live
  /\ broker.st[c] = "claimed"
  /\ broker' = [broker EXCEPT !.st[c] = "queued"]
  /\ UNCHANGED <<auth, prog, mirror, chat, work, up, reply, sess, round>>

(* The request is settled: its activity completes. *)
ChatSettles(c) ==
  /\ broker.live
  /\ broker.st[c] \in {"claimed", "answered"}
  /\ broker' = [broker EXCEPT !.st[c] = "done", !.rev = @ + 1]
  /\ UNCHANGED <<auth, prog, mirror, chat, work, up, reply, sess, round>>

(* ChatGPT writes no text while it waits for a tool. *)
ChatWrites ==
  /\ PromptSent /\ Watched
  /\ ~chat.done
  /\ Invoked(broker) = {}
  /\ Len(chat.dom) < MaxText
  /\ chat' = [chat EXCEPT !.dom = Append(@, Len(@) + 1)]
  /\ UNCHANGED <<auth, prog, mirror, broker, work, up, reply, sess, round>>

(* The page shows the message as finished; after a tool result ChatGPT may    *)
(* take it up again.                                                         *)
ChatShowsEnd ==
  /\ PromptSent /\ Watched
  /\ ~chat.done
  /\ chat.dom # <<>>
  /\ chat' = [chat EXCEPT !.done = TRUE]
  /\ UNCHANGED <<auth, prog, mirror, broker, work, up, reply, sess, round>>

ChatResumes ==
  /\ Watched
  /\ chat.done
  /\ chat.wire # "answer"
  /\ chat.after = Len(chat.dom)
  /\ chat' = [chat EXCEPT !.done = FALSE]
  /\ UNCHANGED <<auth, prog, mirror, broker, work, up, reply, sess, round>>

(* The stream ends with the answer in its own Markdown, which the page may   *)
(* have rendered differently; later records can make it ambiguous again.     *)
WireConcludes ==
  /\ Watched
  /\ chat.done
  /\ Invoked(broker) = {}
  /\ Len(chat.dom) > chat.after
  /\ chat.wire = "open"
  /\ \E markdown \in {chat.dom, [chat.dom EXCEPT ![Len(chat.dom)] = 9]} :
        chat' = [chat EXCEPT !.wire = "answer", !.answer = markdown]
  /\ UNCHANGED <<auth, prog, mirror, broker, work, up, reply, sess, round>>

WireIsLost ==
  /\ Watched
  /\ chat.wire = "answer"
  /\ chat' = [chat EXCEPT !.wire = "lost", !.answer = NoText]
  /\ UNCHANGED <<auth, prog, mirror, broker, work, up, reply, sess, round>>

-------------------------------------------------------------------------------
(* The browser worker. *)

At(pc) == work.pc = pc
Post(msgs) == up' = up \o msgs
Watching == work.pc \in {"sent", "loop"}
Wire == IF chat.wire = "answer" THEN chat.answer ELSE NoText

(* The wire is asked first on every turn of the loop, unless tools are out. *)
WireAnswered == Wire # NoText /\ mirror.active = 0

(* Send is activated only after the daemon has recorded the intent. *)
ActivateSend ==
  /\ At("prepare")
  /\ work' = [work EXCEPT !.pc = "activating"]
  /\ Post(<<Signal("send_activated")>>)
  /\ UNCHANGED <<auth, prog, mirror, broker, chat, reply, sess, round>>

PressSend ==
  /\ At("activating")
  /\ reply.type = "send_activated"
  /\ work' = [work EXCEPT !.pc = "sent"]
  /\ chat' = [chat EXCEPT !.sent = TRUE]
  /\ reply' = NoReply
  /\ UNCHANGED <<auth, prog, mirror, broker, up, sess, round>>

AcceptSubmission ==
  /\ At("sent")
  /\ work' = [work EXCEPT !.pc = "loop"]
  /\ Post(<<Signal("submitted")>>)
  /\ UNCHANGED <<auth, prog, mirror, broker, chat, reply, sess, round>>

ReceiveProgress ==
  /\ Watched
  /\ mirror # [batch |-> prog.batch, active |-> prog.active]
  /\ mirror' = [batch |-> prog.batch, active |-> prog.active]
  /\ UNCHANGED <<auth, prog, broker, chat, work, up, reply, sess, round>>

\* Mutant: the text of an earlier boundary is kept for the new batch.
ObserveKeepingBase ==
  /\ Watching
  /\ At("loop") => ~WireAnswered
  /\ mirror.batch > work.tracked
  /\ work' = [work EXCEPT !.tracked = mirror.batch, !.captured = mirror.batch]
  /\ Post(<<Numbered("observed", mirror.batch),
            Fact("tool_boundary_observed", mirror.batch, NoText, "none")>>)
  /\ UNCHANGED <<auth, prog, mirror, broker, chat, reply, sess, round>>

(* The text on the page is the boundary of the batch; then the batch is       *)
(* acknowledged and the fact reported.                                       *)
ObserveBoundary ==
  /\ Watching
  /\ At("loop") => ~WireAnswered
  /\ mirror.batch > work.tracked
  /\ work' = [work EXCEPT !.tracked = mirror.batch, !.base = chat.dom,
                          !.captured = mirror.batch]
  /\ Post(<<Numbered("observed", mirror.batch),
            Fact("tool_boundary_observed", mirror.batch, NoText, "none")>>)
  /\ UNCHANGED <<auth, prog, mirror, broker, chat, reply, sess, round>>

(* Without a network stream the Markdown of the page is published as it grows. *)
PublishDelta ==
  /\ At("loop")
  /\ chat.wire = "off"
  /\ work.published # chat.dom
  /\ Extends(chat.dom, work.published)
  /\ work' = [work EXCEPT !.published = chat.dom]
  /\ Post(<<Msg("text", NoRev, SubSeq(chat.dom, Len(work.published) + 1, Len(chat.dom)), "dom")>>)
  /\ UNCHANGED <<auth, prog, mirror, broker, chat, reply, sess, round>>

\* Mutant: what the stream still misses of the answer is not published.
PublishNothing(answer, source, fresh, msgs) ==
  /\ Extends(answer, work.published)
  /\ work' = [work EXCEPT !.published = answer, !.fence = NoRev, !.fresh = fresh, !.pc = "finished"]
  /\ Post(msgs \o <<Msg("result", NoRev, answer, source)>>)

(* publishAnswer, then the rest of the turn: it can still fail.              *)
(* A conflict with text already streamed is a failure too.                   *)
Publish(answer, source, fresh, msgs) ==
  LET missing == SubSeq(answer, Len(work.published) + 1, Len(answer))
      text == IF missing = <<>> THEN <<>> ELSE <<Msg("text", NoRev, missing, source)>>
  IN \/ /\ Extends(answer, work.published)
        /\ \E end \in {"result", "error"} :
             /\ work' = [work EXCEPT !.published = answer, !.fence = NoRev, !.fresh = fresh,
                                  !.pc = IF end = "result" THEN "finished" ELSE "failed"]
             /\ Post(msgs \o text \o <<Msg(end, NoRev, answer, source)>>)
     \/ /\ ~Extends(answer, work.published)
        /\ work' = [work EXCEPT !.pc = "failed", !.fence = NoRev]
        /\ Post(msgs \o <<Signal("error")>>)

(* A complete network answer: report it, ask for the fence. *)
OfferWire ==
  /\ At("loop")
  /\ WireAnswered
  /\ work' = [work EXCEPT !.pc = "wire_begin", !.offer = Wire]
  /\ Post(<<Fact("final_candidate", NoRev, Wire, "wire"), Signal("begin")>>)
  /\ UNCHANGED <<auth, prog, mirror, broker, chat, reply, sess, round>>

WireFenceBegun ==
  /\ At("wire_begin")
  /\ reply.type = "begin"
  /\ reply' = NoReply
  /\ IF reply.rev # NoRev /\ Wire = work.offer
     THEN /\ work' = [work EXCEPT !.pc = "wire_commit"]
          /\ Post(<<Numbered("commit", reply.rev)>>)
     ELSE /\ work' = [work EXCEPT !.pc = "loop"]
          /\ UNCHANGED up
  /\ UNCHANGED <<auth, prog, mirror, broker, chat, sess, round>>

WireFenceDecided ==
  /\ At("wire_commit")
  /\ reply.type = "commit"
  /\ reply' = NoReply
  /\ \/ ~reply.ok /\ work' = [work EXCEPT !.pc = "loop"] /\ UNCHANGED up
     \/ reply.ok /\ Publish(work.offer, "wire", TRUE, <<>>)
  /\ UNCHANGED <<auth, prog, mirror, broker, chat, sess, round>>

(* ChatGptCompletionTracker.update: the page shows a finished answer, no tool *)
(* is out, and the text differs from the one at the last tool boundary.       *)
DomReady == chat.done /\ mirror.active = 0 /\ chat.dom # work.base

DomPath == At("loop") /\ ~WireAnswered /\ mirror.batch <= work.tracked

BeginDomFence ==
  /\ DomPath
  /\ DomReady
  /\ work.fence = NoRev
  /\ work' = [work EXCEPT !.pc = "dom_begin"]
  /\ Post(<<Signal("begin")>>)
  /\ UNCHANGED <<auth, prog, mirror, broker, chat, reply, sess, round>>

DomFenceBegun ==
  /\ At("dom_begin")
  /\ reply.type = "begin"
  /\ reply' = NoReply
  /\ work' = [work EXCEPT !.pc = "loop", !.fence = reply.rev]
  /\ UNCHANGED <<auth, prog, mirror, broker, chat, up, sess, round>>

DropDomFence ==
  /\ DomPath
  /\ ~DomReady
  /\ work.fence # NoRev
  /\ work' = [work EXCEPT !.fence = NoRev]
  /\ UNCHANGED <<auth, prog, mirror, broker, chat, up, reply, sess, round>>

CommitDomFence ==
  /\ DomPath
  /\ DomReady
  /\ work.fence # NoRev
  /\ work' = [work EXCEPT !.pc = "dom_commit"]
  /\ Post(<<Numbered("commit", work.fence)>>)
  /\ UNCHANGED <<auth, prog, mirror, broker, chat, reply, sess, round>>

(* A network answer that arrived meanwhile is preferred even now. *)
DomFenceDecided ==
  LET final == IF Wire # NoText THEN Wire ELSE chat.dom
      source == IF final = chat.dom THEN "dom" ELSE "wire"
  IN /\ At("dom_commit")
     /\ reply.type = "commit"
     /\ reply' = NoReply
     /\ \/ /\ ~reply.ok
           /\ work' = [work EXCEPT !.pc = "loop", !.fence = NoRev]
           /\ UNCHANGED up
        \/ /\ reply.ok
           /\ Publish(final, source, Len(chat.dom) > chat.after,
                      <<Fact("final_candidate", NoRev, final, source)>>)
     /\ UNCHANGED <<auth, prog, mirror, broker, chat, sess, round>>

(* continueAfterStoppedTurn: once, after tools and before any visible text,   *)
(* a second prompt in the same conversation asks for the final answer.        *)
ContinueAfterStop ==
  /\ DomPath
  /\ ~work.continued
  /\ chat.dom = <<>>
  /\ mirror.batch > 0
  /\ mirror.active = 0
  /\ work' = [work EXCEPT !.continued = TRUE, !.tracked = 0, !.base = NoText, !.fence = NoRev]
  /\ chat' = [chat EXCEPT !.dom = <<>>, !.done = FALSE, !.answer = NoText,
                          !.wire = IF @ = "off" THEN "off" ELSE "open"]
  /\ UNCHANGED <<auth, prog, mirror, broker, up, reply, sess, round>>

(* rebindLauncherPage: a fresh connection to the same page. *)
RebindPage ==
  /\ Watching
  /\ work.epoch < MaxEpoch
  /\ work' = [work EXCEPT !.epoch = @ + 1]
  /\ Post(<<[Signal("browser_rebound") EXCEPT !.epoch = work.epoch + 1]>>)
  /\ UNCHANGED <<auth, prog, mirror, broker, chat, reply, sess, round>>

(* The stop order of the daemon, or any failure of the page. *)
WorkerFails ==
  /\ Watched
  /\ work' = [work EXCEPT !.pc = "failed"]
  /\ reply' = NoReply
  /\ Post(<<Signal("error")>>)
  /\ UNCHANGED <<auth, prog, mirror, broker, chat, sess, round>>

WorkerStops == sess.aborted /\ WorkerFails

-------------------------------------------------------------------------------
(* The daemon: one line of the pipe at a time. *)

Arrives(type) == up # <<>> /\ up[1].type = type
Line == up[1]
Consume == up' = Tail(up)

(* abortWithLocalFailure: the worker is told to stop; whatever it still       *)
(* returns, the turn is rejected with the local failure.                     *)
Broken(s) == [s EXCEPT !.broken = TRUE, !.aborted = TRUE]

HandleSendActivated ==
  /\ Arrives("send_activated")
  /\ Consume
  /\ auth' = SendActivated(auth)
  /\ reply' = Reply("send_activated", NoRev, TRUE)
  /\ UNCHANGED <<prog, mirror, broker, chat, work, sess, round>>

HandleSubmitted ==
  /\ Arrives("submitted")
  /\ Consume
  /\ auth' = IF auth.submission = "send_activated" THEN Submitted(auth) ELSE auth
  /\ UNCHANGED <<prog, mirror, broker, chat, work, reply, sess, round>>

(* publishText refuses text once the turn is cancelled or failed. *)
HandleText ==
  /\ Arrives("text")
  /\ Consume
  /\ sess' = IF auth.terminal.kind \in {"cancelled", "error"} THEN Broken(sess)
             ELSE [sess EXCEPT !.feed = @ \o Line.text]
  /\ UNCHANGED <<auth, prog, mirror, broker, chat, work, reply, round>>

HandleFact ==
  /\ up # <<>>
  /\ Line.type \in {"final_candidate", "tool_boundary_observed"}
  /\ Consume
  /\ CASE ~Fresh(auth, Line.epoch) -> UNCHANGED <<auth, sess>>
       [] Fresh(auth, Line.epoch) /\ Line.type = "final_candidate" ->
            /\ auth' = FinalCandidate(auth, Line.text, Line.source)
            /\ UNCHANGED sess
       [] Fresh(auth, Line.epoch) /\ Line.type = "tool_boundary_observed" ->
            IF BoundaryLegal(auth, Line.rev)
            THEN auth' = BoundaryObserved(auth, Line.rev) /\ UNCHANGED sess
            ELSE sess' = Broken(sess) /\ UNCHANGED auth
  /\ UNCHANGED <<prog, mirror, broker, chat, work, reply, round>>

HandleRebound ==
  /\ Arrives("browser_rebound")
  /\ Consume
  /\ auth' = Rebound(auth, Line.epoch)
  /\ UNCHANGED <<prog, mirror, broker, chat, work, reply, sess, round>>

\* Mutant: the batch before the observed one is acknowledged.
HandleObservedLate ==
  /\ Arrives("observed")
  /\ Consume
  /\ prog' = [prog EXCEPT !.observed = IF prog.retired THEN @ ELSE Line.rev - 1]
  /\ sess' = IF prog.retired THEN Broken(sess) ELSE sess
  /\ UNCHANGED <<auth, mirror, broker, chat, work, reply, round>>

(* toolbatch_observed: acknowledgeToolBatch throws once progress is retired. *)
HandleObserved ==
  /\ Arrives("observed")
  /\ Consume
  /\ IF prog.retired
     THEN sess' = Broken(sess) /\ UNCHANGED prog
     ELSE /\ prog' = [prog EXCEPT !.observed = Line.rev]
          /\ UNCHANGED sess
  /\ UNCHANGED <<auth, mirror, broker, chat, work, reply, round>>

(* completionFence.begin: the broker names a revision only while it is quiet. *)
HandleBegin ==
  /\ Arrives("begin")
  /\ Consume
  /\ LET revision == CASE broker.committed # NoRev -> broker.committed
                       [] broker.committed = NoRev /\ Quiet(broker) -> broker.rev
                       [] OTHER -> NoRev
         refused == ~broker.live \/ (revision # NoRev /\ ~FenceBegunLegal(auth))
     IN IF refused
        THEN sess' = Broken(sess) /\ UNCHANGED <<auth, reply>>
        ELSE /\ auth' = IF revision = NoRev THEN auth ELSE FenceBegun(auth, revision)
             /\ reply' = IF sess.aborted THEN reply ELSE Reply("begin", revision, TRUE)
             /\ UNCHANGED sess
  /\ UNCHANGED <<prog, mirror, broker, chat, work, round>>

\* Mutant: the broker commits the fence without looking at its revision again.
CommitUnchecked ==
  /\ Arrives("commit")
  /\ Consume
  /\ IF ~broker.live
     THEN sess' = Broken(sess) /\ UNCHANGED <<auth, broker, reply>>
     ELSE /\ broker' = [broker EXCEPT !.committed = Line.rev]
          /\ auth' = FenceDecided(auth, Line.rev, TRUE)
          /\ reply' = Reply("commit", Line.rev, TRUE)
          /\ UNCHANGED sess
  /\ UNCHANGED <<prog, mirror, chat, work, round>>

(* completionFence.commit: nothing was claimed or completed since begin. *)
HandleCommit ==
  /\ Arrives("commit")
  /\ Consume
  /\ LET committed == IF broker.committed # NoRev THEN broker.committed = Line.rev
                      ELSE Quiet(broker) /\ broker.rev = Line.rev
     IN IF ~broker.live
        THEN sess' = Broken(sess) /\ UNCHANGED <<auth, broker, reply>>
        ELSE /\ broker' = IF committed THEN [broker EXCEPT !.committed = Line.rev] ELSE broker
             /\ auth' = FenceDecided(auth, Line.rev, committed)
             /\ reply' = IF sess.aborted THEN reply ELSE Reply("commit", Line.rev, committed)
             /\ UNCHANGED sess
  /\ UNCHANGED <<prog, mirror, chat, work, round>>

(* The browser's promise settles, and turn-execution merges it with what the *)
(* authority had accepted: a committed final outlives a later failure if it  *)
(* extends the published text; otherwise the outcome itself is rejected.     *)
MergeOutcome(final, answer) ==
  LET committed == auth.terminal.kind = "final"
      kept == auth.terminal.answer
  IN CASE final ->
            /\ sess' = [sess EXCEPT !.outcome = "final", !.answer = answer]
            /\ auth' = IF auth.submission = "accepted" /\ auth.toolCalls = {}
                       THEN FinalCandidate(auth, answer, "dom") ELSE auth
       [] ~final /\ committed /\ Extends(kept, sess.feed) ->
            /\ sess' = [sess EXCEPT !.outcome = "final", !.answer = kept, !.feed = kept]
            /\ UNCHANGED auth
       [] ~final /\ committed /\ ~Extends(kept, sess.feed) ->
            /\ sess' = [sess EXCEPT !.outcome = "rejected"]
            /\ UNCHANGED auth
       [] ~final /\ ~committed ->
            /\ sess' = [sess EXCEPT !.outcome = "error"]
            /\ auth' = Close(auth, "error")

HandleOutcome ==
  /\ up # <<>>
  /\ Line.type \in {"result", "error"}
  /\ Consume
  /\ MergeOutcome(Line.type = "result" /\ ~sess.broken, Line.text)
  /\ UNCHANGED <<prog, mirror, broker, chat, work, reply, round>>

-------------------------------------------------------------------------------
(* The adapter round. *)

(* The catch block of runTurn: the session is cancelled and the capability    *)
(* revoked; Codex is given the error.                                        *)
FailRound(why) ==
  /\ round' = [round EXCEPT !.pc = "failed", !.why = why, !.batch = {}]
  /\ CancelTurn

\* Mutant: the batch is given to Codex without waiting for its text boundary.
TakeBatchUnobserved ==
  /\ round.pc = "armed"
  /\ broker.live
  /\ Invoked(broker) # {}
  /\ LET revision == prog.rev + 1
     IN /\ prog' = [prog EXCEPT !.rev = revision, !.batch = revision,
                                !.active = @ + Cardinality(Invoked(broker))]
        /\ auth' = IF ToolBatchLegal(auth, Invoked(broker), revision)
                   THEN ToolBatch(Submitted(auth), Invoked(broker), revision) ELSE auth
        /\ round' = [round EXCEPT !.pc = "emitted", !.batch = Invoked(broker), !.rev = revision]
        /\ sess' = [sess EXCEPT !.outstanding = Invoked(broker)]
        /\ broker' = [broker EXCEPT !.st = [c \in Calls |-> IF @[c] = "queued" THEN "delivered"
                                                           ELSE @[c]]]
  /\ UNCHANGED <<mirror, chat, work, up, reply>>

(* nextToolBatch, then the recording of the batch by progress and authority.  *)
(* A claim proves the Send before the page does.                             *)
TakeBatch ==
  /\ round.pc = "armed"
  /\ broker.live
  /\ Invoked(broker) # {}
  /\ LET ids == NextToolBatch(broker)
         revision == prog.rev + 1
         proven == IF auth.submission = "send_activated" THEN Submitted(auth) ELSE auth
     IN IF ToolBatchLegal(proven, ids, revision)
        THEN /\ broker' = [broker EXCEPT !.st = [c \in Calls |-> IF c \in ids THEN "delivered"
                                                                 ELSE @[c]]]
             /\ prog' = [prog EXCEPT !.rev = revision, !.batch = revision,
                                     !.active = @ + Cardinality(ids)]
             /\ auth' = ToolBatch(proven, ids, revision)
             /\ round' = [round EXCEPT !.pc = "boundary", !.batch = ids, !.rev = revision]
             /\ UNCHANGED sess
        ELSE FailRound("tool_batch")
  /\ UNCHANGED <<mirror, chat, work, up, reply>>

(* waitForToolBatchObservation. *)
EmitBatch ==
  /\ round.pc = "boundary"
  /\ ~prog.retired
  /\ prog.observed >= round.rev
  /\ sess' = [sess EXCEPT !.outstanding = round.batch]
  /\ round' = [round EXCEPT !.pc = "emitted"]
  /\ UNCHANGED <<auth, prog, mirror, broker, chat, work, up, reply>>

FailBoundary ==
  /\ round.pc = "boundary"
  /\ prog.retired
  /\ FailRound("retired")
  /\ UNCHANGED <<mirror, chat, work, up, reply>>

(* Codex comes back with the results of the whole batch. *)
ReturnResults ==
  /\ round.pc = "emitted"
  /\ IF broker.live
     THEN /\ broker' = [broker EXCEPT !.st = [c \in Calls |-> IF c \in sess.outstanding
                                                              THEN "answered" ELSE @[c]]]
          /\ prog' = [prog EXCEPT !.rev = @ + Cardinality(sess.outstanding),
                                  !.active = @ - Cardinality(sess.outstanding)]
          /\ auth' = [auth EXCEPT !.toolCalls = IF IsTerminal(auth) THEN @ ELSE @ \ sess.outstanding]
          /\ sess' = [sess EXCEPT !.outstanding = {}]
          /\ chat' = [chat EXCEPT !.after = Len(chat.dom)]
          /\ round' = [round EXCEPT !.pc = "armed", !.batch = {}]
     ELSE FailRound("retired") /\ UNCHANGED chat
  /\ UNCHANGED <<mirror, work, up, reply>>

(* The browser outcome wins the race of the round (finishBrowserOutcome). *)
FinishRound ==
  /\ round.pc \in {"armed", "boundary", "settled"}
  /\ sess.outcome # "pending"
  /\ CASE sess.outcome = "rejected" -> FailRound("rejected")
       [] sess.outcome = "error" -> FailRound("error")
       [] sess.outcome = "final" /\ sess.feed # sess.answer -> FailRound("text")
       [] /\ sess.outcome = "final" /\ sess.feed = sess.answer
          /\ auth.submission = "accepted" /\ auth.terminal.kind # "final" ->
            FailRound(IF sess.aborted THEN "cancelled" ELSE "no_fence")
       [] OTHER -> /\ round' = [round EXCEPT !.pc = "completed", !.batch = {}]
                   /\ broker' = Revoked(broker)
                   /\ prog' = Retired(prog)
                   /\ UNCHANGED <<auth, sess>>
  /\ UNCHANGED <<mirror, chat, work, up, reply>>

(* The Codex client goes away: the waits of the round are aborted, the        *)
(* session is kept for a reconnect.                                          *)
Disconnect ==
  /\ round.pc \in {"armed", "boundary"}
  /\ round.drops < MaxDrops
  /\ round' = [round EXCEPT !.pc = "off", !.batch = {}, !.drops = @ + 1]
  /\ UNCHANGED <<auth, prog, mirror, broker, chat, work, up, reply, sess>>

(* A settled outcome is served at once; otherwise an outstanding batch is     *)
(* replayed, and without one the round waits for tools again.                *)
Reconnect ==
  /\ round.pc = "off"
  /\ round' = [round EXCEPT !.batch = sess.outstanding,
                            !.pc = CASE sess.outcome \in {"final", "error"} -> "settled"
                                     [] sess.outcome \in {"pending", "rejected"} ->
                                          IF sess.outstanding # {} THEN "emitted" ELSE "armed"]
  /\ UNCHANGED <<auth, prog, mirror, broker, chat, work, up, reply, sess>>

-------------------------------------------------------------------------------
ChatGPT ==
  \/ \E c \in Calls : ChatClaims(c) \/ ChatInvokes(c) \/ ChatSettles(c)
  \/ ChatWrites
  \/ ChatShowsEnd
  \/ ChatResumes
  \/ WireConcludes
  \/ WireIsLost

Worker ==
  \/ ActivateSend
  \/ PressSend
  \/ AcceptSubmission
  \/ ReceiveProgress
  \/ ObserveBoundary
  \/ PublishDelta
  \/ OfferWire
  \/ WireFenceBegun
  \/ WireFenceDecided
  \/ BeginDomFence
  \/ DomFenceBegun
  \/ DropDomFence
  \/ CommitDomFence
  \/ DomFenceDecided
  \/ ContinueAfterStop
  \/ RebindPage
  \/ WorkerFails

Daemon ==
  \/ HandleSendActivated
  \/ HandleSubmitted
  \/ HandleText
  \/ HandleFact
  \/ HandleRebound
  \/ HandleObserved
  \/ HandleBegin
  \/ HandleCommit
  \/ HandleOutcome

Round ==
  \/ TakeBatch
  \/ EmitBatch
  \/ FailBoundary
  \/ ReturnResults
  \/ FinishRound
  \/ Disconnect
  \/ Reconnect

(* The session and its round have both come to an end. *)
Over ==
  /\ sess.outcome # "pending"
  /\ round.pc \in {"completed", "failed"}
  /\ UNCHANGED vars

Next == ChatGPT \/ Worker \/ Daemon \/ Round \/ CapabilityRetires \/ NativeCancels \/ Over

(* The daemon reads its pipe; the worker's loop runs every 250 ms, reads the  *)
(* progress frames, looks at the page and obeys the stop order; the round's   *)
(* race is over once one of its promises settles. Nothing is assumed of       *)
(* ChatGPT, of the Codex client or of the page.                              *)
Fairness ==
  /\ WF_vars(Daemon)
  /\ WF_vars(ReceiveProgress)
  /\ WF_vars(WorkerStops)
  /\ WF_vars(ObserveBoundary)
  /\ WF_vars(WireFenceBegun \/ WireFenceDecided \/ DomFenceBegun \/ DomFenceDecided)
  /\ WF_vars(EmitBatch \/ FailBoundary \/ FinishRound)

Spec == Init /\ [][Next]_vars
FairSpec == Spec /\ Fairness

-------------------------------------------------------------------------------
(* Properties *)

(* Once the authority holds a final answer, no tool call is open and none can *)
(* be claimed any more: Codex never completes a turn whose tools still run.  *)
FinalIsQuiet == auth.terminal.kind = "final" => broker.committed # NoRev /\ Quiet(broker)

(* Codex executes no tool before the worker has captured the text that was on *)
(* the page when the batch was made; otherwise a stale answer could complete *)
(* the turn after the tools.                                                 *)
BoundaryBeforeTools == round.pc = "emitted" => work.captured >= round.rev

(* A browser turn that returned an answer is refused for want of a fence only *)
(* when the turn was cancelled: no order of candidates, fences and rebinds    *)
(* loses the commit the worker was granted.                                  *)
CompletedTurnIsFenced == round.why # "no_fence"

(* An answer read off the page was written after the last tool result: the    *)
(* page may show the text before the tools as a finished message.            *)
AnswerFollowsTools == work.fresh

(* The published Markdown is never contradicted: what Codex is given as the   *)
(* final answer is what was streamed to it.                                  *)
StreamMatchesAnswer == round.why # "text"

(* A batch that waits for its boundary never waits for ever: the worker sees  *)
(* it, or the turn settles, or the capability is retired.                    *)
BoundaryWaitEnds == round.pc = "boundary" ~> round.pc # "boundary"

(* A turn whose capability is gone comes to an end. *)
RetiredTurnSettles == ~broker.live ~> sess.outcome # "pending"

(* turn-broker.ts: "the exact reconnect receives the same call ids instead of *)
(* losing the model's invocation": a round that only reconnected is not       *)
(* refused the batch the broker hands out again.                             *)
ReconnectKeepsInvocation == round.why # "tool_batch"

-------------------------------------------------------------------------------
(* The type invariant, and the parts of the inductive invariants of            *)
(* WebTurnProofs.                                                             *)

Text == Seq(Int)
Rev == Nat \union {NoRev}

Authority ==
  [epoch : Nat, submission : {"prepared", "send_activated", "accepted"},
   toolCalls : SUBSET Calls, batch : Nat, observed : Rev,
   candidate : [answer : Text, source : {"none", "wire", "dom"}],
   fence : Rev, fenceCommitted : BOOLEAN,
   terminal : [kind : {"none", "final", "error", "cancelled"}, answer : Text]]
Message ==
  [type : {"send_activated", "submitted", "text", "final_candidate", "tool_boundary_observed",
           "browser_rebound", "observed", "begin", "commit", "result", "error"},
   rev : Rev, text : Text, source : {"none", "wire", "dom"}, epoch : Nat]
Place ==
  {"prepare", "activating", "sent", "loop", "wire_begin", "wire_commit", "dom_begin",
   "dom_commit", "finished", "failed"}
Work ==
  [pc : Place, epoch : Nat, tracked : Nat, base : Text, fence : Rev, published : Text,
   offer : Text, continued : BOOLEAN, captured : Nat, fresh : BOOLEAN]

Progress == [rev : Nat, batch : Nat, active : Int, observed : Rev, retired : BOOLEAN]
Mirror == [batch : Nat, active : Int]
Broker ==
  [st : [Calls -> {"none", "claimed", "queued", "delivered", "answered", "done"}],
   rev : Nat, committed : Rev, live : BOOLEAN]
Page ==
  [sent : BOOLEAN, dom : Seq(Nat), done : BOOLEAN, wire : {"off", "open", "answer", "lost"},
   answer : Text, after : Nat]
Answer == [type : {"none", "send_activated", "begin", "commit"}, rev : Rev, ok : BOOLEAN]
Session ==
  [outcome : {"pending", "final", "error", "rejected"}, answer : Text, feed : Text,
   outstanding : SUBSET Calls, aborted : BOOLEAN, broken : BOOLEAN]
Serving ==
  [pc : {"off", "armed", "boundary", "settled", "emitted", "completed", "failed"},
   batch : SUBSET Calls, rev : Nat, drops : Nat,
   why : {"none", "tool_batch", "retired", "rejected", "error", "text", "cancelled", "no_fence"}]

WebTurnTypeOK ==
  /\ auth \in Authority
  /\ prog \in Progress
  /\ mirror \in Mirror
  /\ broker \in Broker
  /\ chat \in Page
  /\ work \in Work
  /\ up \in Seq(Message)
  /\ reply \in Answer
  /\ sess \in Session
  /\ round \in Serving

(* The calls of the batch that the round holds are delivered and not answered. *)
BatchHeld ==
  /\ sess.outstanding \union round.batch \subseteq {c \in Calls : broker.st[c] = "delivered"}
  /\ round.pc = "emitted" <=> sess.outstanding # {} /\ round.pc \notin {"failed", "completed"}
  /\ round.pc = "boundary" => round.batch # {}

(* A fence is committed over a quiet broker, and only then the authority answers. *)
FenceCommits ==
  /\ broker.committed # NoRev => Quiet(broker)
  /\ auth.fenceCommitted \/ auth.terminal.kind = "final" => broker.committed # NoRev

(* What the daemon and the helper know of the batches, newest last. *)
BatchesKnown ==
  /\ work.tracked <= work.captured /\ work.captured <= mirror.batch
  /\ mirror.batch <= prog.batch /\ prog.batch <= prog.rev
  /\ prog.observed <= work.captured
  /\ \A i \in 1..Len(up) : up[i].type = "observed" => up[i].rev <= work.captured
  /\ round.rev <= prog.batch

(* A page that was captured for a batch stays as it is until the results come. *)
PageWaits ==
  /\ chat.done => chat.dom # <<>>
  /\ work.base = NoText \/ Extends(chat.dom, work.base)
  /\ chat.after <= IF work.base = NoText THEN 0 ELSE Len(work.base)
  /\ work.captured >= round.rev /\ round.pc \in {"boundary", "emitted"} =>
        work.base = chat.dom \/ (work.base = NoText /\ chat.dom = <<>>)

(* What the worker waits for is asked last on the pipe, or answered, but not both. *)
Asking == {"send_activated", "begin", "commit"}
Awaits(pc) ==
  CASE pc = "activating" -> "send_activated"
    [] pc \in {"wire_begin", "dom_begin"} -> "begin"
    [] pc \in {"wire_commit", "dom_commit"} -> "commit"
    [] OTHER -> "nothing"
LineInPlace(i) ==
  /\ up[i].type \in Asking /\ work.pc # "failed" =>
        i = Len(up) /\ up[i].type = Awaits(work.pc) /\ reply.type = "none"
  /\ up[i].type = "final_candidate" /\ work.pc # "failed" =>
        work.pc = "finished" \/ (work.pc = "wire_begin" /\ up[Len(up)].type = "begin")
  /\ up[i].type = "send_activated" =>
        /\ work.pc \in {"activating", "failed"} /\ auth.submission = "prepared"
        /\ \A j \in 1..Len(up) : up[j].type = "send_activated" => j = i
  /\ up[i].type \in {"result", "error"} =>
        /\ i = Len(up) /\ sess.outcome = "pending"
        /\ work.pc = IF up[i].type = "result" THEN "finished" ELSE "failed"
  /\ up[i].type = "result" => up[i].text # <<>> /\ up[i].text = work.published
  /\ up[i].type = "commit" /\ work.pc = "dom_commit" => up[i].rev = work.fence
WorkerInPlace ==
  /\ reply.type # "none" /\ work.pc # "failed" => reply.type = Awaits(work.pc)
  /\ work.pc = "prepare" => auth.submission = "prepared"
  /\ work.pc = "finished" => work.fence = NoRev
  /\ sess.outcome # "pending" => work.pc \in {"finished", "failed"} /\ up = <<>>
  /\ chat.wire = "answer" => chat.answer # <<>>
  /\ work.pc \in {"wire_begin", "wire_commit"} => work.offer # <<>>
  /\ work.pc = "dom_commit" => chat.dom # <<>>
PipeOrdered == WorkerInPlace /\ \A i \in 1..Len(up) : LineInPlace(i)

(* The revisions the worker holds, and those it asks to commit. *)
HeldFences ==
  ({work.fence}
     \union (IF reply.type = "begin" THEN {reply.rev} ELSE {})
     \union {up[i].rev : i \in {j \in 1..Len(up) : up[j].type = "commit"}}) \ {NoRev}

(* The authority's record, as long as no terminal outcome is accepted. *)
AuthorityKept ==
  /\ sess.broken \/ auth.terminal.kind = "cancelled" => sess.aborted
  /\ auth.terminal.kind = "error" => sess.outcome = "error"
  /\ ~IsTerminal(auth) =>
        /\ auth.fence # NoRev \/ auth.fenceCommitted => auth.submission = "accepted"
        /\ auth.fenceCommitted => auth.candidate = NoCandidate
        /\ auth.toolCalls \subseteq {c \in Calls : broker.st[c] = "delivered"}

(* Unless the turn is aborted, the commit the worker was granted is the        *)
(* authority's until the answer is there; and a held revision that is still   *)
(* current is the authority's fence, so that its commit counts.               *)
GrantKept ==
  ~sess.aborted /\ work.pc # "failed" =>
     /\ (reply.type = "commit" /\ reply.ok) \/ (\E i \in 1..Len(up) : up[i].type = "result") =>
           IsTerminal(auth) \/ auth.fenceCommitted
     /\ broker.committed # NoRev => work.pc = "finished" \/ (reply.type = "commit" /\ reply.ok)
HeldKept ==
  ~sess.aborted /\ work.pc # "failed" /\ broker.committed = NoRev =>
     \A rev \in HeldFences :
        /\ rev <= broker.rev
        /\ broker.rev = rev =>
              /\ Quiet(broker)
              /\ \/ IsTerminal(auth) \/ auth.fence = rev
                 \/ work.pc = "wire_begin" /\ \E i \in 1..Len(up) : up[i].type = "begin"
OutcomeKept == ~sess.aborted /\ sess.outcome = "final" => auth.terminal.kind = "final"
FenceKept == AuthorityKept /\ GrantKept /\ HeldKept /\ OutcomeKept

(* The answer on the page that a granted commit is about follows the tools. *)
AnswerIsNew ==
  /\ reply.type = "commit" /\ reply.ok => broker.committed # NoRev
  /\ work.pc = "dom_commit" =>
        /\ reply.type = "commit" /\ reply.ok => Len(chat.dom) > chat.after
        /\ ~sess.aborted /\ broker.committed = NoRev /\ broker.rev = work.fence
              => Len(chat.dom) > chat.after

===============================================================================
