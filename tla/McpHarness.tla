------------------------------ MODULE McpHarness ------------------------------
(***************************************************************************)
(* The native MCP server (src/src/adapters/chatgpt-web/mcp-server.ts)      *)
(* against the turn broker.  Each tool request of ChatGPT is a sequence of *)
(* broker calls, each on a socket of its own: claim the turn under a fresh *)
(* activity id, perhaps invoke a tool, release the whole turn if the       *)
(* invocation is abandoned, and settle the activity with one retry.  A     *)
(* request that times out or is aborted closes its socket, and what it had *)
(* sent may still reach the broker, after the next message, or be lost.    *)
(***************************************************************************)
EXTENDS TurnBroker

CONSTANT CallOf     \* the tool call an MCP request may make

ASSUME HarnessConstants ==
    /\ CallOf \in [Activity -> Call]
    /\ \A a, b \in Activity : CallOf[a] = CallOf[b] => a = b

VARIABLES
    pc,         \* where an MCP request is
    target,     \* the turn token ChatGPT put into it
    sent,       \* its messages that the broker has not read yet
    answer,     \* what its open socket received
    ordered,    \* the requests whose messages the broker happens to read in the order sent
    released    \* history: its release was answered

clientVars == <<pc, target, sent, answer, ordered, released>>
harnessVars == <<vars, clientVars>>

Message == {"claim", "invoke", "release", "settle1", "settle2"}
Before  == [claim |-> {}, invoke |-> {"claim"}, release |-> {"claim", "invoke"},
            settle1 |-> {"claim", "invoke", "release"},
            settle2 |-> Message \ {"settle2"}]
\* The message whose answer a request waits for, by where it is.
Awaits  == [claiming |-> "claim", invoking |-> "invoke", releasing |-> "release",
            settling1 |-> "settle1", settling2 |-> "settle2"]
Place   == DOMAIN Awaits \cup {"idle", "claimed", "done", "failed"}

HarnessInit ==
    /\ Init
    /\ pc = [a \in Activity |-> "idle"]
    /\ target = [a \in Activity |-> None]
    /\ sent = [a \in Activity |-> {}]
    /\ answer = [a \in Activity |-> "none"]
    /\ ordered \in SUBSET Activity
    /\ released = {}

-----------------------------------------------------------------------------
(* The MCP server's side *)

\* Go on to `place`; `kept` of the unread messages are still on their way, and the
\* message whose answer `place` awaits is sent.
GoTo(a, place, kept) ==
    /\ pc' = [pc EXCEPT ![a] = place]
    /\ sent' = [sent EXCEPT ![a] = IF place \in DOMAIN Awaits THEN kept \cup {Awaits[place]}
                                   ELSE kept]
    /\ answer' = [answer EXCEPT ![a] = "none"]
    /\ UNCHANGED <<vars, ordered>>

\* ChatGPT learns a turn token from the turn's prompt and may use it at any later time.
Begin(a, t) ==
    /\ pc[a] = "idle"
    /\ t \in issued \ SafeToken
    /\ target' = [target EXCEPT ![a] = t]
    /\ GoTo(a, "claiming", {})
    /\ UNCHANGED released

\* The outcome of invoke arrives with the tool result, the compaction result, or an error.
Answered(a) == \/ answer[a] = "ok"
               \/ pc[a] = "invoking" /\ reply[CallOf[a]] \in {"result", "compacted"}
Refused(a)  == \/ answer[a] = "error"
               \/ pc[a] = "invoking" /\ reply[CallOf[a]] = "rejected"

\* The awaited answer arrived.
Proceed(a) ==
    /\ Answered(a)
    /\ GoTo(a, CASE pc[a] = "claiming" -> "claimed"
                 [] pc[a] \in {"invoking", "releasing"} -> "settling1"
                 [] OTHER -> "done", sent[a])
    /\ released' = IF pc[a] = "releasing" THEN released \cup {a} ELSE released
    /\ UNCHANGED target

\* The action of withClaimedTurn: it invokes a tool, or is local to the MCP server.
Act(a) ==
    /\ pc[a] = "claimed"
    /\ \E place \in {"invoking", "settling1"} : GoTo(a, place, sent[a])
    /\ UNCHANGED <<target, released>>

\* An error answer, a timeout, a broken connection or an abort of the request.  A failed
\* claim is settled too, a failed invocation releases the turn, and only the settlement is
\* retried, once.
GiveUp(a) ==
    /\ pc[a] \in DOMAIN Awaits
    /\ ~Answered(a)
    /\ \E kept \in IF Refused(a) THEN {sent[a]} ELSE {sent[a], sent[a] \ {Awaits[pc[a]]}} :
         GoTo(a, CASE pc[a] = "invoking" -> "releasing"
                   [] pc[a] \in {"claiming", "releasing"} -> "settling1"
                   [] pc[a] = "settling1" -> "settling2"
                   [] OTHER -> "failed", kept)
    /\ UNCHANGED <<target, released>>

-----------------------------------------------------------------------------
(* The broker's side: it reads one message *)

Readable(a, message) ==
    /\ Pruned
    /\ message \in sent[a]
    /\ a \in ordered => sent[a] \cap Before[message] = {}

\* The outcome reaches the request only if it still waits for this answer.
Read(a, message, outcome) ==
    /\ sent' = [sent EXCEPT ![a] = @ \ {message}]
    /\ answer' = IF pc[a] \in DOMAIN Awaits /\ Awaits[pc[a]] = message
                 THEN [answer EXCEPT ![a] = outcome] ELSE answer
    /\ UNCHANGED <<pc, target, ordered, released>>

ReadClaim(a) ==
    /\ Readable(a, "claim")
    /\ \/ Claim(target[a], a) /\ Read(a, "claim", "ok")
       \/ /\ ~ClaimAccepted(target[a], a)
          /\ Read(a, "claim", "error")
          /\ UNCHANGED vars

\* A queued invocation is answered later, through `reply`.
ReadInvoke(a) ==
    /\ Readable(a, "invoke")
    /\ \/ Invoke(target[a], CallOf[a]) /\ Read(a, "invoke", "none")
       \/ /\ target[a] \notin bindings
          /\ Read(a, "invoke", "error")
          /\ UNCHANGED vars

ReadRelease(a) ==
    /\ Readable(a, "release")
    /\ \/ Release(target[a]) /\ Read(a, "release", "ok")
       \/ /\ target[a] \notin bindings
          /\ Read(a, "release", IF target[a] \in retiredBindings THEN "ok" ELSE "error")
          /\ UNCHANGED vars

ReadSettle(a, message) ==
    /\ Readable(a, message)
    /\ \/ ActivityComplete(target[a], a) /\ Read(a, message, "ok")
       \/ /\ target[a] \notin channels \/ a \in completedActivities[target[a]]
          /\ Read(a, message, "ok")
          /\ UNCHANGED vars

-----------------------------------------------------------------------------

ServerStep(a) == Proceed(a) \/ Act(a) \/ GiveUp(a)
BrokerReads(a) == \/ ReadClaim(a) \/ ReadInvoke(a) \/ ReadRelease(a)
                  \/ ReadSettle(a, "settle1") \/ ReadSettle(a, "settle2")

\* Whether new DEV owners are admitted (AdmissionStep) does not change under this
\* composition: it bears on Register only.
HarnessNext ==
    \/ \E a \in Activity : ServerStep(a) \/ BrokerReads(a) \/ \E t \in Token : Begin(a, t)
    \/ (OwnerStep \/ RuntimeStep) /\ UNCHANGED clientVars

HarnessSpec == HarnessInit /\ [][HarnessNext]_harnessVars

\* Both processes keep running, and the event loop runs a setTimeout callback once its
\* delay is over; nothing forces the user, Codex or ChatGPT to act, and a
\* request need not give up: only an answer that arrived is bound to be acted on.
HarnessFairSpec ==
    /\ HarnessSpec
    /\ WF_harnessVars(Prune /\ UNCHANGED clientVars)
    /\ \A t \in Token : WF_harnessVars(BatchTimerFires(t) /\ UNCHANGED clientVars)
    /\ \A a \in Activity : /\ WF_harnessVars(BrokerReads(a))
                           /\ WF_harnessVars(Proceed(a) \/ Act(a) \/ (Refused(a) /\ GiveUp(a)))

-----------------------------------------------------------------------------
(* Properties *)

\* A request that was told its activity is settled holds no lease on a live turn, also not
\* by a claim of its own that the broker reads after the settlement: such a lease would be
\* held by nobody and keep the turn's fence from ever committing.
SettledRequestHoldsNoLease ==
    \A a \in Activity, t \in channels : pc[a] = "done" => a \notin activities[t]

\* After the fence committed no tool call enters the turn, unless its invoke overtook its own
\* claim.  invoke does not look at the fence: what protects it is that the request holds a
\* lease while it invokes.
CommittedTurnTakesNoCalls ==
    [][\A t \in Token : Committed(t) =>
        invocations'[t] \ invocations[t] \subseteq {CallOf[a] : a \in Activity \ ordered}]_harnessVars

\* A request that abandoned its tool call, and had its release answered, has no call that
\* Codex may still be handed: not even if its invoke was read after the release.
ReleasedCallIsDead ==
    \A a \in released : reply[CallOf[a]] # "pending"

\* Once a turn has ended, every MCP request on it ends too: none waits for a dead turn.
RequestsOnEndedTurnsFinish ==
    \A a \in Activity :
        (target[a] \in issued /\ target[a] \notin channels) ~> pc[a] \in {"done", "failed"}

\* The inductive invariant the proofs use (McpHarnessProofs): the type invariant first, then
\* what a request has sent and received by where it is.
HarnessTypeOK ==
    /\ pc \in [Activity -> Place]
    /\ target \in [Activity -> Token \cup {None}]
    /\ sent \in [Activity -> SUBSET Message]
    /\ answer \in [Activity -> {"none", "ok", "error"}]
    /\ ordered \in SUBSET Activity /\ released \in SUBSET Activity

RequestsInOrder ==
    \A a \in Activity :
        /\ pc[a] = "idle" => sent[a] = {} /\ target[a] = None
        /\ pc[a] # "idle" => target[a] \in issued
        /\ answer[a] # "none" => pc[a] \in DOMAIN Awaits
        /\ "invoke" \in sent[a] => pc[a] \notin {"claiming", "claimed"}
        /\ sent[a] \cap {"settle1", "settle2"} # {}
              => pc[a] \in {"settling1", "settling2", "done", "failed"}

\* Leases and calls are on the turn the request is for.
EffectsOnTarget ==
    \A a \in Activity, t \in Token :
        a \in activities[t] \/ CallOf[a] \in invocations[t] => t = target[a]

\* An acknowledged settlement is recorded, an acknowledged release ended the turn, and ended
\* turns stay ended.
AnswersAreTrue ==
    /\ retiredBindings \subseteq issued \ channels
    /\ \A a \in Activity :
        /\ pc[a] = "done" \/ (pc[a] \in {"settling1", "settling2"} /\ answer[a] = "ok")
              => target[a] \notin channels \/ a \in completedActivities[target[a]]
        /\ a \in released \/ (pc[a] = "releasing" /\ answer[a] = "ok")
              => target[a] \in issued \ channels

\* A request whose messages are read in order holds its lease while it invokes.
LeaseBeforeInvoke ==
    \A a \in ordered :
        \/ pc[a] = "claiming" /\ answer[a] = "ok"
        \/ pc[a] = "claimed"
        \/ "invoke" \in sent[a]
        => target[a] \notin channels \/ a \in activities[target[a]]

HarnessInv == RequestsInOrder /\ EffectsOnTarget /\ AnswersAreTrue /\ LeaseBeforeInvoke
=============================================================================
