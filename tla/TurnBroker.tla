------------------------------ MODULE TurnBroker ------------------------------
(***************************************************************************)
(* The turn broker of src/src/adapters/chatgpt-web/turn-broker.ts: the     *)
(* runtime endpoint that owns one channel per ChatGPT turn.  The Codex     *)
(* adapter (the turn's owner) registers a channel, waits for batches of    *)
(* tool calls, answers them, and commits the turn's completion fence; MCP  *)
(* request handlers in another process claim the channel, queue tool calls *)
(* into it and settle their activity leases.                               *)
(*                                                                         *)
(* JavaScript runs each broker operation to its first await without        *)
(* interruption, so an operation is one action, and an operation that      *)
(* awaits (nextToolBatch, the Sent wait of a claim or of safe_complete) is *)
(* one action per uninterrupted stretch, with its resumption apart.        *)
(***************************************************************************)
EXTENDS Integers, FiniteSets

CONSTANTS
    Token,      \* the handles opaqueId can return: one per registered turn
    Call,       \* tool invocations sent to the broker, by call id
    Activity,   \* activity ids, one per MCP request
    Waiter,     \* requests that can be blocked inside the broker
    SafeToken,      \* the turns registered by registerSafe (Zero Risk)
    ExternalToken,  \* the turns an external (DEV) owner registers
    Trace, TraceOf, \* the trace id a turn is registered with
    MaxRetired,     \* MAX_RETIRED_TURN_HANDLES
    None            \* no turn, no activity

ASSUME BrokerConstants ==
    /\ SafeToken \subseteq Token
    /\ ExternalToken \subseteq Token
    /\ TraceOf \in [Token -> Trace]
    /\ MaxRetired \in Nat
    /\ IsFiniteSet(Call)
    /\ None \notin Token \cup Activity

VARIABLES
    issued, channels, retiredTokens,      \* handles: every one issued, live, remembered
    bound, bindings, retiredBindings,     \* channel.bindingId, and the map it indexes
    accepting,                            \* acceptingExternalOwners
    deadline,                             \* environment.expiresAt
    queued, delivered, invocations, batchTimer, reply,
    compactionRequested, compactionDeliveryCount,
    activities, completedActivities, activityRevision,
    completionRevision, fence, fenceSeen,
    safe, launcherSent, connectorStarted,
    waits

handleVars     == <<issued, channels, retiredTokens, bound, bindings, retiredBindings>>
callVars       == <<queued, delivered, invocations, batchTimer, reply>>
compactionVars == <<compactionRequested, compactionDeliveryCount>>
activityVars   == <<activities, completedActivities, activityRevision>>
fenceVars      == <<completionRevision, fence, fenceSeen>>
safeVars       == <<safe, launcherSent, connectorStarted>>
vars == <<handleVars, accepting, deadline, callVars, compactionVars, activityVars,
          fenceVars, safeVars, waits>>

-----------------------------------------------------------------------------
(* Types *)

Undefined  == -1                 \* completionRevision before a commit; no fence begun
Revision   == Nat \cup {Undefined}
SafeState  == {"native", "awaiting_start", "running", "completed", "revoked"}
Outcome    == {"unused", "pending", "result", "compacted", "rejected"}
\* Where a request is blocked: in one of the channel's waiter sets, or past its
\* wait with its continuation not run yet.
Blocked    == {"tools", "startWait", "claimWait", "completeWait", "completion", "retirement"}
Resumable  == {"startResume", "claimResume", "completeResume"}
Wait       == {wait \in [at: Blocked \cup Resumable \cup {"idle"},
                         turn: Token \cup {None}, activity: Activity \cup {None}] :
                 wait.at \in {"claimWait", "claimResume"} => wait.activity \in Activity}
Idle       == [at |-> "idle", turn |-> None, activity |-> None]

TypeOK ==
    /\ issued \in SUBSET Token /\ channels \in SUBSET Token
    /\ retiredTokens \in SUBSET Token
    /\ bound \in [Token -> BOOLEAN]
    /\ bindings \in SUBSET Token /\ retiredBindings \in SUBSET Token
    /\ accepting \in BOOLEAN
    /\ deadline \in [Token -> {"none", "ahead", "passed"}]
    /\ queued \in [Token -> SUBSET Call] /\ delivered \in [Token -> SUBSET Call]
    /\ invocations \in [Token -> SUBSET Call]
    /\ batchTimer \in [Token -> BOOLEAN]
    /\ reply \in [Call -> Outcome]
    /\ compactionRequested \in [Token -> BOOLEAN]
    /\ compactionDeliveryCount \in [Token -> Nat]
    /\ activities \in [Token -> SUBSET Activity]
    /\ completedActivities \in [Token -> SUBSET Activity]
    /\ activityRevision \in [Token -> Nat]
    /\ completionRevision \in [Token -> Revision]
    /\ fence \in [Token -> Revision]
    /\ fenceSeen \in [Token -> SUBSET Activity]
    /\ safe \in [Token -> SafeState]
    /\ launcherSent \in [Token -> BOOLEAN] /\ connectorStarted \in [Token -> BOOLEAN]
    /\ waits \in [Waiter -> Wait]

-----------------------------------------------------------------------------
(* Helpers *)

Init ==
    /\ issued = {} /\ channels = {} /\ retiredTokens = {}
    /\ bound = [t \in Token |-> FALSE] /\ bindings = {} /\ retiredBindings = {}
    /\ accepting = TRUE
    /\ deadline = [t \in Token |-> "none"]
    /\ queued = [t \in Token |-> {}] /\ delivered = [t \in Token |-> {}]
    /\ invocations = [t \in Token |-> {}]
    /\ batchTimer = [t \in Token |-> FALSE]
    /\ reply = [c \in Call |-> "unused"]
    /\ compactionRequested = [t \in Token |-> FALSE]
    /\ compactionDeliveryCount = [t \in Token |-> 0]
    /\ activities = [t \in Token |-> {}] /\ completedActivities = [t \in Token |-> {}]
    /\ activityRevision = [t \in Token |-> 0]
    /\ completionRevision = [t \in Token |-> Undefined]
    /\ fence = [t \in Token |-> Undefined] /\ fenceSeen = [t \in Token |-> {}]
    /\ safe = [t \in Token |-> IF t \in SafeToken THEN "awaiting_start" ELSE "native"]
    /\ launcherSent = [t \in Token |-> FALSE] /\ connectorStarted = [t \in Token |-> FALSE]
    /\ waits = [w \in Waiter |-> Idle]

WaitAt(at, t, a) == [at |-> at, turn |-> t, activity |-> a]
WaitersAt(at, t) == {w \in Waiter : waits[w].at = at /\ waits[w].turn = t}
Committed(t) == completionRevision[t] # Undefined

\* prune() opens every operation.  Running it first, as a step of its own that
\* blocks the operations until it has run, leaves the same states: prune() is
\* also all that an operation on an unknown handle does.
Expired == {t \in channels : deadline[t] = "passed"}
Pruned  == Expired = {}

\* The bounded history of retired handles; which old entry makes room is left open.
Remember(history, handles) ==
    LET all == history \cup handles
    IN  IF Cardinality(all) <= MaxRetired THEN {all}
        ELSE {kept \in SUBSET all : Cardinality(kept) = MaxRetired}

\* rejectChannel for each turn of a set: its timer stops and every invocation still pending
\* is rejected.
RejectChannel(gone) ==
    /\ batchTimer' = [t \in Token |-> t \notin gone /\ batchTimer[t]]
    /\ reply' = [c \in Call |-> IF \E t \in gone : c \in invocations[t]
                                THEN "rejected" ELSE reply[c]]
    /\ queued' = [t \in Token |-> IF t \in gone THEN {} ELSE queued[t]]
    /\ delivered' = [t \in Token |-> IF t \in gone THEN {} ELSE delivered[t]]
    /\ invocations' = [t \in Token |-> IF t \in gone THEN {} ELSE invocations[t]]

\* revoke(token) for each live token of a set: the channel and its binding go, and every
\* request blocked on it is settled.
RevokeAll(gone) ==
    LET handles == {t \in gone : bound[t]} IN
    /\ channels' = channels \ gone
    /\ bindings' = bindings \ handles
    /\ retiredBindings' \in Remember(retiredBindings, handles)
    /\ retiredTokens' \in Remember(retiredTokens, gone)
    /\ safe' = [t \in Token |-> IF t \in gone \cap SafeToken THEN "revoked" ELSE safe[t]]
    /\ RejectChannel(gone)
    /\ waits' = [w \in Waiter |-> IF waits[w].at \in Blocked /\ waits[w].turn \in gone
                                  THEN Idle ELSE waits[w]]
    /\ UNCHANGED <<issued, bound, accepting, deadline, compactionVars, activityVars,
                   fenceVars, launcherSent, connectorStarted>>

\* assertSafeHarnessRunning(channel, allowCompaction)
HarnessRunning(t, allowCompaction) ==
    t \in SafeToken => /\ safe[t] = "running"
                       /\ allowCompaction \/ ~compactionRequested[t]

\* Mutant: the calls taken stay in the queue, too.
TakeQueuedKeeping(t) ==
    /\ delivered' = [delivered EXCEPT ![t] = @ \cup queued[t]]
    /\ queued' = queued

\* takeQueued: the whole queue becomes delivered, except ids no longer pending.
TakeQueued(t) ==
    /\ delivered' = [delivered EXCEPT ![t] = @ \cup (queued[t] \cap invocations[t])]
    /\ queued' = [queued EXCEPT ![t] = {}]

\* Mutant: nothing wakes the owner for a queued call.
ScheduleNothing(t) == UNCHANGED batchTimer

\* scheduleToolWaiters: arm the batch timer if the owner waits.
ScheduleToolWaiters(t) ==
    batchTimer' = IF WaitersAt("tools", t) = {} THEN batchTimer
                  ELSE [batchTimer EXCEPT ![t] = TRUE]

-----------------------------------------------------------------------------
(* Registration, expiry and revocation *)

Register(t) ==
    /\ Pruned
    /\ t \notin issued
    /\ t \in ExternalToken => accepting
    /\ issued' = issued \cup {t}
    /\ channels' = channels \cup {t}
    /\ \E d \in {"none", "ahead"} : deadline' = [deadline EXCEPT ![t] = d]
    /\ UNCHANGED <<retiredTokens, bound, bindings, retiredBindings, accepting, callVars,
                   compactionVars, activityVars, fenceVars, safeVars, waits>>

DeadlinePasses(t) ==
    /\ t \in channels /\ deadline[t] = "ahead"
    /\ deadline' = [deadline EXCEPT ![t] = "passed"]
    /\ UNCHANGED <<handleVars, accepting, callVars, compactionVars, activityVars,
                   fenceVars, safeVars, waits>>

Prune == ~Pruned /\ RevokeAll(Expired)

\* Mutant: the channel is forgotten without rejectChannel.
RevokeUnsettled(t) ==
    /\ t \in channels
    /\ channels' = channels \ {t}
    /\ UNCHANGED <<issued, retiredTokens, bound, bindings, retiredBindings, accepting, deadline,
                   callVars, compactionVars, activityVars, fenceVars, safeVars, waits>>

Revoke(t) == t \in channels /\ RevokeAll({t})

\* Mutant: a release gives up the binding and not the turn.
ReleaseBinding(t) ==
    /\ Pruned
    /\ t \in bindings
    /\ bindings' = bindings \ {t}
    /\ retiredBindings' \in Remember(retiredBindings, {t})
    /\ UNCHANGED <<issued, channels, retiredTokens, bound, accepting, deadline, callVars,
                   compactionVars, activityVars, fenceVars, safeVars, waits>>

\* release: an MCP handler abandons the whole turn through its binding.
Release(t) == Pruned /\ t \in bindings /\ RevokeAll({t} \cap channels)

RevokeTrace(trace) ==
    LET gone == {t \in channels : TraceOf[t] = trace} IN gone # {} /\ RevokeAll(gone)

RevokeExternalOwners ==
    LET gone == channels \cap ExternalToken IN gone # {} /\ RevokeAll(gone)

Close == channels # {} /\ RevokeAll(channels)

SetExternalOwnersAccepted(accepted) ==
    /\ accepting' = accepted
    /\ UNCHANGED <<handleVars, deadline, callVars, compactionVars, activityVars,
                   fenceVars, safeVars, waits>>

-----------------------------------------------------------------------------
(* Tool batches: the owner's side *)

BlockAt(w, at, t, a) ==
    /\ waits[w] = Idle
    /\ waits' = [waits EXCEPT ![w] = WaitAt(at, t, a)]
    /\ UNCHANGED <<handleVars, accepting, deadline, callVars, compactionVars,
                   activityVars, fenceVars, safeVars>>

Finish(w) == waits' = [waits EXCEPT ![w] = Idle]

\* nextToolBatch past the Zero Risk start: calls already handed out are handed out
\* again until they are answered, then the queue is taken whole, then the owner waits.
NextToolBatch(w, t) ==
    /\ Pruned
    /\ t \in channels
    /\ HarnessRunning(t, FALSE)
    /\ ~compactionRequested[t]
    /\ \/ /\ delivered[t] # {}
          /\ Finish(w)
          /\ UNCHANGED callVars
       \/ /\ delivered[t] = {} /\ queued[t] # {}
          /\ TakeQueued(t)
          /\ Finish(w)
          /\ UNCHANGED <<invocations, batchTimer, reply>>
       \/ /\ delivered[t] = {} /\ queued[t] = {}
          /\ waits' = [waits EXCEPT ![w] = WaitAt("tools", t, None)]
          /\ UNCHANGED callVars
    /\ UNCHANGED <<handleVars, accepting, deadline, compactionVars, activityVars,
                   fenceVars, safeVars>>

OwnerNext(w, t) == waits[w] = Idle /\ NextToolBatch(w, t)

\* waitForSafeStart inside nextToolBatch
OwnerNextBeforeStart(w, t) ==
    /\ Pruned
    /\ t \in channels /\ safe[t] = "awaiting_start"
    /\ BlockAt(w, "startWait", t, None)

\* The continuation after waitForSafeStart: a turn revoked, finished or under compaction
\* in the meantime ends the request.
OwnerNextResumes(w) ==
    LET t == waits[w].turn IN
    /\ waits[w].at = "startResume"
    /\ Pruned
    /\ \/ NextToolBatch(w, t)
       \/ /\ t \notin channels \/ ~HarnessRunning(t, FALSE)
          /\ Finish(w)
          /\ UNCHANGED <<handleVars, accepting, deadline, callVars, compactionVars,
                         activityVars, fenceVars, safeVars>>

\* The abort listener of a blocked request takes its waiter out of the channel.
AbortWait(w) ==
    /\ waits[w].at \in Blocked
    /\ Finish(w)
    /\ UNCHANGED <<handleVars, accepting, deadline, callVars, compactionVars,
                   activityVars, fenceVars, safeVars>>

CompleteTool(t, c) ==
    /\ Pruned
    /\ t \in channels
    /\ HarnessRunning(t, TRUE)
    /\ c \in invocations[t] /\ c \in delivered[t]
    /\ delivered' = [delivered EXCEPT ![t] = @ \ {c}]
    /\ invocations' = [invocations EXCEPT ![t] = @ \ {c}]
    /\ reply' = [reply EXCEPT ![c] = "result"]
    /\ UNCHANGED <<handleVars, accepting, deadline, queued, batchTimer, compactionVars,
                   activityVars, fenceVars, safeVars, waits>>

\* Mutant: compaction interrupts every pending call.
InterruptedAll(t) == invocations[t]

\* The calls compaction answers: those still queued.
Interrupted(t) == queued[t] \cap invocations[t]

RequestCompaction(t) ==
    /\ Pruned
    /\ t \in channels
    /\ HarnessRunning(t, FALSE)
    /\ ~compactionRequested[t]
    /\ compactionRequested' = [compactionRequested EXCEPT ![t] = TRUE]
    /\ batchTimer' = [batchTimer EXCEPT ![t] = FALSE]
    /\ queued' = [queued EXCEPT ![t] = {}]
    /\ invocations' = [invocations EXCEPT ![t] = @ \ Interrupted(t)]
    /\ compactionDeliveryCount' =
         [compactionDeliveryCount EXCEPT ![t] = @ + Cardinality(Interrupted(t))]
    /\ reply' = [c \in Call |-> IF c \in Interrupted(t) THEN "compacted" ELSE reply[c]]
    /\ UNCHANGED <<handleVars, accepting, deadline, delivered, activityVars, fenceVars,
                   safeVars, waits>>

-----------------------------------------------------------------------------
(* The completion fence: the owner reads a revision, later commits it *)

\* beginCompletionFence changes nothing in the broker; `fence` is the revision the owner
\* now holds, and fenceSeen, a history variable, the activities ended by then.
BeginFence(t) ==
    /\ Pruned
    /\ t \in channels
    /\ \/ Committed(t) /\ fence' = [fence EXCEPT ![t] = completionRevision[t]]
       \/ /\ ~Committed(t)
          /\ activities[t] = {} /\ invocations[t] = {}
          /\ fence' = [fence EXCEPT ![t] = activityRevision[t]]
    /\ fenceSeen' = [fenceSeen EXCEPT ![t] = completedActivities[t]]
    /\ UNCHANGED <<handleVars, accepting, deadline, callVars, compactionVars,
                   activityVars, completionRevision, safeVars, waits>>

\* Mutant: the revision the owner holds is not compared.
CommitAnyRevision(t) ==
    /\ Pruned
    /\ t \in channels
    /\ fence[t] # Undefined
    /\ ~Committed(t)
    /\ activities[t] = {} /\ invocations[t] = {}
    /\ completionRevision' = [completionRevision EXCEPT ![t] = fence[t]]
    /\ UNCHANGED <<handleVars, accepting, deadline, callVars, compactionVars,
                   activityVars, fence, fenceSeen, safeVars, waits>>

CommitFence(t) ==
    /\ Pruned
    /\ t \in channels
    /\ fence[t] # Undefined
    /\ ~Committed(t)
    /\ activityRevision[t] = fence[t]
    /\ activities[t] = {} /\ invocations[t] = {}
    /\ completionRevision' = [completionRevision EXCEPT ![t] = fence[t]]
    /\ UNCHANGED <<handleVars, accepting, deadline, callVars, compactionVars,
                   activityVars, fence, fenceSeen, safeVars, waits>>

WaitForRetirement(w, t) == Pruned /\ t \in channels /\ BlockAt(w, "retirement", t, None)

-----------------------------------------------------------------------------
(* Zero Risk control: Sent from the Launcher, start from the connector *)

\* Mutant: either of the two confirmations starts the turn.
ActivateEither(t) ==
    IF safe[t] = "awaiting_start" /\ (launcherSent'[t] \/ connectorStarted'[t])
    THEN /\ safe' = [safe EXCEPT ![t] = "running"]
         /\ deadline' = [deadline EXCEPT ![t] = "none"]
    ELSE UNCHANGED <<safe, deadline>>

\* activateSafeTurn, after launcherSent and connectorStarted have their new values.
ActivateSafe(t) ==
    IF safe[t] = "awaiting_start" /\ launcherSent'[t] /\ connectorStarted'[t]
    THEN /\ safe' = [safe EXCEPT ![t] = "running"]
         /\ deadline' = [deadline EXCEPT ![t] = "none"]
    ELSE UNCHANGED <<safe, deadline>>

\* Mutant: only the owner's waiters go on.
ResumedOwner(points, t) ==
    [w \in Waiter |-> IF waits[w].turn = t /\ waits[w].at = "startWait" /\ "startWait" \in points
                      THEN [waits[w] EXCEPT !.at = "startResume"] ELSE waits[w]]

\* Waiters the activation (startWait) or the Sent confirmation (the others) lets go on.
Resumed(points, t) ==
    [w \in Waiter |->
        IF waits[w].turn # t \/ waits[w].at \notin points THEN waits[w]
        ELSE [waits[w] EXCEPT !.at = CASE waits[w].at = "startWait" -> "startResume"
                                       [] waits[w].at = "claimWait" -> "claimResume"
                                       [] OTHER -> "completeResume"]]

StartSafeTurn(t) ==
    /\ Pruned
    /\ t \in channels \cap SafeToken
    /\ safe[t] \notin {"completed", "revoked"}
    /\ ~connectorStarted[t]
    /\ connectorStarted' = [connectorStarted EXCEPT ![t] = TRUE]
    /\ UNCHANGED launcherSent
    /\ ActivateSafe(t)
    /\ waits' = Resumed(IF safe'[t] = "running" THEN {"startWait"} ELSE {}, t)
    /\ UNCHANGED <<handleVars, accepting, callVars, compactionVars, activityVars, fenceVars>>

ConfirmSafeTurnSent(t) ==
    /\ Pruned
    /\ t \in channels \cap SafeToken
    /\ safe[t] \notin {"completed", "revoked"}
    /\ ~launcherSent[t]
    /\ launcherSent' = [launcherSent EXCEPT ![t] = TRUE]
    /\ UNCHANGED connectorStarted
    /\ ActivateSafe(t)
    /\ waits' = Resumed({"claimWait", "completeWait"}
                          \cup IF safe'[t] = "running" THEN {"startWait"} ELSE {}, t)
    /\ UNCHANGED <<handleVars, accepting, callVars, compactionVars, activityVars, fenceVars>>

CanCompleteSafe(t) ==
    /\ t \in channels \cap SafeToken
    /\ safe[t] = "running"
    /\ invocations[t] = {} /\ activities[t] = {}

\* completeSafeTurn, first acceptance: every completion waiter gets the answer.
CompleteSafe(t, settled) ==
    /\ CanCompleteSafe(t)
    /\ safe' = [safe EXCEPT ![t] = "completed"]
    /\ waits' = [w \in Waiter |-> IF w \in settled \cup WaitersAt("completion", t)
                                  THEN Idle ELSE waits[w]]
    /\ UNCHANGED <<handleVars, accepting, deadline, callVars, compactionVars,
                   activityVars, fenceVars, launcherSent, connectorStarted>>

SafeComplete(t) == Pruned /\ CompleteSafe(t, {})

\* safe_complete before Sent waits for the confirmation.
SafeCompleteBeforeSent(w, t) ==
    /\ Pruned
    /\ t \in channels /\ safe[t] = "awaiting_start" /\ ~launcherSent[t]
    /\ BlockAt(w, "completeWait", t, None)

SafeCompleteResumes(w) ==
    LET t == waits[w].turn IN
    /\ waits[w].at = "completeResume"
    /\ Pruned
    /\ \/ CompleteSafe(t, {w})
       \/ /\ ~CanCompleteSafe(t)
          /\ Finish(w)
          /\ UNCHANGED <<handleVars, accepting, deadline, callVars, compactionVars,
                         activityVars, fenceVars, safeVars>>

WaitForSafeCompletion(w, t) ==
    /\ Pruned
    /\ t \in channels \cap SafeToken
    /\ safe[t] \notin {"completed", "revoked"}
    /\ BlockAt(w, "completion", t, None)

-----------------------------------------------------------------------------
(* MCP requests: claim, invoke, activity_complete *)

\* Mutants: a claim that does not look at the fence, and one that does not look at what
\* was settled.
ClaimAfterCommit(t, a) ==
    t \in channels /\ HarnessRunning(t, FALSE) /\ a \notin completedActivities[t]
ClaimAfterSettlement(t, a) == t \in channels /\ ~Committed(t) /\ HarnessRunning(t, FALSE)

\* Every check of claim that follows the Sent wait.
ClaimAccepted(t, a) ==
    /\ t \in channels
    /\ ~Committed(t)
    /\ HarnessRunning(t, FALSE)
    /\ a \notin completedActivities[t]

\* The claim's effects: a new activity moves the revision; the first claim of the turn
\* creates its binding, a later one must find the binding it recorded.
TakeLease(t, a) ==
    /\ activities' = [activities EXCEPT ![t] = @ \cup {a}]
    /\ activityRevision' = [activityRevision EXCEPT ![t] = IF a \in activities[t] THEN @ ELSE @ + 1]
    /\ bound' = [bound EXCEPT ![t] = TRUE]
    /\ bindings' = IF bound[t] THEN bindings ELSE bindings \cup {t}
    /\ UNCHANGED <<issued, channels, retiredTokens, retiredBindings, accepting, deadline,
                   callVars, compactionVars, completedActivities, fenceVars, safeVars>>

Claim(t, a) ==
    /\ Pruned
    /\ ClaimAccepted(t, a)
    /\ TakeLease(t, a)
    /\ UNCHANGED waits

ClaimBeforeSent(w, t, a) ==
    /\ Pruned
    /\ t \in channels \cap SafeToken /\ ~Committed(t)
    /\ safe[t] = "awaiting_start" /\ ~launcherSent[t]
    /\ BlockAt(w, "claimWait", t, a)

ClaimResumes(w) ==
    LET t == waits[w].turn  a == waits[w].activity IN
    /\ waits[w].at = "claimResume"
    /\ Pruned
    /\ Finish(w)
    /\ \/ ClaimAccepted(t, a) /\ TakeLease(t, a)
       \/ /\ ~ClaimAccepted(t, a)
          /\ UNCHANGED <<handleVars, accepting, deadline, callVars, compactionVars,
                         activityVars, fenceVars, safeVars>>

\* A settlement is recorded even when it overtakes its claim, once per activity.
ActivityComplete(t, a) ==
    /\ Pruned
    /\ t \in channels
    /\ a \notin completedActivities[t]
    /\ activities' = [activities EXCEPT ![t] = @ \ {a}]
    /\ completedActivities' = [completedActivities EXCEPT ![t] = @ \cup {a}]
    /\ activityRevision' = [activityRevision EXCEPT ![t] = @ + 1]
    /\ UNCHANGED <<handleVars, accepting, deadline, callVars, compactionVars, fenceVars,
                   safeVars, waits>>

\* invoke finds the turn through its binding and does not look at the fence.
Invoke(t, c) ==
    /\ Pruned
    /\ t \in bindings
    /\ HarnessRunning(t, FALSE)
    /\ reply[c] = "unused"
    /\ \/ /\ compactionRequested[t]
          /\ reply' = [reply EXCEPT ![c] = "compacted"]
          /\ compactionDeliveryCount' = [compactionDeliveryCount EXCEPT ![t] = @ + 1]
          /\ UNCHANGED <<queued, delivered, invocations, batchTimer>>
       \/ /\ ~compactionRequested[t]
          /\ reply' = [reply EXCEPT ![c] = "pending"]
          /\ invocations' = [invocations EXCEPT ![t] = @ \cup {c}]
          /\ queued' = [queued EXCEPT ![t] = @ \cup {c}]
          /\ ScheduleToolWaiters(t)
          /\ UNCHANGED <<delivered, compactionDeliveryCount>>
    /\ UNCHANGED <<handleVars, accepting, deadline, compactionRequested, activityVars,
                   fenceVars, safeVars, waits>>

\* wakeToolWaiters: one waiter takes the queue, every other one is turned away.
BatchTimerFires(t) ==
    /\ batchTimer[t]
    /\ batchTimer' = [batchTimer EXCEPT ![t] = FALSE]
    /\ IF queued[t] = {} \/ WaitersAt("tools", t) = {}
       THEN UNCHANGED <<queued, delivered, waits>>
       ELSE /\ TakeQueued(t)
            /\ waits' = [w \in Waiter |-> IF w \in WaitersAt("tools", t)
                                          THEN Idle ELSE waits[w]]
    /\ UNCHANGED <<handleVars, accepting, deadline, invocations, reply, compactionVars,
                   activityVars, fenceVars, safeVars>>

-----------------------------------------------------------------------------

OwnerStep ==
    \/ \E t \in Token : \/ Register(t) \/ Revoke(t) \/ RequestCompaction(t)
                        \/ BeginFence(t) \/ CommitFence(t) \/ ConfirmSafeTurnSent(t)
                        \/ \E c \in Call : CompleteTool(t, c)
    \/ \E w \in Waiter, t \in Token : \/ OwnerNext(w, t) \/ OwnerNextBeforeStart(w, t)
                                      \/ WaitForRetirement(w, t)
                                      \/ WaitForSafeCompletion(w, t)
    \/ \E w \in Waiter : OwnerNextResumes(w) \/ AbortWait(w)

McpStep ==
    \/ \E t \in Token : \/ Release(t) \/ StartSafeTurn(t) \/ SafeComplete(t)
                        \/ \E a \in Activity : Claim(t, a) \/ ActivityComplete(t, a)
                        \/ \E c \in Call : Invoke(t, c)
    \/ \E w \in Waiter, t \in Token : \/ SafeCompleteBeforeSent(w, t)
                                      \/ \E a \in Activity : ClaimBeforeSent(w, t, a)
    \/ \E w \in Waiter : ClaimResumes(w) \/ SafeCompleteResumes(w)

RuntimeStep ==
    \/ \E t \in Token : DeadlinePasses(t) \/ BatchTimerFires(t)
    \/ \E trace \in Trace : RevokeTrace(trace)
    \/ Prune \/ RevokeExternalOwners \/ Close

AdmissionStep == \E accepted \in BOOLEAN : SetExternalOwnersAccepted(accepted)

Next == OwnerStep \/ McpStep \/ RuntimeStep \/ AdmissionStep

Spec == Init /\ [][Next]_vars

-----------------------------------------------------------------------------
(* Properties *)

\* A pending call is queued or handed to Codex, never both and never neither, whatever
\* the order of batches, results, aborts, compaction and revocation: a call in neither
\* place would leave ChatGPT waiting for a tool that nobody runs, and one in both would
\* run twice.
CallsPartitioned ==
    \A t \in Token : /\ queued[t] \cap delivered[t] = {}
                     /\ queued[t] \cup delivered[t] = invocations[t]

\* The promise behind every unanswered invoke request is held by exactly one live turn, so
\* that the turn's end always settles it (rejectChannel).
NoOrphanedCall ==
    /\ \A c \in Call : reply[c] = "pending" <=> \E t \in channels : c \in invocations[t]
    /\ \A t1, t2 \in Token : t1 # t2 => invocations[t1] \cap invocations[t2] = {}

\* A request blocked inside the broker waits on a live turn: every way a turn can end
\* settles the requests blocked on it.
NoWaitOutlivesItsTurn ==
    \A w \in Waiter : waits[w].at \in Blocked => waits[w].turn \in channels

\* If calls are queued while the owner waits, the batch timer is armed: the wakeup
\* scheduleToolWaiters owes the owner is never lost.
NoLostWakeup ==
    \A t \in channels : queued[t] # {} /\ WaitersAt("tools", t) # {} => batchTimer[t]

\* channel.bindingId and the bindings map agree, so that claim's "turn token binding state
\* is inconsistent" can never be raised and release always finds the turn it is for.
BindingsAgree == bindings = {t \in channels : bound[t]}

\* After the fence committed no MCP request holds a lease on the turn: a claim is refused,
\* also one whose settlement overtook it.
CommittedTurnIsQuiet ==
    \A t \in Token : /\ Committed(t) => activities[t] = {}
                     /\ activities[t] \cap completedActivities[t] = {}

\* The fence commits only if no MCP activity ended since the owner read its revision, not
\* even one that was never seen to start; with no activity open, none started either.
FenceSound ==
    [][\A t \in Token :
        ~Committed(t) /\ Committed(t)' => completedActivities[t] = fenceSeen[t]]_vars

\* Zero Risk: no lease, and no tool call queued or handed out, unless the user confirmed
\* Sent in the Launcher and the connector started the turn; none is left when it completes.
\* A turn that runs has no deadline any more.
SafeTurnAuthorized ==
    \A t \in SafeToken \cap channels :
        /\ activities[t] # {} \/ invocations[t] # {} => safe[t] = "running"
        /\ safe[t] \in {"running", "completed"} =>
              launcherSent[t] /\ connectorStarted[t] /\ deadline[t] = "none"

\* Zero Risk: no request stays blocked on something that has already happened: the owner on
\* the start, an early claim or completion on Sent, the browser turn on the final answer.
NoLostSafeWakeup ==
    \A w \in Waiter :
        LET t == waits[w].turn IN
        /\ waits[w].at = "startWait" => safe[t] = "awaiting_start"
        /\ waits[w].at \in {"claimWait", "completeWait"} => ~launcherSent[t]
        /\ waits[w].at = "completion" => safe[t] \notin {"completed", "revoked"}

\* A call answered with a result was handed to Codex before; compaction interrupts only calls
\* that were still queued, so no call Codex may be running is reported as not run.
AnswersMatchDelivery ==
    [][\A c \in Call :
        reply[c] = "pending" =>
            /\ reply'[c] = "result" => \E t \in Token : c \in delivered[t]
            /\ reply'[c] = "compacted" => \A t \in Token : c \notin delivered[t]]_vars

\* Calls queued while the owner is waiting are handed out, unless the wait or the turn ends
\* or compaction takes the calls first.
QueuedCallsAreHandedOut ==
    \A t \in Token : (t \in channels /\ queued[t] # {} /\ WaitersAt("tools", t) # {})
                        ~> (queued[t] = {} \/ WaitersAt("tools", t) = {})

\* The inductive invariants the proofs use (TurnBrokerSafetyProofs).  Calls: besides the two
\* properties, only live turns hold calls, a handle binds only once it is issued, and nothing
\* is queued behind a compaction.
CallInv ==
    /\ CallsPartitioned /\ NoOrphanedCall /\ BindingsAgree
    /\ channels \subseteq issued
    /\ \A t \in Token : /\ t \notin channels => invocations[t] = {}
                        /\ bound[t] => t \in issued
                        /\ compactionRequested[t] => queued[t] = {}

\* Fences: a revision the owner holds is one the turn had, and as long as the turn still has
\* it, the activities that ended are those the owner knew of.
FenceInv ==
    /\ CommittedTurnIsQuiet
    /\ \A t \in Token : fence[t] # Undefined /\ ~Committed(t) =>
          /\ fence[t] <= activityRevision[t]
          /\ fence[t] = activityRevision[t] => completedActivities[t] = fenceSeen[t]

\* Waits: the three properties hold each other up only through the calls' invariant (a turn
\* that is just registered has an empty queue).
WaitInv == NoWaitOutlivesItsTurn /\ NoLostWakeup /\ NoLostSafeWakeup

\* Zero Risk: a turn is registered without a lease and before its start.
SafeInv ==
    /\ SafeTurnAuthorized
    /\ \A t \in SafeToken \ issued : safe[t] = "awaiting_start" /\ activities[t] = {}

\* The broker implements the abstract relay of tool calls: each call gets one outcome, and
\* no timer, abort, redelivery, fence or revocation gives a call that was never handed over
\* a result, or takes one back.
Relay == INSTANCE ToolRelay WITH
    Turn <- Token, opened <- issued, open <- channels, waiting <- queued,
    handed <- delivered, interrupted <- compactionRequested, outcome <- reply

ImplementsToolRelay == Relay!Spec
=============================================================================
