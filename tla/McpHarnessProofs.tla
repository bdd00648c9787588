--------------------------- MODULE McpHarnessProofs ---------------------------
(***************************************************************************)
(* Safety of McpHarness for every set of turns, MCP requests and calls:    *)
(* the composition is a behaviour of the broker, and the broker's own      *)
(* invariants (TurnBrokerSafetyProofs) carry the safety of the requests.   *)
(***************************************************************************)
EXTENDS McpHarness, TurnBrokerSafetyProofs

-----------------------------------------------------------------------------
(* The broker under the MCP server *)

\* Every step of the composition is a step of the broker or leaves it alone.
LEMMA BrokerSteps ==
  ASSUME TypeOK, [HarnessNext]_harnessVars PROVE [Next]_vars
<1>1. ASSUME NEW a \in Activity, ServerStep(a) \/ (\E t \in Token : Begin(a, t))
      PROVE  UNCHANGED vars
  BY <1>1 DEF ServerStep, Proceed, Act, GiveUp, Begin, GoTo
<1>2. ASSUME NEW a \in Activity, BrokerReads(a) PROVE Next \/ UNCHANGED vars
  <2>1. CallOf[a] \in Call
    BY HarnessConstants
  <2>2. channels \subseteq Token /\ bindings \subseteq Token
    BY DEF TypeOK
  <2>3. CASE Claim(target[a], a)
    <3>1. target[a] \in Token
      BY <2>2, <2>3 DEF Claim, ClaimAccepted
    <3> QED BY <2>3, <3>1 DEF Next, McpStep
  <2>4. CASE Invoke(target[a], CallOf[a])
    <3>1. target[a] \in Token
      BY <2>2, <2>4 DEF Invoke
    <3> QED BY <2>1, <2>4, <3>1 DEF Next, McpStep
  <2>5. CASE Release(target[a])
    <3>1. target[a] \in Token
      BY <2>2, <2>5 DEF Release
    <3> QED BY <2>5, <3>1 DEF Next, McpStep
  <2>6. CASE ActivityComplete(target[a], a)
    <3>1. target[a] \in Token
      BY <2>2, <2>6 DEF ActivityComplete
    <3> QED BY <2>6, <3>1 DEF Next, McpStep
  <2> QED BY <1>2, <2>3, <2>4, <2>5, <2>6
          DEF BrokerReads, ReadClaim, ReadInvoke, ReadRelease, ReadSettle
<1>3. CASE UNCHANGED harnessVars
  BY <1>3 DEF harnessVars
<1> QED BY <1>1, <1>2, <1>3 DEF HarnessNext, Next

\* The MCP server drives the broker only through behaviours the broker's specification
\* allows, so that every invariant of the broker holds in the composition.
THEOREM HarnessImplementsBroker == HarnessSpec => Spec
<1>1. HarnessInit => Init /\ TypeOK
  BY BrokerConstants DEF HarnessInit, Init, TypeOK, Revision, Undefined, SafeState, Outcome, Wait,
     Idle
<1>2. TypeOK /\ [HarnessNext]_harnessVars => [Next]_vars /\ TypeOK'
  BY BrokerSteps, TypeStep
<1> QED BY <1>1, <1>2, PTL DEF HarnessSpec, Spec

\* The broker's invariants the requests rest on.
LEMMA BrokerInvariants == HarnessSpec => [](TypeOK /\ CallInv /\ FenceInv)
BY HarnessImplementsBroker, CallsInvariant, FenceInvariant, PTL

-----------------------------------------------------------------------------
(* What the broker never takes back *)

\* A turn that was issued and has ended stays ended, the history of bindings grows by turns
\* that end, and a settlement stays recorded.
Lasting ==
    /\ issued \subseteq issued'
    /\ channels' \cap issued \subseteq channels
    /\ channels' \subseteq issued'
    /\ retiredBindings' \subseteq retiredBindings \cup (channels \ channels')
    /\ \A t \in Token : completedActivities[t] \subseteq completedActivities'[t]

LEMMA RememberBound ==
  ASSUME NEW history, NEW handles, NEW kept \in Remember(history, handles)
  PROVE  kept \subseteq history \cup handles
BY DEF Remember

LEMMA RevokeAllLasts ==
  ASSUME CallInv, NEW gone \in SUBSET channels, RevokeAll(gone) PROVE Lasting
<1> DEFINE handles == {t \in gone : bound[t]}
<1>1. retiredBindings' \in Remember(retiredBindings, handles)
  BY DEF RevokeAll
<1>2. retiredBindings' \subseteq retiredBindings \cup handles
  BY <1>1, RememberBound
<1> QED BY <1>2 DEF RevokeAll, Lasting, activityVars, CallInv

LEMMA EveryStepLasts ==
  ASSUME TypeOK, CallInv, [Next]_vars PROVE Lasting
<1> USE DEF handleVars, activityVars
<1>1. ASSUME NEW t \in Token, Register(t) PROVE Lasting
  BY <1>1 DEF Register, Lasting, CallInv
<1>2. ASSUME NEW t \in Token, NEW a, ActivityComplete(t, a) PROVE Lasting
  BY <1>2 DEF ActivityComplete, Lasting, CallInv, TypeOK
<1>3. ASSUME NEW t, NEW a, TakeLease(t, a) PROVE Lasting
  BY <1>3 DEF TakeLease, Lasting, CallInv
<1>4. ASSUME NEW w \in Waiter, NEW t, NextToolBatch(w, t) PROVE Lasting
  BY <1>4 DEF NextToolBatch, Lasting, CallInv
<1>5. ASSUME OwnerStep PROVE Lasting
  <2>1. ASSUME NEW t \in Token, Revoke(t) PROVE Lasting
    BY <2>1, RevokeAllLasts DEF Revoke
  <2>2. ASSUME NEW t \in Token, \/ RequestCompaction(t) \/ BeginFence(t) \/ CommitFence(t)
                                \/ ConfirmSafeTurnSent(t) \/ \E c \in Call : CompleteTool(t, c)
        PROVE  Lasting
    BY <2>2 DEF RequestCompaction, BeginFence, CommitFence, ConfirmSafeTurnSent, CompleteTool,
       Lasting, CallInv
  <2>3. ASSUME NEW w \in Waiter, OwnerNextResumes(w) \/ AbortWait(w) PROVE Lasting
    BY <1>4, <2>3 DEF OwnerNextResumes, AbortWait, Lasting, CallInv
  <2>4. ASSUME NEW w \in Waiter, NEW t \in Token,
               \/ OwnerNextBeforeStart(w, t) \/ WaitForRetirement(w, t)
               \/ WaitForSafeCompletion(w, t)
        PROVE  Lasting
    BY <2>4 DEF OwnerNextBeforeStart, WaitForRetirement, WaitForSafeCompletion, BlockAt,
       Lasting, CallInv
  <2> QED BY <1>1, <1>4, <1>5, <2>1, <2>2, <2>3, <2>4 DEF OwnerStep, OwnerNext
<1>6. ASSUME McpStep PROVE Lasting
  <2>1. ASSUME NEW t \in Token, Release(t) PROVE Lasting
    BY <2>1, RevokeAllLasts DEF Release
  <2>2. ASSUME NEW t \in Token, StartSafeTurn(t) \/ SafeComplete(t) PROVE Lasting
    BY <2>2 DEF StartSafeTurn, SafeComplete, CompleteSafe, Lasting, CallInv
  <2>3. ASSUME NEW t \in Token, NEW c \in Call, Invoke(t, c) PROVE Lasting
    BY <2>3 DEF Invoke, Lasting, CallInv
  <2>4. ASSUME NEW w \in Waiter, NEW t \in Token,
               SafeCompleteBeforeSent(w, t) \/ (\E a \in Activity : ClaimBeforeSent(w, t, a))
        PROVE  Lasting
    BY <2>4 DEF SafeCompleteBeforeSent, ClaimBeforeSent, BlockAt, Lasting, CallInv
  <2>5. ASSUME NEW w \in Waiter, ClaimResumes(w) \/ SafeCompleteResumes(w) PROVE Lasting
    BY <1>3, <2>5 DEF ClaimResumes, SafeCompleteResumes, CompleteSafe, Lasting, CallInv
  <2> QED BY <1>2, <1>3, <1>6, <2>1, <2>2, <2>3, <2>4, <2>5 DEF McpStep, Claim
<1>7. ASSUME RuntimeStep \/ AdmissionStep PROVE Lasting
  <2>1. ASSUME NEW t \in Token, DeadlinePasses(t) \/ BatchTimerFires(t) PROVE Lasting
    BY <2>1 DEF DeadlinePasses, BatchTimerFires, Lasting, CallInv
  <2>2. ASSUME NEW accepted \in BOOLEAN, SetExternalOwnersAccepted(accepted) PROVE Lasting
    BY <2>2 DEF SetExternalOwnersAccepted, Lasting, CallInv
  <2>3. ASSUME NEW trace \in Trace, RevokeTrace(trace) PROVE Lasting
    BY <2>3, RevokeAllLasts DEF RevokeTrace
  <2>4. ASSUME Prune \/ RevokeExternalOwners \/ Close PROVE Lasting
    BY <2>4, RevokeAllLasts DEF Prune, RevokeExternalOwners, Close, Expired
  <2> QED BY <1>7, <2>1, <2>2, <2>3, <2>4 DEF RuntimeStep, AdmissionStep
<1>8. CASE UNCHANGED vars
  BY <1>8 DEF vars, Lasting, CallInv
<1> QED BY <1>5, <1>6, <1>7, <1>8 DEF Next

\* Neither the owner nor the runtime takes or settles a lease, or adds a call.
Quiet ==
    /\ UNCHANGED <<activities, completedActivities>>
    /\ \A t \in Token : invocations'[t] \subseteq invocations[t]

LEMMA RestIsQuiet ==
  ASSUME TypeOK, OwnerStep \/ RuntimeStep PROVE Quiet
<1> USE DEF callVars, activityVars
<1>1. ASSUME NEW gone, RevokeAll(gone) PROVE Quiet
  BY <1>1 DEF RevokeAll, RejectChannel, Quiet
<1>2. ASSUME NEW w \in Waiter, NEW t, NextToolBatch(w, t) PROVE Quiet
  BY <1>2 DEF NextToolBatch, Quiet
<1>3. CASE OwnerStep
  <2>1. ASSUME NEW t \in Token,
               Register(t) \/ BeginFence(t) \/ CommitFence(t) \/ ConfirmSafeTurnSent(t)
        PROVE  Quiet
    BY <2>1 DEF Register, BeginFence, CommitFence, ConfirmSafeTurnSent, Quiet
  <2>4. ASSUME NEW t \in Token, RequestCompaction(t) \/ \E c \in Call : CompleteTool(t, c)
        PROVE  Quiet
    <3>1. \E gone : invocations' = [invocations EXCEPT ![t] = @ \ gone]
      BY <2>4 DEF RequestCompaction, CompleteTool
    <3>2. UNCHANGED <<activities, completedActivities>>
      BY <2>4 DEF RequestCompaction, CompleteTool
    <3> QED BY <3>1, <3>2 DEF Quiet, TypeOK
  <2>2. ASSUME NEW w \in Waiter, OwnerNextResumes(w) \/ AbortWait(w) PROVE Quiet
    BY <1>2, <2>2 DEF OwnerNextResumes, AbortWait, Quiet
  <2>3. ASSUME NEW w \in Waiter, NEW t \in Token,
               \/ OwnerNextBeforeStart(w, t) \/ WaitForRetirement(w, t)
               \/ WaitForSafeCompletion(w, t)
        PROVE  Quiet
    BY <2>3 DEF OwnerNextBeforeStart, WaitForRetirement, WaitForSafeCompletion, BlockAt, Quiet
  <2> QED BY <1>1, <1>2, <1>3, <2>1, <2>2, <2>3, <2>4 DEF OwnerStep, OwnerNext, Revoke
<1>4. CASE RuntimeStep
  <2>1. ASSUME NEW t \in Token, DeadlinePasses(t) \/ BatchTimerFires(t) PROVE Quiet
    BY <2>1 DEF DeadlinePasses, BatchTimerFires, Quiet
  <2> QED BY <1>1, <1>4, <2>1 DEF RuntimeStep, RevokeTrace, Prune, RevokeExternalOwners, Close
<1> QED BY <1>3, <1>4

-----------------------------------------------------------------------------
(* The requests *)

\* The message a request waits for, by where it is, and the messages sent before another.
LEMMA AwaitsAre ==
  /\ DOMAIN Awaits = {"claiming", "invoking", "releasing", "settling1", "settling2"}
  /\ Awaits["claiming"] = "claim" /\ Awaits["invoking"] = "invoke"
  /\ Awaits["releasing"] = "release"
  /\ Awaits["settling1"] = "settle1" /\ Awaits["settling2"] = "settle2"
BY DEF Awaits

LEMMA BeforeAre ==
  /\ Before["invoke"] = {"claim"}
  /\ "invoke" \in Before["settle1"] /\ "invoke" \in Before["settle2"]
BY DEF Before, Message

\* A request moves on: what it has sent and received afterwards.
LEMMA GoToTypes ==
  ASSUME HarnessTypeOK, NEW a \in Activity, NEW place \in Place, NEW kept \in SUBSET Message,
         GoTo(a, place, kept)
  PROVE  /\ pc' \in [Activity -> Place] /\ sent' \in [Activity -> SUBSET Message]
         /\ answer' \in [Activity -> {"none", "ok", "error"}]
         /\ ordered' \in SUBSET Activity
<1>1. place \in DOMAIN Awaits => Awaits[place] \in Message
  BY AwaitsAre DEF Message
<1> QED BY <1>1 DEF GoTo, HarnessTypeOK

LEMMA ReadTypes ==
  ASSUME HarnessTypeOK, NEW a \in Activity, NEW message, NEW outcome \in {"none", "ok", "error"},
         Read(a, message, outcome)
  PROVE  HarnessTypeOK'
BY DEF Read, HarnessTypeOK

\* The places Proceed and GiveUp go to.
LEMMA HarnessTypeStep ==
  ASSUME TypeOK, HarnessTypeOK, [HarnessNext]_harnessVars PROVE HarnessTypeOK'
<1>1. ASSUME NEW a \in Activity, NEW t \in Token, Begin(a, t) PROVE HarnessTypeOK'
  <2>1. "claiming" \in Place
    BY AwaitsAre DEF Place
  <2> QED BY <1>1, <2>1, GoToTypes DEF Begin, HarnessTypeOK
<1>2. ASSUME NEW a \in Activity, Proceed(a) PROVE HarnessTypeOK'
  <2>1. PICK place \in {"claimed", "settling1", "done"} : GoTo(a, place, sent[a])
    BY <1>2 DEF Proceed
  <2>2. place \in Place /\ sent[a] \in SUBSET Message
    BY AwaitsAre DEF Place, HarnessTypeOK
  <2> QED BY <1>2, <2>1, <2>2, GoToTypes DEF Proceed, HarnessTypeOK
<1>3. ASSUME NEW a \in Activity, Act(a) PROVE HarnessTypeOK'
  <2>1. {"invoking", "settling1"} \subseteq Place /\ sent[a] \in SUBSET Message
    BY AwaitsAre DEF Place, HarnessTypeOK
  <2> QED BY <1>3, <2>1, GoToTypes DEF Act, HarnessTypeOK
<1>4. ASSUME NEW a \in Activity, GiveUp(a) PROVE HarnessTypeOK'
  <2>1. PICK place \in {"releasing", "settling1", "settling2", "failed"},
             kept \in SUBSET sent[a] : GoTo(a, place, kept)
    BY <1>4 DEF GiveUp
  <2>2. place \in Place /\ kept \in SUBSET Message
    BY AwaitsAre DEF Place, HarnessTypeOK
  <2> QED BY <1>4, <2>1, <2>2, GoToTypes DEF GiveUp, HarnessTypeOK
<1>5. ASSUME NEW a \in Activity, BrokerReads(a) PROVE HarnessTypeOK'
  BY <1>5, ReadTypes DEF BrokerReads, ReadClaim, ReadInvoke, ReadRelease, ReadSettle
<1>6. ASSUME UNCHANGED clientVars PROVE HarnessTypeOK'
  BY <1>6 DEF clientVars, HarnessTypeOK
<1> QED BY <1>1, <1>2, <1>3, <1>4, <1>5, <1>6 DEF HarnessNext, ServerStep, harnessVars

\* The owner and the runtime can end turns and take calls away, which the invariant allows.
LEMMA RestKeeps ==
  ASSUME TypeOK, CallInv, HarnessTypeOK, HarnessInv, Quiet, Lasting, UNCHANGED clientVars
  PROVE  HarnessInv'
<1> USE DEF clientVars, Quiet, Lasting
<1>1. issued \ channels \subseteq issued' \ channels'
  OBVIOUS
<1>2. RequestsInOrder'
  BY DEF HarnessInv, RequestsInOrder
<1>3. EffectsOnTarget'
  BY DEF HarnessInv, EffectsOnTarget
<1>4. AnswersAreTrue'
  <2>1. retiredBindings' \subseteq issued' \ channels'
    BY <1>1 DEF HarnessInv, AnswersAreTrue, CallInv
  <2> QED BY <1>1, <2>1 DEF HarnessInv, RequestsInOrder, AnswersAreTrue
<1>5. LeaseBeforeInvoke'
  BY <1>1 DEF HarnessInv, RequestsInOrder, LeaseBeforeInvoke, HarnessTypeOK
<1> QED BY <1>2, <1>3, <1>4, <1>5 DEF HarnessInv

\* A step of a request on the MCP server's side: only that request's place, messages, answer
\* and target change, and the broker does not.
LEMMA ServerStepKeeps ==
  ASSUME TypeOK, HarnessTypeOK, HarnessInv, NEW a \in Activity,
         ServerStep(a) \/ (\E t \in Token : Begin(a, t))
  PROVE  HarnessInv'
<1>1. ASSUME NEW t \in Token, Begin(a, t) PROVE HarnessInv'
  <2>1. /\ pc[a] = "idle" /\ t \in issued
        /\ pc' = [pc EXCEPT ![a] = "claiming"] /\ target' = [target EXCEPT ![a] = t]
        /\ sent' = [sent EXCEPT ![a] = {"claim"}] /\ answer' = [answer EXCEPT ![a] = "none"]
        /\ UNCHANGED <<vars, ordered, released>>
    BY <1>1, AwaitsAre DEF Begin, GoTo
  <2>2. target[a] = None /\ None \notin Token
    BY <2>1, BrokerConstants DEF HarnessInv, RequestsInOrder
  <2>3. RequestsInOrder'
    BY <2>1, AwaitsAre DEF HarnessInv, HarnessTypeOK, RequestsInOrder, vars, handleVars
  <2>4. EffectsOnTarget'
    BY <2>1, <2>2 DEF HarnessInv, HarnessTypeOK, EffectsOnTarget, vars, callVars, activityVars
  <2>5. AnswersAreTrue'
    <3>1. a \notin released
      BY <2>2 DEF HarnessInv, AnswersAreTrue, TypeOK
    <3> QED BY <2>1, <3>1 DEF HarnessInv, HarnessTypeOK, AnswersAreTrue, vars, handleVars,
            activityVars
  <2>6. LeaseBeforeInvoke'
    BY <2>1 DEF HarnessInv, HarnessTypeOK, LeaseBeforeInvoke, vars, handleVars, activityVars
  <2> QED BY <2>3, <2>4, <2>5, <2>6 DEF HarnessInv
<1>2. ASSUME NEW place \in Place, NEW kept \in SUBSET sent[a], GoTo(a, place, kept),
             UNCHANGED target, released \subseteq released',
             pc[a] # "idle", place \notin {"idle", "claiming"},
             place = "done" => target[a] \notin channels \/ a \in completedActivities[target[a]],
             a \in released' => a \in released \/ target[a] \in issued \ channels,
             released' \subseteq released \cup {a},
             place = "claimed" => "invoke" \notin kept,
             place \in {"claimed", "invoking", "releasing"}
                => kept \cap {"settle1", "settle2"} = {},
             a \in ordered /\ place \in {"claimed", "invoking"}
                => target[a] \notin channels \/ a \in activities[target[a]]
      PROVE  HarnessInv'
  <2>1. /\ pc' = [pc EXCEPT ![a] = place]
        /\ answer' = [answer EXCEPT ![a] = "none"] /\ UNCHANGED <<vars, ordered>>
        /\ sent' = [sent EXCEPT ![a] = IF place \in DOMAIN Awaits THEN kept \cup {Awaits[place]}
                                       ELSE kept]
    BY <1>2 DEF GoTo
  <2>2. /\ sent'[a] \subseteq kept \cup {"invoke", "release", "settle1", "settle2"}
        /\ "invoke" \in sent'[a] => "invoke" \in kept \/ place = "invoking"
        /\ sent'[a] \cap {"settle1", "settle2"} # {}
              => \/ kept \cap {"settle1", "settle2"} # {}
                 \/ place \in {"settling1", "settling2"}
    BY <1>2, <2>1, AwaitsAre DEF HarnessTypeOK
  <2>3. RequestsInOrder'
    BY <1>2, <2>1, <2>2, AwaitsAre DEF HarnessInv, HarnessTypeOK, RequestsInOrder, Place, vars,
       handleVars
  <2>4. EffectsOnTarget'
    BY <1>2, <2>1 DEF HarnessInv, EffectsOnTarget, vars, callVars, activityVars
  <2>5. AnswersAreTrue'
    BY <1>2, <2>1 DEF HarnessInv, HarnessTypeOK, AnswersAreTrue, vars, handleVars, activityVars
  <2>6. LeaseBeforeInvoke'
    BY <1>2, <2>1, <2>2 DEF HarnessInv, HarnessTypeOK, LeaseBeforeInvoke, vars, handleVars,
       activityVars
  <2> QED BY <2>3, <2>4, <2>5, <2>6 DEF HarnessInv
<1>3. ASSUME Act(a) PROVE HarnessInv'
  <2>1. PICK place \in {"invoking", "settling1"} : GoTo(a, place, sent[a])
    BY <1>3 DEF Act
  <2> QED BY <1>2, <1>3, <2>1, AwaitsAre DEF Act, Place, HarnessInv, RequestsInOrder,
          LeaseBeforeInvoke
<1>4. ASSUME GiveUp(a) PROVE HarnessInv'
  <2>1. PICK place \in {"releasing", "settling1", "settling2", "failed"},
             kept \in SUBSET sent[a] :
               /\ GoTo(a, place, kept)
               /\ place = "releasing" => pc[a] = "invoking"
    BY <1>4, AwaitsAre DEF GiveUp
  <2> QED BY <1>2, <1>4, <2>1, AwaitsAre DEF GiveUp, Place, HarnessInv, RequestsInOrder
<1>5. ASSUME Proceed(a) PROVE HarnessInv'
  <2>1. pc[a] \in DOMAIN Awaits
    BY <1>5, AwaitsAre DEF Proceed, Answered, HarnessInv, RequestsInOrder
  <2>2. CASE pc[a] = "claiming"
    <3>1. GoTo(a, "claimed", sent[a]) /\ answer[a] = "ok" /\ UNCHANGED <<target, released>>
      BY <1>5, <2>2 DEF Proceed, Answered
    <3> QED BY <1>2, <2>2, <3>1, AwaitsAre DEF Place, HarnessInv, RequestsInOrder,
            LeaseBeforeInvoke
  <2>3. CASE pc[a] = "invoking"
    <3>1. GoTo(a, "settling1", sent[a]) /\ UNCHANGED <<target, released>>
      BY <1>5, <2>3 DEF Proceed
    <3> QED BY <1>2, <2>3, <3>1, AwaitsAre DEF Place
  <2>4. CASE pc[a] = "releasing"
    <3>1. /\ GoTo(a, "settling1", sent[a]) /\ answer[a] = "ok" /\ UNCHANGED target
          /\ released' = released \cup {a}
      BY <1>5, <2>4 DEF Proceed, Answered
    <3> QED BY <1>2, <2>4, <3>1, AwaitsAre DEF Place, HarnessInv, AnswersAreTrue
  <2>5. CASE pc[a] \in {"settling1", "settling2"}
    <3>1. GoTo(a, "done", sent[a]) /\ answer[a] = "ok" /\ UNCHANGED <<target, released>>
      BY <1>5, <2>5 DEF Proceed, Answered
    <3> QED BY <1>2, <2>5, <3>1, AwaitsAre DEF Place, HarnessInv, AnswersAreTrue
  <2> QED BY <2>1, <2>2, <2>3, <2>4, <2>5, AwaitsAre
<1> QED BY <1>1, <1>3, <1>4, <1>5 DEF ServerStep

\* What reading a message does to the messages and answers of the requests.
LEMMA ReadFacts ==
  ASSUME HarnessTypeOK, RequestsInOrder, Lasting, NEW a \in Activity, NEW message \in Message,
         NEW outcome \in {"none", "ok", "error"}, message \in sent[a], Read(a, message, outcome)
  PROVE  /\ UNCHANGED <<pc, target, ordered, released>>
         /\ sent' = [sent EXCEPT ![a] = @ \ {message}]
         /\ \A b \in Activity \ {a} : answer'[b] = answer[b]
         /\ \/ answer'[a] = answer[a]
            \/ pc[a] \in DOMAIN Awaits /\ message = Awaits[pc[a]] /\ answer'[a] = outcome
         /\ target[a] \in issued /\ pc[a] # "idle"
         /\ RequestsInOrder'
<1>1. /\ UNCHANGED <<pc, target, ordered, released>>
      /\ sent' = [sent EXCEPT ![a] = @ \ {message}]
      /\ \A b \in Activity \ {a} : answer'[b] = answer[b]
      /\ \/ answer'[a] = answer[a]
         \/ pc[a] \in DOMAIN Awaits /\ message = Awaits[pc[a]] /\ answer'[a] = outcome
  BY DEF Read, HarnessTypeOK
<1>2. target[a] \in issued /\ pc[a] # "idle"
  BY DEF RequestsInOrder
<1>3. RequestsInOrder'
  BY <1>1 DEF RequestsInOrder, Lasting, HarnessTypeOK
<1> QED BY <1>1, <1>2, <1>3

\* The invariant after a message was read, from what its handler did to leases and calls and
\* what an answer stands for.
LEMMA ReadKeeps ==
  ASSUME TypeOK, CallInv, HarnessTypeOK, HarnessInv, Lasting,
         NEW a \in Activity, NEW message \in Message, NEW outcome \in {"none", "ok", "error"},
         Readable(a, message), Read(a, message, outcome),
         \A b \in Activity, t \in Token :
            /\ b \in activities'[t] => b \in activities[t] \/ (b = a /\ t = target[a])
            /\ CallOf[b] \in invocations'[t]
                  => CallOf[b] \in invocations[t] \/ (b = a /\ t = target[a])
            /\ b \in activities[t] /\ (b # a \/ message \notin {"settle1", "settle2"})
                  => b \in activities'[t],
         message \in {"settle1", "settle2"} /\ outcome = "ok"
            => target[a] \notin channels' \/ a \in completedActivities'[target[a]],
         message = "release" /\ outcome = "ok" => target[a] \notin channels',
         message = "claim" /\ outcome = "ok"
            => target[a] \in Token /\ a \in activities'[target[a]]
  PROVE  HarnessInv'
<1>1. /\ UNCHANGED <<pc, target, ordered, released>>
      /\ sent' = [sent EXCEPT ![a] = @ \ {message}]
      /\ \A b \in Activity \ {a} : answer'[b] = answer[b]
      /\ \/ answer'[a] = answer[a]
         \/ pc[a] \in DOMAIN Awaits /\ message = Awaits[pc[a]] /\ answer'[a] = outcome
      /\ target[a] \in issued /\ pc[a] # "idle"
      /\ RequestsInOrder'
  BY ReadFacts DEF HarnessInv, Readable
<1>2. EffectsOnTarget'
  BY <1>1 DEF HarnessInv, EffectsOnTarget
<1>3. issued \ channels \subseteq issued' \ channels'
  BY DEF Lasting
<1>4. AnswersAreTrue'
  <2>1. retiredBindings' \subseteq issued' \ channels'
    BY <1>3 DEF HarnessInv, AnswersAreTrue, CallInv, Lasting
  <2>2. ASSUME NEW b \in Activity,
               pc[b] = "done" \/ (pc[b] \in {"settling1", "settling2"} /\ answer'[b] = "ok")
        PROVE  target[b] \notin channels' \/ b \in completedActivities'[target[b]]
    <3>1. CASE pc[b] = "done" \/ answer[b] = "ok"
      <4>1. target[b] \in issued
        BY <2>2 DEF HarnessInv, RequestsInOrder
      <4>2. target[b] \notin channels \/ b \in completedActivities[target[b]]
        BY <2>2, <3>1 DEF HarnessInv, AnswersAreTrue
      <4> QED BY <4>1, <4>2, <1>3 DEF Lasting, TypeOK
    <3>2. CASE ~(pc[b] = "done" \/ answer[b] = "ok")
      BY <1>1, <2>2, <3>2, AwaitsAre
    <3> QED BY <3>1, <3>2
  <2>3. ASSUME NEW b \in Activity, b \in released \/ (pc[b] = "releasing" /\ answer'[b] = "ok")
        PROVE  target[b] \in issued' \ channels'
    <3>1. CASE b \in released \/ answer[b] = "ok"
      BY <1>3, <2>3, <3>1 DEF HarnessInv, AnswersAreTrue
    <3>2. CASE ~(b \in released \/ answer[b] = "ok")
      BY <1>1, <2>3, <3>2, AwaitsAre DEF Lasting
    <3> QED BY <3>1, <3>2
  <2> QED BY <1>1, <2>1, <2>2, <2>3 DEF AnswersAreTrue
<1>5. LeaseBeforeInvoke'
  <2> SUFFICES ASSUME NEW b \in ordered,
                      \/ pc[b] = "claiming" /\ answer'[b] = "ok"
                      \/ pc[b] = "claimed"
                      \/ "invoke" \in sent'[b]
               PROVE  target[b] \notin channels' \/ b \in activities'[target[b]]
    BY <1>1 DEF LeaseBeforeInvoke
  <2>1. b \in Activity /\ target[b] \in issued /\ target[b] \in Token
    BY <1>1 DEF HarnessTypeOK, HarnessInv, RequestsInOrder, TypeOK
  <2>2. CASE b = a /\ message = "claim" /\ outcome = "ok"
    BY <2>2
  <2>3. CASE ~(b = a /\ message = "claim" /\ outcome = "ok")
    <3>1. \/ pc[b] = "claiming" /\ answer[b] = "ok"
          \/ pc[b] = "claimed"
          \/ "invoke" \in sent[b]
      BY <1>1, <2>1, <2>3, AwaitsAre DEF HarnessTypeOK
    <3>2. target[b] \notin channels \/ b \in activities[target[b]]
      BY <3>1 DEF HarnessInv, LeaseBeforeInvoke
    <3>3. b # a \/ message \notin {"settle1", "settle2"}
      <4>1. CASE b = a /\ message \in {"settle1", "settle2"}
        <5>1. "invoke" \notin sent[b]
          BY <4>1, BeforeAre DEF Readable
        <5>2. pc[b] \in {"settling1", "settling2", "done", "failed"}
          BY <2>1, <4>1 DEF HarnessInv, RequestsInOrder, Readable
        <5> QED BY <3>1, <5>1, <5>2
      <4> QED BY <4>1
    <3> QED BY <1>3, <2>1, <3>2, <3>3
  <2> QED BY <2>2, <2>3
<1> QED BY <1>1, <1>2, <1>4, <1>5 DEF HarnessInv

\* The four messages the broker reads.
LEMMA BrokerReadsKeeps ==
  ASSUME TypeOK, CallInv, HarnessTypeOK, HarnessInv, Lasting, NEW a \in Activity,
         BrokerReads(a)
  PROVE  HarnessInv'
<1> USE DEF Message
<1>1. CASE ReadClaim(a)
  <2>1. CASE Claim(target[a], a) /\ Read(a, "claim", "ok")
    <3>1. target[a] \in Token /\ UNCHANGED invocations
          /\ activities' = [activities EXCEPT ![target[a]] = @ \cup {a}]
      BY <2>1 DEF Claim, ClaimAccepted, TakeLease, callVars, TypeOK
    <3> QED BY <1>1, <2>1, <3>1, ReadKeeps DEF ReadClaim, TypeOK
  <2>2. CASE UNCHANGED vars /\ Read(a, "claim", "error")
    BY <1>1, <2>2, ReadKeeps DEF ReadClaim, vars, callVars, activityVars
  <2> QED BY <1>1, <2>1, <2>2 DEF ReadClaim
<1>2. CASE ReadInvoke(a)
  <2>1. CASE Invoke(target[a], CallOf[a]) /\ Read(a, "invoke", "none")
    <3>1. /\ target[a] \in Token /\ UNCHANGED activities
          /\ \/ UNCHANGED invocations
             \/ invocations' = [invocations EXCEPT ![target[a]] = @ \cup {CallOf[a]}]
      BY <2>1 DEF Invoke, activityVars, TypeOK
    <3>2. \A b \in Activity, t \in Token :
            CallOf[b] \in invocations'[t]
               => CallOf[b] \in invocations[t] \/ (b = a /\ t = target[a])
      BY <3>1, HarnessConstants DEF TypeOK
    <3> QED BY <1>2, <2>1, <3>1, <3>2, ReadKeeps DEF ReadInvoke
  <2>2. CASE UNCHANGED vars /\ Read(a, "invoke", "error")
    BY <1>2, <2>2, ReadKeeps DEF ReadInvoke, vars, callVars, activityVars
  <2> QED BY <1>2, <2>1, <2>2 DEF ReadInvoke
<1>3. CASE ReadRelease(a)
  <2>1. CASE Release(target[a]) /\ Read(a, "release", "ok")
    <3>1. /\ target[a] \notin channels' /\ UNCHANGED activities
          /\ \A t \in Token : invocations'[t] \subseteq invocations[t]
      BY <2>1 DEF Release, RevokeAll, RejectChannel, activityVars
    <3> QED BY <1>3, <2>1, <3>1, ReadKeeps DEF ReadRelease
  <2>2. CASE /\ UNCHANGED vars
             /\ Read(a, "release", IF target[a] \in retiredBindings THEN "ok" ELSE "error")
    <3>1. target[a] \in retiredBindings => target[a] \notin channels'
      BY <2>2 DEF HarnessInv, AnswersAreTrue, vars, handleVars
    <3>2. CASE target[a] \in retiredBindings
      BY <1>3, <2>2, <3>1, <3>2, ReadKeeps DEF ReadRelease, vars, callVars, activityVars
    <3>3. CASE target[a] \notin retiredBindings
      BY <1>3, <2>2, <3>3, ReadKeeps DEF ReadRelease, vars, callVars, activityVars
    <3> QED BY <3>2, <3>3
  <2> QED BY <1>3, <2>1, <2>2 DEF ReadRelease
<1>4. ASSUME NEW message \in {"settle1", "settle2"}, ReadSettle(a, message) PROVE HarnessInv'
  <2>1. CASE ActivityComplete(target[a], a) /\ Read(a, message, "ok")
    <3>1. /\ target[a] \in Token /\ UNCHANGED invocations
          /\ activities' = [activities EXCEPT ![target[a]] = @ \ {a}]
          /\ completedActivities' = [completedActivities EXCEPT ![target[a]] = @ \cup {a}]
      BY <2>1 DEF ActivityComplete, callVars, TypeOK
    <3>2. a \in completedActivities'[target[a]]
      BY <3>1 DEF TypeOK
    <3>3. \A b \in Activity, t \in Token :
            /\ b \in activities'[t] => b \in activities[t]
            /\ b \in activities[t] /\ b # a => b \in activities'[t]
      BY <3>1 DEF TypeOK
    <3> QED BY <1>4, <2>1, <3>1, <3>2, <3>3, ReadKeeps DEF ReadSettle
  <2>2. CASE /\ UNCHANGED vars /\ Read(a, message, "ok")
             /\ target[a] \notin channels \/ a \in completedActivities[target[a]]
    BY <1>4, <2>2, ReadKeeps DEF ReadSettle, vars, handleVars, callVars, activityVars
  <2> QED BY <1>4, <2>1, <2>2 DEF ReadSettle
<1> QED BY <1>1, <1>2, <1>3, <1>4 DEF BrokerReads

-----------------------------------------------------------------------------
(* The safety of the requests *)

\* For every number of turns and requests and every order, loss and delay of their messages:
\* leases and calls are on the turn a request is for, an acknowledged settlement or release
\* took effect, and a request whose messages keep their order invokes under its lease.
THEOREM HarnessInvariant ==
  HarnessSpec => [](TypeOK /\ CallInv /\ FenceInv /\ HarnessTypeOK /\ HarnessInv)
<1>1. HarnessInit => HarnessTypeOK /\ HarnessInv
  <2>1. HarnessInit => HarnessTypeOK
    BY DEF HarnessInit, HarnessTypeOK, Place
  <2>2. HarnessInit => HarnessInv
    BY AwaitsAre DEF HarnessInit, Init, HarnessInv, RequestsInOrder, EffectsOnTarget,
       AnswersAreTrue, LeaseBeforeInvoke
  <2> QED BY <2>1, <2>2
<1>2. TypeOK /\ CallInv /\ HarnessTypeOK /\ HarnessInv /\ [HarnessNext]_harnessVars
         => HarnessTypeOK' /\ HarnessInv'
  <2> SUFFICES ASSUME TypeOK, CallInv, HarnessTypeOK, HarnessInv, [HarnessNext]_harnessVars
               PROVE  HarnessInv'
    BY HarnessTypeStep
  <2>1. Lasting
    BY BrokerSteps, EveryStepLasts
  <2>2. CASE (OwnerStep \/ RuntimeStep) /\ UNCHANGED clientVars
    BY <2>1, <2>2, RestIsQuiet, RestKeeps
  <2>3. CASE UNCHANGED harnessVars
    <3>1. Quiet
      BY <2>3 DEF harnessVars, vars, callVars, activityVars, Quiet
    <3> QED BY <2>1, <2>3, <3>1, RestKeeps DEF harnessVars
  <2> QED BY <2>1, <2>2, <2>3, ServerStepKeeps, BrokerReadsKeeps DEF HarnessNext
<1> QED BY <1>1, <1>2, BrokerInvariants, PTL DEF HarnessSpec

\* A request that was told its activity is settled holds no lease on a live turn.
THEOREM SettledRequestsHoldNoLease == HarnessSpec => []SettledRequestHoldsNoLease
<1>1. TypeOK /\ FenceInv /\ HarnessInv => SettledRequestHoldsNoLease
  <2> SUFFICES ASSUME TypeOK, FenceInv, HarnessInv, NEW a \in Activity, NEW t \in channels,
                      pc[a] = "done", a \in activities[t]
               PROVE  FALSE
    BY DEF SettledRequestHoldsNoLease
  <2>1. t \in Token /\ t = target[a]
    BY DEF TypeOK, HarnessInv, EffectsOnTarget
  <2>2. a \in completedActivities[t]
    BY <2>1 DEF HarnessInv, AnswersAreTrue
  <2> QED BY <2>1, <2>2 DEF FenceInv, CommittedTurnIsQuiet
<1> QED BY <1>1, HarnessInvariant, PTL

\* A released request has no call that Codex may still be handed, also if its invoke is read
\* after the release.
THEOREM ReleasedCallsAreDead == HarnessSpec => []ReleasedCallIsDead
<1>1. TypeOK /\ CallInv /\ HarnessTypeOK /\ HarnessInv => ReleasedCallIsDead
  <2> SUFFICES ASSUME TypeOK, CallInv, HarnessTypeOK, HarnessInv, NEW a \in released,
                      reply[CallOf[a]] = "pending"
               PROVE  FALSE
    BY DEF ReleasedCallIsDead
  <2>1. a \in Activity /\ CallOf[a] \in Call
    BY HarnessConstants DEF HarnessTypeOK
  <2>2. PICK t \in channels : CallOf[a] \in invocations[t]
    BY <2>1 DEF CallInv, NoOrphanedCall
  <2>3. t = target[a]
    BY <2>1, <2>2 DEF TypeOK, HarnessInv, EffectsOnTarget
  <2> QED BY <2>1, <2>3 DEF HarnessInv, AnswersAreTrue
<1> QED BY <1>1, HarnessInvariant, PTL

\* After the fence committed only an invoke that overtook its own claim adds a call: any other
\* request would hold a lease, and the turn has none.
THEOREM CommittedTurnsTakeNoCalls == HarnessSpec => CommittedTurnTakesNoCalls
<1> DEFINE Strays == {CallOf[a] : a \in Activity \ ordered}
           Closed(t) == Committed(t) => invocations'[t] \ invocations[t] \subseteq Strays
<1>1. ASSUME TypeOK, CallInv, FenceInv, HarnessTypeOK, HarnessInv, [HarnessNext]_harnessVars,
             NEW t \in Token
      PROVE  Closed(t)
  <2>1. CASE invocations'[t] \subseteq invocations[t]
    BY <2>1
  <2>2. ASSUME NEW a \in Activity, Readable(a, "invoke"), Invoke(target[a], CallOf[a])
        PROVE  Closed(t)
    <3>1. target[a] \in channels /\ "invoke" \in sent[a]
      BY <1>1, <2>2 DEF Invoke, Readable, CallInv, BindingsAgree
    <3>2. \A u \in Token : invocations'[u] # invocations[u]
             => u = target[a] /\ invocations'[u] = invocations[u] \cup {CallOf[a]}
      BY <1>1, <2>2 DEF Invoke, TypeOK
    <3>3. CASE a \in ordered
      <4>1. a \in activities[target[a]]
        BY <1>1, <3>1, <3>3 DEF HarnessInv, LeaseBeforeInvoke
      <4>2. ~Committed(target[a])
        BY <1>1, <3>1, <4>1 DEF FenceInv, CommittedTurnIsQuiet, TypeOK
      <4> QED BY <3>2, <4>2
    <3>4. CASE a \notin ordered
      BY <3>2, <3>4
    <3> QED BY <3>3, <3>4
  <2>3. ASSUME NEW a \in Activity, BrokerReads(a), ~(Readable(a, "invoke")
                                                     /\ Invoke(target[a], CallOf[a]))
        PROVE  invocations'[t] \subseteq invocations[t]
    BY <2>3 DEF BrokerReads, ReadClaim, ReadInvoke, ReadRelease, ReadSettle, Claim, TakeLease,
       Release, RevokeAll, RejectChannel, ActivityComplete, vars, callVars
  <2>4. ASSUME NEW a \in Activity, ServerStep(a) \/ (\E u \in Token : Begin(a, u))
        PROVE  UNCHANGED invocations
    BY <2>4 DEF ServerStep, Proceed, Act, GiveUp, Begin, GoTo, vars, callVars
  <2>5. CASE OwnerStep \/ RuntimeStep
    BY <1>1, <2>5, RestIsQuiet DEF Quiet
  <2>6. CASE UNCHANGED harnessVars
    BY <2>6 DEF harnessVars, vars, callVars
  <2> QED BY <1>1, <2>1, <2>2, <2>3, <2>4, <2>5, <2>6 DEF HarnessNext
<1>2. TypeOK /\ CallInv /\ FenceInv /\ HarnessTypeOK /\ HarnessInv /\ [HarnessNext]_harnessVars
         => \A t \in Token : Closed(t)
  BY <1>1
<1> QED BY <1>2, HarnessInvariant, PTL DEF HarnessSpec, CommittedTurnTakesNoCalls
=============================================================================
