---------------------------- MODULE TurnBrokerProofs ----------------------------
(***************************************************************************)
(* Theorems about TurnBroker, for every set of turns, calls, activities    *)
(* and waiters.                                                            *)
(***************************************************************************)
EXTENDS TurnBroker, FiniteSetTheorems, TLAPS

-----------------------------------------------------------------------------
(* Type correctness *)

\* Ending any set of turns keeps the types: Remember returns subsets of what it is given.
LEMMA RevokeAllTypes ==
  ASSUME TypeOK, NEW gone \in SUBSET Token, RevokeAll(gone)
  PROVE  TypeOK'
<1> DEFINE handles == {t \in gone : bound[t]}
<1>1. retiredBindings' \subseteq Token /\ retiredTokens' \subseteq Token
  BY DEF TypeOK, RevokeAll, RejectChannel, Remember
<1>2. waits' \in [Waiter -> Wait]
  BY DEF TypeOK, RevokeAll, RejectChannel, Wait, Idle, Blocked, Resumable
<1>3. reply' \in [Call -> Outcome] /\ safe' \in [Token -> SafeState]
  BY DEF TypeOK, RevokeAll, RejectChannel, Outcome, SafeState
<1>4. /\ channels' \in SUBSET Token /\ bindings' \in SUBSET Token
      /\ queued' \in [Token -> SUBSET Call] /\ delivered' \in [Token -> SUBSET Call]
      /\ invocations' \in [Token -> SUBSET Call]
      /\ batchTimer' \in [Token -> BOOLEAN]
  BY DEF TypeOK, RevokeAll, RejectChannel
<1> QED
  BY <1>1, <1>2, <1>3, <1>4
  DEF TypeOK, RevokeAll, RejectChannel, compactionVars, activityVars, fenceVars

\* What a confirmation lets go on keeps its turn and its activity.
LEMMA ResumedTypes ==
  ASSUME waits \in [Waiter -> Wait], NEW points, NEW t
  PROVE  Resumed(points, t) \in [Waiter -> Wait]
<1> SUFFICES ASSUME NEW w \in Waiter PROVE Resumed(points, t)[w] \in Wait
  BY DEF Resumed
<1>1. waits[w] \in Wait OBVIOUS
<1> QED BY <1>1 DEF Resumed, Wait, Resumable

\* nextToolBatch, called afresh or resumed after the start.
LEMMA NextToolBatchTypes ==
  ASSUME TypeOK, NEW w \in Waiter, NEW t, NextToolBatch(w, t)
  PROVE  TypeOK'
<1>1. t \in Token
  BY DEF TypeOK, NextToolBatch
<1>2. waits' \in [Waiter -> Wait]
  <2>1. WaitAt("tools", t, None) \in Wait /\ Idle \in Wait
    BY <1>1 DEF WaitAt, Wait, Idle, Blocked
  <2>2. \E wait \in Wait : waits' = [waits EXCEPT ![w] = wait]
    BY <2>1 DEF NextToolBatch, Finish
  <2> QED BY <2>2 DEF TypeOK
<1> QED BY <1>1, <1>2 DEF TypeOK, NextToolBatch, TakeQueued, handleVars, callVars,
        compactionVars, activityVars, fenceVars, safeVars

\* A request that blocks has a turn and, if it is a claim, an activity.
LEMMA BlockAtTypes ==
  ASSUME TypeOK, NEW w \in Waiter, NEW t \in Token, NEW at \in Blocked,
         NEW a \in Activity \cup {None}, at = "claimWait" => a \in Activity, BlockAt(w, at, t, a)
  PROVE  TypeOK'
<1>1. waits' \in [Waiter -> Wait]
  BY DEF TypeOK, BlockAt, WaitAt, Wait, Blocked
<1> QED BY <1>1 DEF TypeOK, BlockAt, handleVars, callVars, compactionVars, activityVars,
        fenceVars, safeVars

\* The claim's effects, whether its request waited for Sent or not.
LEMMA TakeLeaseTypes ==
  ASSUME TypeOK, NEW t, NEW a \in Activity, ClaimAccepted(t, a), TakeLease(t, a),
         waits' \in [Waiter -> Wait]
  PROVE  TypeOK'
<1>1. t \in Token
  BY DEF TypeOK, ClaimAccepted
<1> QED BY <1>1 DEF TypeOK, TakeLease, callVars, compactionVars, fenceVars, safeVars

\* completeSafeTurn, called at once or after Sent.
LEMMA CompleteSafeTypes ==
  ASSUME TypeOK, NEW t, NEW settled, CompleteSafe(t, settled)
  PROVE  TypeOK'
<1>1. t \in Token
  BY DEF TypeOK, CompleteSafe, CanCompleteSafe
<1>2. waits' \in [Waiter -> Wait]
  BY DEF TypeOK, CompleteSafe, Wait, Idle
<1> QED BY <1>1, <1>2 DEF TypeOK, CompleteSafe, SafeState, handleVars, callVars,
        compactionVars, activityVars, fenceVars

\* The waits after a request stopped waiting.
LEMMA FinishTypes ==
  ASSUME TypeOK, NEW w \in Waiter, Finish(w)
  PROVE  waits' \in [Waiter -> Wait]
BY DEF TypeOK, Finish, Wait, Idle

\* A request that ends and changes nothing else.
LEMMA FinishOnlyTypes ==
  ASSUME TypeOK, NEW w \in Waiter, Finish(w),
         UNCHANGED <<handleVars, accepting, deadline, callVars, compactionVars, activityVars,
                     fenceVars, safeVars>>
  PROVE  TypeOK'
BY FinishTypes DEF TypeOK, handleVars, callVars, compactionVars, activityVars, fenceVars, safeVars

\* The owner's operations keep the types.
LEMMA OwnerTypes ==
  ASSUME TypeOK, OwnerStep PROVE TypeOK'
<1>1. ASSUME NEW t \in Token, Register(t) PROVE TypeOK'
  BY <1>1 DEF Register, TypeOK, callVars, compactionVars, activityVars, fenceVars, safeVars
<1>2. ASSUME NEW t \in Token, Revoke(t) PROVE TypeOK'
  BY <1>2, RevokeAllTypes DEF Revoke
<1>3. ASSUME NEW t \in Token, RequestCompaction(t) PROVE TypeOK'
  <2>1. Cardinality(queued[t] \cap invocations[t]) \in Nat
    BY BrokerConstants, FS_Subset, FS_CardinalityType DEF TypeOK
  <2> QED BY <1>3, <2>1 DEF RequestCompaction, Interrupted, Outcome, TypeOK, handleVars,
          activityVars, fenceVars, safeVars
<1>4. ASSUME NEW t \in Token, BeginFence(t) PROVE TypeOK'
  BY <1>4 DEF BeginFence, Revision, TypeOK, handleVars, callVars, compactionVars, activityVars,
      safeVars
<1>5. ASSUME NEW t \in Token, CommitFence(t) PROVE TypeOK'
  BY <1>5 DEF CommitFence, TypeOK, handleVars, callVars, compactionVars, activityVars, safeVars
<1>6. ASSUME NEW t \in Token, ConfirmSafeTurnSent(t) PROVE TypeOK'
  <2>1. waits' \in [Waiter -> Wait]
    BY <1>6, ResumedTypes DEF ConfirmSafeTurnSent, TypeOK
  <2> QED BY <1>6, <2>1 DEF ConfirmSafeTurnSent, ActivateSafe, SafeState, TypeOK, handleVars,
          callVars, compactionVars, activityVars, fenceVars
<1>7. ASSUME NEW t \in Token, NEW c \in Call, CompleteTool(t, c) PROVE TypeOK'
  BY <1>7 DEF CompleteTool, Outcome, TypeOK, handleVars, compactionVars, activityVars, fenceVars,
      safeVars
<1>8. ASSUME NEW w \in Waiter, NEW t \in Token, OwnerNext(w, t) PROVE TypeOK'
  BY <1>8, NextToolBatchTypes DEF OwnerNext
<1>9. ASSUME NEW w \in Waiter, NEW t \in Token,
             OwnerNextBeforeStart(w, t) \/ WaitForRetirement(w, t) \/ WaitForSafeCompletion(w, t)
      PROVE TypeOK'
  BY <1>9, BlockAtTypes DEF OwnerNextBeforeStart, WaitForRetirement, WaitForSafeCompletion, Blocked
<1>10. ASSUME NEW w \in Waiter, OwnerNextResumes(w) PROVE TypeOK'
  BY <1>10, NextToolBatchTypes, FinishOnlyTypes DEF OwnerNextResumes
<1>11. ASSUME NEW w \in Waiter, AbortWait(w) PROVE TypeOK'
  BY <1>11, FinishOnlyTypes DEF AbortWait
<1> QED BY <1>1, <1>2, <1>3, <1>4, <1>5, <1>6, <1>7, <1>8, <1>9, <1>10, <1>11 DEF OwnerStep

\* The MCP requests' operations keep the types.
LEMMA McpTypes ==
  ASSUME TypeOK, McpStep PROVE TypeOK'
<1>1. ASSUME NEW t \in Token, Release(t) PROVE TypeOK'
  BY <1>1, RevokeAllTypes DEF Release
<1>2. ASSUME NEW t \in Token, StartSafeTurn(t) PROVE TypeOK'
  <2>1. waits' \in [Waiter -> Wait]
    BY <1>2, ResumedTypes DEF StartSafeTurn, TypeOK
  <2> QED BY <1>2, <2>1 DEF StartSafeTurn, ActivateSafe, SafeState, TypeOK, handleVars, callVars,
          compactionVars, activityVars, fenceVars
<1>3. ASSUME NEW t \in Token, SafeComplete(t) PROVE TypeOK'
  BY <1>3, CompleteSafeTypes DEF SafeComplete
<1>4. ASSUME NEW t \in Token, NEW a \in Activity, Claim(t, a) PROVE TypeOK'
  BY <1>4, TakeLeaseTypes DEF Claim, TypeOK
<1>5. ASSUME NEW t \in Token, NEW a \in Activity, ActivityComplete(t, a) PROVE TypeOK'
  BY <1>5 DEF ActivityComplete, TypeOK, handleVars, callVars, compactionVars, fenceVars, safeVars
<1>6. ASSUME NEW t \in Token, NEW c \in Call, Invoke(t, c) PROVE TypeOK'
  <2>1. batchTimer' \in [Token -> BOOLEAN]
    BY <1>6 DEF Invoke, ScheduleToolWaiters, TypeOK
  <2>2. reply' \in [Call -> Outcome]
    BY <1>6 DEF Invoke, Outcome, TypeOK
  <2>3. /\ queued' \in [Token -> SUBSET Call] /\ delivered' \in [Token -> SUBSET Call]
        /\ invocations' \in [Token -> SUBSET Call]
        /\ compactionDeliveryCount' \in [Token -> Nat]
    BY <1>6 DEF Invoke, TypeOK
  <2> QED BY <1>6, <2>1, <2>2, <2>3 DEF Invoke, TypeOK, handleVars, activityVars, fenceVars,
          safeVars
<1>7. ASSUME NEW w \in Waiter, NEW t \in Token, SafeCompleteBeforeSent(w, t) PROVE TypeOK'
  BY <1>7, BlockAtTypes DEF SafeCompleteBeforeSent, Blocked
<1>8. ASSUME NEW w \in Waiter, NEW t \in Token, NEW a \in Activity, ClaimBeforeSent(w, t, a)
      PROVE TypeOK'
  BY <1>8, BlockAtTypes DEF ClaimBeforeSent, Blocked
<1>9. ASSUME NEW w \in Waiter, ClaimResumes(w) PROVE TypeOK'
  <2>1. waits[w].activity \in Activity
    BY <1>9 DEF ClaimResumes, TypeOK, Wait
  <2> QED BY <1>9, <2>1, FinishTypes, FinishOnlyTypes, TakeLeaseTypes DEF ClaimResumes
<1>10. ASSUME NEW w \in Waiter, SafeCompleteResumes(w) PROVE TypeOK'
  BY <1>10, CompleteSafeTypes, FinishOnlyTypes DEF SafeCompleteResumes
<1> QED BY <1>1, <1>2, <1>3, <1>4, <1>5, <1>6, <1>7, <1>8, <1>9, <1>10 DEF McpStep

\* Timers, expiry, revocations and the admission of owners keep the types.
LEMMA RuntimeTypes ==
  ASSUME TypeOK, RuntimeStep \/ AdmissionStep PROVE TypeOK'
<1>1. ASSUME NEW t \in Token, DeadlinePasses(t) PROVE TypeOK'
  BY <1>1 DEF DeadlinePasses, TypeOK, handleVars, callVars, compactionVars, activityVars,
      fenceVars, safeVars
<1>2. ASSUME NEW t \in Token, BatchTimerFires(t) PROVE TypeOK'
  <2>1. waits' \in [Waiter -> Wait]
    BY <1>2 DEF BatchTimerFires, TypeOK, Wait, Idle
  <2> QED BY <1>2, <2>1 DEF BatchTimerFires, TakeQueued, TypeOK, handleVars, compactionVars,
          activityVars, fenceVars, safeVars
<1>3. ASSUME NEW trace \in Trace, RevokeTrace(trace) PROVE TypeOK'
  BY <1>3, RevokeAllTypes DEF RevokeTrace, TypeOK
<1>4. ASSUME Prune \/ RevokeExternalOwners \/ Close PROVE TypeOK'
  BY <1>4, RevokeAllTypes DEF Prune, RevokeExternalOwners, Close, Expired, TypeOK
<1>5. ASSUME NEW accepted \in BOOLEAN, SetExternalOwnersAccepted(accepted) PROVE TypeOK'
  BY <1>5 DEF SetExternalOwnersAccepted, TypeOK, handleVars, callVars, compactionVars,
      activityVars, fenceVars, safeVars
<1> QED BY <1>1, <1>2, <1>3, <1>4, <1>5 DEF RuntimeStep, AdmissionStep

\* Every step keeps the types.
LEMMA TypeStep ==
  ASSUME TypeOK, [Next]_vars PROVE TypeOK'
<1>1. CASE Next
  BY <1>1, OwnerTypes, McpTypes, RuntimeTypes DEF Next
<1>2. CASE UNCHANGED vars
  BY <1>2 DEF TypeOK, vars, handleVars, callVars, compactionVars, activityVars, fenceVars, safeVars
<1> QED BY <1>1, <1>2

\* Every variable keeps its type in every behaviour of the broker.
THEOREM TypeCorrect == Spec => []TypeOK
<1>1. Init => TypeOK
  BY BrokerConstants DEF Init, TypeOK, Revision, Undefined, SafeState, Outcome, Wait, Idle
<1>2. TypeOK /\ [Next]_vars => TypeOK'
  BY TypeStep
<1> QED BY <1>1, <1>2, PTL DEF Spec
=============================================================================
