------------------------- MODULE TurnBrokerSafetyProofs -------------------------
(***************************************************************************)
(* Safety of TurnBroker for every set of turns, calls, activities and      *)
(* waiters: the accounting of tool calls, the refinement of ToolRelay, the *)
(* completion fence, and the requests blocked inside the broker.           *)
(***************************************************************************)
EXTENDS TurnBrokerProofs

-----------------------------------------------------------------------------
(* What a step does to the tool calls *)

callState == <<issued, channels, bound, bindings, queued, delivered, invocations, reply,
               compactionRequested>>

\* Every step that changes callState is one of these, whichever action takes it.
HandsOver(t) ==
    /\ TakeQueued(t)
    /\ UNCHANGED <<issued, channels, bound, bindings, invocations, reply, compactionRequested>>

Binds(t) ==
    /\ t \in channels
    /\ bound' = [bound EXCEPT ![t] = TRUE]
    /\ bindings' = IF bound[t] THEN bindings ELSE bindings \cup {t}
    /\ UNCHANGED <<issued, channels, queued, delivered, invocations, reply, compactionRequested>>

CallChange ==
    \/ \E gone \in SUBSET channels : RevokeAll(gone)
    \/ \E t \in Token : \/ Register(t) \/ RequestCompaction(t) \/ HandsOver(t) \/ Binds(t)
                        \/ \E c \in Call : CompleteTool(t, c) \/ Invoke(t, c)

\* nextToolBatch hands calls over or leaves them alone.
LEMMA BatchChange ==
  ASSUME TypeOK, NEW w, NEW t, NextToolBatch(w, t)
  PROVE  UNCHANGED callState \/ CallChange
<1>1. t \in Token
  BY DEF TypeOK, NextToolBatch
<1>2. CASE TakeQueued(t)
  BY <1>1, <1>2 DEF NextToolBatch, HandsOver, CallChange, handleVars, callVars, compactionVars
<1>3. CASE UNCHANGED callVars
  BY <1>3 DEF NextToolBatch, callState, handleVars, callVars, compactionVars
<1> QED BY <1>2, <1>3 DEF NextToolBatch

\* A claim may bind the turn, and nothing else.
LEMMA LeaseChange ==
  ASSUME TypeOK, NEW t, NEW a, ClaimAccepted(t, a), TakeLease(t, a)
  PROVE  CallChange
BY DEF TypeOK, ClaimAccepted, TakeLease, Binds, CallChange, callVars, compactionVars

\* The owner's operations.
LEMMA OwnerChange ==
  ASSUME TypeOK, OwnerStep PROVE UNCHANGED callState \/ CallChange
<1> DEFINE Goal == UNCHANGED callState \/ CallChange
<1>1. ASSUME NEW t \in Token, Register(t) \/ RequestCompaction(t) PROVE Goal
  BY <1>1 DEF CallChange
<1>2. ASSUME NEW t \in Token, Revoke(t) PROVE Goal
  BY <1>2 DEF Revoke, CallChange
<1>3. ASSUME NEW t \in Token, NEW c \in Call, CompleteTool(t, c) PROVE Goal
  BY <1>3 DEF CallChange
<1>4. ASSUME NEW w \in Waiter, NEW t \in Token, OwnerNext(w, t) PROVE Goal
  BY <1>4, BatchChange DEF OwnerNext
<1>5. ASSUME NEW w \in Waiter, OwnerNextResumes(w) PROVE Goal
  BY <1>5, BatchChange DEF OwnerNextResumes, callState, handleVars, callVars, compactionVars
<1>6. ASSUME NEW t \in Token, BeginFence(t) \/ CommitFence(t) \/ ConfirmSafeTurnSent(t)
      PROVE Goal
  BY <1>6 DEF BeginFence, CommitFence, ConfirmSafeTurnSent, callState, handleVars, callVars,
     compactionVars
<1>7. ASSUME NEW w \in Waiter, NEW t \in Token,
             OwnerNextBeforeStart(w, t) \/ WaitForRetirement(w, t) \/ WaitForSafeCompletion(w, t)
      PROVE Goal
  BY <1>7 DEF OwnerNextBeforeStart, WaitForRetirement, WaitForSafeCompletion, BlockAt,
     callState, handleVars, callVars, compactionVars
<1>8. ASSUME NEW w \in Waiter, AbortWait(w) PROVE Goal
  BY <1>8 DEF AbortWait, callState, handleVars, callVars, compactionVars
<1> QED BY <1>1, <1>2, <1>3, <1>4, <1>5, <1>6, <1>7, <1>8 DEF OwnerStep

\* The MCP requests' operations.
LEMMA McpChange ==
  ASSUME TypeOK, McpStep PROVE UNCHANGED callState \/ CallChange
<1> DEFINE Goal == UNCHANGED callState \/ CallChange
<1>1. ASSUME NEW t \in Token, Release(t) PROVE Goal
  BY <1>1 DEF Release, CallChange
<1>2. ASSUME NEW t \in Token, NEW a \in Activity, Claim(t, a) PROVE Goal
  BY <1>2, LeaseChange DEF Claim
<1>3. ASSUME NEW w \in Waiter, ClaimResumes(w) PROVE Goal
  BY <1>3, LeaseChange DEF ClaimResumes, callState, handleVars, callVars, compactionVars
<1>4. ASSUME NEW t \in Token, NEW c \in Call, Invoke(t, c) PROVE Goal
  BY <1>4 DEF CallChange
<1>5. ASSUME NEW t \in Token, StartSafeTurn(t) \/ SafeComplete(t) PROVE Goal
  BY <1>5 DEF StartSafeTurn, SafeComplete, CompleteSafe, callState, handleVars, callVars,
     compactionVars
<1>6. ASSUME NEW t \in Token, NEW a \in Activity, ActivityComplete(t, a) PROVE Goal
  BY <1>6 DEF ActivityComplete, callState, handleVars, callVars, compactionVars
<1>7. ASSUME NEW w \in Waiter, NEW t \in Token, SafeCompleteBeforeSent(w, t) PROVE Goal
  BY <1>7 DEF SafeCompleteBeforeSent, BlockAt, callState, handleVars, callVars, compactionVars
<1>8. ASSUME NEW w \in Waiter, NEW t \in Token, NEW a \in Activity, ClaimBeforeSent(w, t, a)
      PROVE Goal
  BY <1>8 DEF ClaimBeforeSent, BlockAt, callState, handleVars, callVars, compactionVars
<1>9. ASSUME NEW w \in Waiter, SafeCompleteResumes(w) PROVE Goal
  BY <1>9 DEF SafeCompleteResumes, CompleteSafe, callState, handleVars, callVars, compactionVars
<1> QED BY <1>1, <1>2, <1>3, <1>4, <1>5, <1>6, <1>7, <1>8, <1>9 DEF McpStep

\* Timers, expiry, revocations and the admission of owners.
LEMMA RuntimeChange ==
  ASSUME TypeOK, RuntimeStep \/ AdmissionStep PROVE UNCHANGED callState \/ CallChange
<1> DEFINE Goal == UNCHANGED callState \/ CallChange
<1>1. ASSUME NEW t \in Token, BatchTimerFires(t) PROVE Goal
  BY <1>1 DEF BatchTimerFires, HandsOver, CallChange, callState, handleVars, compactionVars
<1>2. ASSUME NEW trace \in Trace, RevokeTrace(trace) PROVE Goal
  BY <1>2 DEF RevokeTrace, CallChange
<1>3. ASSUME Prune \/ RevokeExternalOwners \/ Close PROVE Goal
  BY <1>3 DEF Prune, RevokeExternalOwners, Close, Expired, CallChange
<1>4. ASSUME NEW t \in Token, DeadlinePasses(t) PROVE Goal
  BY <1>4 DEF DeadlinePasses, callState, handleVars, callVars, compactionVars
<1>5. ASSUME NEW accepted \in BOOLEAN, SetExternalOwnersAccepted(accepted) PROVE Goal
  BY <1>5 DEF SetExternalOwnersAccepted, callState, handleVars, callVars, compactionVars
<1> QED BY <1>1, <1>2, <1>3, <1>4, <1>5 DEF RuntimeStep, AdmissionStep

\* Every step is one of the changes named above, or none.
LEMMA EveryChange ==
  ASSUME TypeOK, [Next]_vars PROVE UNCHANGED callState \/ CallChange
<1>1. CASE Next
  BY <1>1, OwnerChange, McpChange, RuntimeChange DEF Next
<1>2. CASE UNCHANGED vars
  BY <1>2 DEF vars, callState, handleVars, callVars, compactionVars
<1> QED BY <1>1, <1>2

-----------------------------------------------------------------------------
(* The accounting of tool calls *)

\* The end of any set of turns rejects exactly the calls those turns held.
LEMMA RevokeAllCalls ==
  ASSUME TypeOK, CallInv, NEW gone \in SUBSET Token, RevokeAll(gone)
  PROVE  CallInv'
<1>1. CallsPartitioned' /\ BindingsAgree'
  BY DEF TypeOK, CallInv, RevokeAll, RejectChannel, CallsPartitioned, BindingsAgree
<1>2. ASSUME NEW c \in Call
      PROVE  reply'[c] = "pending" <=> \E t \in channels' : c \in invocations'[t]
  <2>1. CASE \E t \in gone : c \in invocations[t]
    <3>1. PICK t \in gone : c \in invocations[t]
      BY <2>1
    <3>2. channels' = channels \ gone /\ channels \subseteq Token
      BY DEF TypeOK, RevokeAll
    <3>4. \A u \in Token \ gone : invocations'[u] = invocations[u] /\ c \notin invocations[u]
      BY <3>1 DEF CallInv, NoOrphanedCall, RevokeAll, RejectChannel
    <3>3. reply'[c] = "rejected"
      BY <2>1 DEF RevokeAll, RejectChannel
    <3> QED BY <3>2, <3>3, <3>4
  <2>2. CASE ~\E t \in gone : c \in invocations[t]
    <3>1. reply'[c] = reply[c]
      BY <2>2 DEF RevokeAll, RejectChannel
    <3>2. \A u \in Token : c \in invocations'[u] <=> c \in invocations[u]
      BY <2>2 DEF TypeOK, RevokeAll, RejectChannel
    <3> QED BY <3>1, <3>2, <2>2 DEF TypeOK, CallInv, NoOrphanedCall, RevokeAll, RejectChannel
  <2> QED BY <2>1, <2>2
<1>3. \A t, u \in Token : t # u => invocations'[t] \cap invocations'[u] = {}
  BY DEF TypeOK, CallInv, NoOrphanedCall, RevokeAll, RejectChannel
<1>4. NoOrphanedCall'
  BY <1>2, <1>3 DEF NoOrphanedCall
<1>5. /\ channels' \subseteq issued'
      /\ \A t \in Token : /\ t \notin channels' => invocations'[t] = {}
                          /\ bound'[t] => t \in issued'
                          /\ compactionRequested'[t] => queued'[t] = {}
  BY DEF TypeOK, CallInv, RevokeAll, RejectChannel, compactionVars
<1> QED BY <1>1, <1>4, <1>5 DEF CallInv

\* Every step keeps the accounting of calls.
LEMMA CallStep ==
  ASSUME TypeOK, CallInv, [Next]_vars PROVE CallInv'
<1>1. ASSUME NEW t \in Token, Register(t) PROVE CallInv'
  BY <1>1 DEF Register, TypeOK, CallInv, callVars, compactionVars, CallsPartitioned,
              NoOrphanedCall, BindingsAgree
<1>2. ASSUME NEW t \in Token, RequestCompaction(t) PROVE CallInv'
  <2>1. CallsPartitioned' /\ BindingsAgree'
    BY <1>2 DEF RequestCompaction, Interrupted, TypeOK, CallInv, handleVars, CallsPartitioned,
       BindingsAgree
  <2>2. NoOrphanedCall'
    BY <1>2 DEF RequestCompaction, Interrupted, TypeOK, CallInv, handleVars, NoOrphanedCall, Outcome
  <2> QED BY <1>2, <2>1, <2>2 DEF RequestCompaction, Interrupted, TypeOK, CallInv, handleVars
<1>3. ASSUME NEW t \in Token, NEW c \in Call, CompleteTool(t, c) PROVE CallInv'
  <2>1. CallsPartitioned' /\ BindingsAgree'
    BY <1>3 DEF CompleteTool, TypeOK, CallInv, handleVars, CallsPartitioned, BindingsAgree
  <2>2. NoOrphanedCall'
    BY <1>3 DEF CompleteTool, TypeOK, CallInv, handleVars, NoOrphanedCall, Outcome
  <2> QED BY <1>3, <2>1, <2>2 DEF CompleteTool, TypeOK, CallInv, handleVars, compactionVars
<1>4. ASSUME NEW t \in Token, NEW c \in Call, Invoke(t, c) PROVE CallInv'
  <2>1. t \in channels
    BY <1>4 DEF Invoke, CallInv, BindingsAgree
  <2>2. \A u \in Token : c \notin invocations[u] /\ c \notin delivered[u]
    BY <1>4 DEF Invoke, CallInv, NoOrphanedCall, CallsPartitioned
  <2>3. CallsPartitioned' /\ BindingsAgree'
    BY <1>4, <2>2 DEF Invoke, TypeOK, CallInv, handleVars, CallsPartitioned, BindingsAgree
  <2>4. NoOrphanedCall'
    <3>1. CASE compactionRequested[t]
      BY <1>4, <2>2, <3>1 DEF Invoke, TypeOK, CallInv, handleVars, NoOrphanedCall
    <3>2. CASE ~compactionRequested[t]
      <4>1. /\ channels' = channels
            /\ reply' = [reply EXCEPT ![c] = "pending"]
            /\ invocations' = [invocations EXCEPT ![t] = @ \cup {c}]
        BY <1>4, <3>2 DEF Invoke, handleVars
      <4> QED BY <2>1, <2>2, <4>1 DEF TypeOK, CallInv, NoOrphanedCall
    <3> QED BY <3>1, <3>2
  <2> QED BY <1>4, <2>1, <2>3, <2>4 DEF Invoke, TypeOK, CallInv, handleVars
<1>5. ASSUME NEW t \in Token, HandsOver(t) PROVE CallInv'
  BY <1>5 DEF HandsOver, TakeQueued, TypeOK, CallInv, CallsPartitioned, NoOrphanedCall,
              BindingsAgree
<1>6. ASSUME NEW t \in Token, Binds(t) PROVE CallInv'
  BY <1>6 DEF Binds, TypeOK, CallInv, CallsPartitioned, NoOrphanedCall, BindingsAgree
<1>7. ASSUME NEW gone \in SUBSET channels, RevokeAll(gone) PROVE CallInv'
  BY <1>7, RevokeAllCalls DEF TypeOK
<1>8. CASE UNCHANGED callState
  BY <1>8 DEF callState, CallInv, CallsPartitioned, NoOrphanedCall, BindingsAgree
<1> QED BY <1>1, <1>2, <1>3, <1>4, <1>5, <1>6, <1>7, <1>8, EveryChange DEF CallChange

\* The calls' invariant, and with it the agreement of channels, bindings and the handles.
THEOREM CallsInvariant == Spec => [](TypeOK /\ CallInv)
<1>1. Init => TypeOK /\ CallInv
  BY BrokerConstants DEF Init, TypeOK, Revision, Undefined, SafeState, Outcome, Wait, Idle,
     CallInv, CallsPartitioned, NoOrphanedCall, BindingsAgree
<1>2. TypeOK /\ CallInv /\ [Next]_vars => (TypeOK /\ CallInv)'
  BY TypeStep, CallStep
<1> QED BY <1>1, <1>2, PTL DEF Spec

\* A pending call is queued or handed to Codex, and never both.
THEOREM CallsArePartitioned == Spec => []CallsPartitioned
<1>1. TypeOK /\ CallInv => CallsPartitioned
  BY DEF CallInv
<1> QED BY <1>1, CallsInvariant, PTL

\* Every unanswered invocation is held by exactly one live turn.
THEOREM NoCallIsOrphaned == Spec => []NoOrphanedCall
<1>1. TypeOK /\ CallInv => NoOrphanedCall
  BY DEF CallInv
<1> QED BY <1>1, CallsInvariant, PTL

\* The bindings map is what the channels' own binding ids say.
THEOREM BindingsAlwaysAgree == Spec => []BindingsAgree
<1>1. TypeOK /\ CallInv => BindingsAgree
  BY DEF CallInv
<1> QED BY <1>1, CallsInvariant, PTL

\* A result answers only a call that was handed over; compaction answers none that was.
THEOREM AnswersMatch == Spec => AnswersMatchDelivery
<1> DEFINE Matches(c) ==
      reply[c] = "pending" =>
         /\ reply'[c] = "result" => \E t \in Token : c \in delivered[t]
         /\ reply'[c] = "compacted" => \A t \in Token : c \notin delivered[t]
<1>1. ASSUME TypeOK, CallInv, [Next]_vars, NEW c \in Call
      PROVE  Matches(c)
  <2>1. ASSUME NEW t \in Token, RequestCompaction(t) PROVE Matches(c)
    <3>1. CASE c \in queued[t] \cap invocations[t]
      <4>1. \A u \in Token : c \notin delivered[u]
        BY <1>1, <3>1 DEF CallInv, CallsPartitioned, NoOrphanedCall
      <4> QED BY <2>1, <3>1, <4>1 DEF RequestCompaction, Interrupted
    <3>2. CASE c \notin queued[t] \cap invocations[t]
      BY <2>1, <3>2 DEF RequestCompaction, Interrupted
    <3> QED BY <3>1, <3>2
  <2>2. ASSUME NEW t \in Token, NEW d \in Call, CompleteTool(t, d) PROVE Matches(c)
    BY <1>1, <2>2 DEF CompleteTool, TypeOK
  <2>3. ASSUME NEW t \in Token, NEW d \in Call, Invoke(t, d) PROVE Matches(c)
    BY <1>1, <2>3 DEF Invoke, TypeOK
  <2>4. ASSUME NEW gone \in SUBSET channels, RevokeAll(gone) PROVE Matches(c)
    BY <2>4 DEF RevokeAll, RejectChannel
  <2>5. ASSUME NEW t \in Token, Register(t) \/ HandsOver(t) \/ Binds(t) PROVE Matches(c)
    BY <2>5 DEF Register, HandsOver, Binds, callVars
  <2>6. CASE UNCHANGED callState
    BY <2>6 DEF callState
  <2> QED BY <1>1, <2>1, <2>2, <2>3, <2>4, <2>5, <2>6, EveryChange DEF CallChange
<1>2. TypeOK /\ CallInv /\ [Next]_vars => [\A c \in Call : Matches(c)]_vars
  BY <1>1
<1> QED BY <1>2, CallsInvariant, PTL DEF Spec, AnswersMatchDelivery

-----------------------------------------------------------------------------
(* The refinement of the abstract relay *)

\* Every step of the broker is a step of the relay or leaves its variables alone.
LEMMA RelayStep ==
  ASSUME TypeOK, CallInv, [Next]_vars PROVE [Relay!Next]_Relay!relayVars
<1> USE DEF Relay!relayVars
<1>1. ASSUME NEW t \in Token, Register(t) PROVE Relay!Open(t)
  BY <1>1 DEF Register, Relay!Open, callVars, compactionVars
<1>2. ASSUME NEW t \in Token, RequestCompaction(t) PROVE Relay!Interrupt(t)
  <2>1. queued[t] \cap invocations[t] = queued[t]
    BY DEF CallInv, CallsPartitioned
  <2> QED BY <1>2, <2>1 DEF RequestCompaction, Interrupted, Relay!Interrupt, handleVars
<1>3. ASSUME NEW t \in Token, NEW c \in Call, CompleteTool(t, c) PROVE Relay!Answer(t, c)
  BY <1>3 DEF CompleteTool, Relay!Answer, handleVars, compactionVars
<1>4. ASSUME NEW t \in Token, NEW c \in Call, Invoke(t, c)
      PROVE  Relay!Submit(t, c) \/ Relay!Divert(t, c)
  <2>1. t \in channels
    BY <1>4 DEF Invoke, CallInv, BindingsAgree
  <2> QED BY <1>4, <2>1 DEF Invoke, Relay!Submit, Relay!Divert, handleVars
<1>5. ASSUME NEW t \in Token, HandsOver(t)
      PROVE  Relay!HandOver(t) \/ UNCHANGED Relay!relayVars
  <2>1. queued[t] \cap invocations[t] = queued[t]
    BY DEF CallInv, CallsPartitioned
  <2>2. CASE queued[t] = {}
    BY <1>5, <2>2 DEF HandsOver, TakeQueued, TypeOK
  <2>3. CASE queued[t] # {}
    <3>1. t \in channels /\ ~compactionRequested[t]
      BY <2>3 DEF CallInv, CallsPartitioned
    <3> QED BY <1>5, <2>1, <2>3, <3>1 DEF HandsOver, TakeQueued, Relay!HandOver
  <2> QED BY <2>2, <2>3
<1>6. ASSUME NEW gone \in SUBSET channels, RevokeAll(gone)
      PROVE  Relay!End(gone) \/ UNCHANGED Relay!relayVars
  <2>1. \A t \in Token : queued[t] \cup delivered[t] = invocations[t]
    BY DEF CallInv, CallsPartitioned
  <2>2. CASE gone = {}
    BY <1>6, <2>2 DEF RevokeAll, RejectChannel, TypeOK, compactionVars
  <2>3. CASE gone # {}
    <3>1. reply' = [c \in Call |-> IF \E t \in gone : c \in queued[t] \cup delivered[t]
                                    THEN "rejected" ELSE reply[c]]
      BY <1>6, <2>1 DEF RevokeAll, RejectChannel, TypeOK
    <3> QED BY <1>6, <2>3, <3>1 DEF RevokeAll, RejectChannel, Relay!End, compactionVars
  <2> QED BY <2>2, <2>3
<1>7. ASSUME NEW t \in Token, Binds(t) PROVE UNCHANGED Relay!relayVars
  BY <1>7 DEF Binds
<1>8. CASE UNCHANGED callState
  BY <1>8 DEF callState
<1>9. \A gone \in SUBSET channels : gone \in SUBSET Token
  BY DEF TypeOK
<1> QED BY <1>1, <1>2, <1>3, <1>4, <1>5, <1>6, <1>7, <1>8, <1>9, EveryChange
        DEF CallChange, Relay!Next

\* The broker, with its timers, waiters, aborts, fences and revocations, implements the relay.
THEOREM ImplementsRelay == Spec => ImplementsToolRelay
<1>1. Init => Relay!Init
  BY DEF Init, Relay!Init
<1>2. TypeOK /\ CallInv /\ [Next]_vars => [Relay!Next]_Relay!relayVars
  BY RelayStep
<1> QED BY <1>1, <1>2, CallsInvariant, PTL DEF Spec, ImplementsToolRelay, Relay!Spec

-----------------------------------------------------------------------------
(* The completion fence *)

fenceState == <<activities, completedActivities, activityRevision, completionRevision, fence,
                fenceSeen>>

\* The only steps that touch leases, revisions or fences.
FenceChange ==
    \E t \in Token : \/ BeginFence(t) \/ CommitFence(t)
                     \/ \E a \in Activity : \/ ActivityComplete(t, a)
                                            \/ ClaimAccepted(t, a) /\ TakeLease(t, a)

\* Every step moves leases and fences in one of the ways of FenceChange, or leaves them.
LEMMA EveryFenceChange ==
  ASSUME TypeOK, [Next]_vars PROVE UNCHANGED fenceState \/ FenceChange
<1> DEFINE Goal == UNCHANGED fenceState \/ FenceChange
<1>1. ASSUME OwnerStep PROVE Goal
  <2>1. ASSUME NEW t \in Token, BeginFence(t) \/ CommitFence(t) PROVE Goal
    BY <2>1 DEF FenceChange
  <2>2. ASSUME NEW t \in Token,
               \/ Register(t) \/ Revoke(t) \/ RequestCompaction(t) \/ ConfirmSafeTurnSent(t)
               \/ \E c \in Call : CompleteTool(t, c)
        PROVE Goal
    BY <2>2 DEF fenceState, Register, Revoke, RevokeAll, RejectChannel,
       RequestCompaction, ConfirmSafeTurnSent,
       CompleteTool, activityVars, fenceVars
  <2>3. ASSUME NEW w \in Waiter, NEW t, NextToolBatch(w, t) PROVE Goal
    BY <2>3 DEF fenceState, NextToolBatch, activityVars, fenceVars
  <2>4. ASSUME NEW w \in Waiter, NEW t \in Token,
               OwnerNextBeforeStart(w, t) \/ WaitForRetirement(w, t) \/ WaitForSafeCompletion(w, t)
        PROVE Goal
    BY <2>4 DEF fenceState, OwnerNextBeforeStart, WaitForRetirement, WaitForSafeCompletion,
       BlockAt, activityVars, fenceVars
  <2>5. ASSUME NEW w \in Waiter, OwnerNextResumes(w) \/ AbortWait(w) PROVE Goal
    BY <2>3, <2>5 DEF fenceState, OwnerNextResumes, AbortWait, activityVars, fenceVars
  <2> QED BY <1>1, <2>1, <2>2, <2>3, <2>4, <2>5 DEF OwnerStep, OwnerNext
<1>2. ASSUME NEW w \in Waiter, ClaimResumes(w) PROVE Goal
  <2>1. waits[w].activity \in Activity
    BY <1>2 DEF ClaimResumes, TypeOK, Wait
  <2> QED BY <1>2, <2>1 DEF ClaimResumes, ClaimAccepted, FenceChange, fenceState, TypeOK,
          activityVars, fenceVars
<1>3. ASSUME McpStep PROVE Goal
  <2>1. ASSUME NEW t \in Token, Release(t) \/ StartSafeTurn(t) PROVE Goal
    BY <2>1 DEF fenceState, Release, RevokeAll, RejectChannel, StartSafeTurn, activityVars, fenceVars
  <2>2. ASSUME NEW t \in Token, SafeComplete(t) PROVE Goal
    BY <2>2 DEF fenceState, SafeComplete, CompleteSafe, activityVars, fenceVars
  <2>3. ASSUME NEW t \in Token, NEW a \in Activity, Claim(t, a) PROVE Goal
    BY <2>3 DEF Claim, ClaimAccepted, FenceChange, fenceState, activityVars, fenceVars
  <2>4. ASSUME NEW t \in Token, NEW a \in Activity, ActivityComplete(t, a) PROVE Goal
    BY <2>4 DEF FenceChange
  <2>5. ASSUME NEW t \in Token, NEW c \in Call, Invoke(t, c) PROVE Goal
    BY <2>5 DEF fenceState, Invoke, activityVars, fenceVars
  <2>6. ASSUME NEW w \in Waiter, NEW t \in Token,
               \/ SafeCompleteBeforeSent(w, t)
               \/ \E a \in Activity : ClaimBeforeSent(w, t, a)
        PROVE Goal
    BY <2>6 DEF fenceState, SafeCompleteBeforeSent, ClaimBeforeSent, BlockAt, activityVars, fenceVars
  <2>7. ASSUME NEW w \in Waiter, SafeCompleteResumes(w) PROVE Goal
    BY <2>7 DEF fenceState, SafeCompleteResumes, CompleteSafe, activityVars, fenceVars
  <2> QED BY <1>2, <1>3, <2>1, <2>2, <2>3, <2>4, <2>5, <2>6, <2>7 DEF McpStep
<1>4. ASSUME RuntimeStep \/ AdmissionStep PROVE Goal
  BY <1>4 DEF RuntimeStep, AdmissionStep, fenceState, DeadlinePasses, BatchTimerFires,
     RevokeTrace, SetExternalOwnersAccepted, Prune, RevokeExternalOwners, Close, RevokeAll,
     RejectChannel,
     activityVars, fenceVars
<1>5. CASE UNCHANGED vars
  BY <1>5 DEF vars, fenceState, activityVars, fenceVars
<1> QED BY <1>1, <1>3, <1>4, <1>5 DEF Next

\* Every step keeps the invariant of the fence.
LEMMA FenceStep ==
  ASSUME TypeOK, FenceInv, [Next]_vars PROVE FenceInv'
<1> USE DEF FenceInv, CommittedTurnIsQuiet, Committed, TypeOK, Revision, Undefined
<1>1. ASSUME NEW t \in Token, BeginFence(t) PROVE FenceInv'
  BY <1>1 DEF BeginFence, activityVars
<1>2. ASSUME NEW t \in Token, CommitFence(t) PROVE FenceInv'
  BY <1>2 DEF CommitFence, activityVars
<1>3. ASSUME NEW t \in Token, NEW a \in Activity, ActivityComplete(t, a) PROVE FenceInv'
  BY <1>3 DEF ActivityComplete, fenceVars
<1>4. ASSUME NEW t \in Token, NEW a \in Activity, ClaimAccepted(t, a), TakeLease(t, a)
      PROVE FenceInv'
  BY <1>4 DEF ClaimAccepted, TakeLease, fenceVars
<1>5. CASE UNCHANGED fenceState
  BY <1>5 DEF fenceState
<1> QED BY <1>1, <1>2, <1>3, <1>4, <1>5, EveryFenceChange DEF FenceChange

\* The fence's invariant: a claim is refused once the turn committed or the activity was
\* settled, and a revision that is still the turn's own names the activities the owner saw.
THEOREM FenceInvariant == Spec => [](TypeOK /\ FenceInv)
<1>1. Init => TypeOK /\ FenceInv
  BY BrokerConstants DEF Init, TypeOK, Revision, Undefined, SafeState, Outcome, Wait, Idle,
     FenceInv, CommittedTurnIsQuiet, Committed
<1>2. TypeOK /\ FenceInv /\ [Next]_vars => (TypeOK /\ FenceInv)'
  BY TypeStep, FenceStep
<1> QED BY <1>1, <1>2, PTL DEF Spec

\* No MCP request holds a lease on a turn whose fence committed.
THEOREM CommittedTurnsStayQuiet == Spec => []CommittedTurnIsQuiet
<1>1. TypeOK /\ FenceInv => CommittedTurnIsQuiet
  BY DEF FenceInv
<1> QED BY <1>1, FenceInvariant, PTL

\* A fence commits only if no activity ended since its revision was read.
THEOREM FenceIsSound == Spec => FenceSound
<1> DEFINE Sound(t) == ~Committed(t) /\ Committed(t)' => completedActivities[t] = fenceSeen[t]
<1>1. ASSUME TypeOK, FenceInv, [Next]_vars, NEW t \in Token PROVE Sound(t)
  <2>1. ASSUME NEW u \in Token, CommitFence(u) PROVE Sound(t)
    BY <1>1, <2>1 DEF CommitFence, Committed, FenceInv, TypeOK
  <2>2. CASE UNCHANGED completionRevision
    BY <2>2 DEF Committed
  <2>3. UNCHANGED completionRevision \/ \E u \in Token : CommitFence(u)
    BY <1>1, EveryFenceChange DEF FenceChange, fenceState, BeginFence, ActivityComplete,
       TakeLease, fenceVars
  <2> QED BY <2>1, <2>2, <2>3
<1>2. TypeOK /\ FenceInv /\ [Next]_vars => [\A t \in Token : Sound(t)]_vars
  BY <1>1
<1> QED BY <1>2, FenceInvariant, PTL DEF Spec, FenceSound

-----------------------------------------------------------------------------
(* Blocked requests *)

\* The end of any set of turns settles the requests blocked on them.
LEMMA RevokeAllWaits ==
  ASSUME TypeOK, WaitInv, NEW gone \in SUBSET Token, RevokeAll(gone)
  PROVE  WaitInv'
<1>1. NoWaitOutlivesItsTurn'
  BY DEF TypeOK, WaitInv, RevokeAll, RejectChannel, NoWaitOutlivesItsTurn, Idle, Blocked
<1>2. NoLostWakeup'
  <2>1. \A t \in channels' : WaitersAt("tools", t)' \subseteq WaitersAt("tools", t)
    BY DEF RevokeAll, RejectChannel, WaitersAt, Idle
  <2>2. \A t \in channels' : /\ t \in channels /\ t \in Token
                             /\ queued'[t] = queued[t] /\ batchTimer'[t] = batchTimer[t]
    BY DEF RevokeAll, RejectChannel, TypeOK
  <2> QED BY <2>1, <2>2 DEF WaitInv, NoLostWakeup
<1>3. NoLostSafeWakeup'
  <2>1. SUFFICES ASSUME NEW w \in Waiter, waits'[w].at \in Blocked
                 PROVE  /\ waits'[w] = waits[w] /\ waits[w].turn \in Token
                        /\ safe'[waits[w].turn] = safe[waits[w].turn]
                        /\ launcherSent' = launcherSent
    BY DEF WaitInv, NoLostSafeWakeup, Blocked
  <2> QED BY <2>1 DEF TypeOK, WaitInv, NoWaitOutlivesItsTurn, RevokeAll, RejectChannel,
          Idle, Blocked
<1> QED BY <1>1, <1>2, <1>3 DEF WaitInv

\* Requests that stop waiting disturb nothing.
LEMMA FewerWaits ==
  ASSUME TypeOK, WaitInv, UNCHANGED <<channels, queued, batchTimer, safe, launcherSent>>,
         \A w \in Waiter : waits'[w] = waits[w] \/ waits'[w] = Idle
  PROVE  WaitInv'
<1>1. NoWaitOutlivesItsTurn' /\ NoLostSafeWakeup'
  BY DEF WaitInv, NoWaitOutlivesItsTurn, NoLostSafeWakeup, Idle, Blocked
<1>2. \A t : WaitersAt("tools", t)' \subseteq WaitersAt("tools", t)
  BY DEF WaitersAt, Idle
<1> QED BY <1>1, <1>2 DEF WaitInv, NoLostWakeup

\* One request that stops waiting disturbs nothing.
LEMMA FinishWaits ==
  ASSUME TypeOK, WaitInv, NEW w \in Waiter, Finish(w),
         UNCHANGED <<channels, queued, batchTimer, safe, launcherSent>>
  PROVE  WaitInv'
BY FewerWaits DEF TypeOK, Finish

\* A request blocks where nothing has happened yet that it waits for.
LEMMA BlockWaits ==
  ASSUME TypeOK, WaitInv, NEW w \in Waiter, NEW at \in Blocked, NEW t \in channels, NEW a,
         waits' = [waits EXCEPT ![w] = WaitAt(at, t, a)],
         UNCHANGED <<channels, queued, batchTimer, safe, launcherSent>>,
         at = "tools" => queued[t] = {},
         at = "startWait" => safe[t] = "awaiting_start",
         at \in {"claimWait", "completeWait"} => ~launcherSent[t],
         at = "completion" => safe[t] \notin {"completed", "revoked"}
  PROVE  WaitInv'
<1>1. \A v \in Waiter : waits'[v] = waits[v] \/ (v = w /\ waits'[v] = WaitAt(at, t, a))
  BY DEF TypeOK
<1>2. NoWaitOutlivesItsTurn'
  BY <1>1 DEF WaitInv, NoWaitOutlivesItsTurn, WaitAt
<1>4. NoLostSafeWakeup'
  BY <1>1 DEF WaitInv, NoLostSafeWakeup, WaitAt
<1>3. \A u \in channels : queued[u] # {} => WaitersAt("tools", u)' \subseteq WaitersAt("tools", u)
  BY <1>1 DEF WaitersAt, WaitAt
<1> QED BY <1>2, <1>3, <1>4 DEF WaitInv, NoLostWakeup

\* nextToolBatch blocks its caller only on an empty queue.
LEMMA BatchWaits ==
  ASSUME TypeOK, WaitInv, NEW w \in Waiter, NEW t, NextToolBatch(w, t)
  PROVE  WaitInv'
<1>1. t \in Token
  BY DEF TypeOK, NextToolBatch
<1>2. CASE delivered[t] = {} /\ queued[t] # {}
  <2>1. TakeQueued(t) /\ Finish(w) /\ UNCHANGED <<channels, batchTimer, safe, launcherSent>>
    BY <1>2 DEF NextToolBatch, handleVars, safeVars
  <2>2. \A v \in Waiter : waits'[v] = waits[v] \/ waits'[v] = Idle
    BY <2>1 DEF Finish, TypeOK
  <2>3. \A u \in Token : queued'[u] # {} => queued'[u] = queued[u]
    BY <2>1 DEF TakeQueued, TypeOK
  <2>4. \A u : WaitersAt("tools", u)' \subseteq WaitersAt("tools", u)
    BY <2>2 DEF WaitersAt, Idle
  <2>5. NoWaitOutlivesItsTurn' /\ NoLostSafeWakeup'
    BY <2>1, <2>2 DEF WaitInv, NoWaitOutlivesItsTurn, NoLostSafeWakeup, Idle, Blocked
  <2> QED BY <2>1, <2>3, <2>4, <2>5 DEF WaitInv, NoLostWakeup, TypeOK
<1>3. CASE delivered[t] # {}
  BY <1>3, FinishWaits DEF NextToolBatch, handleVars, callVars, safeVars
<1>4. CASE delivered[t] = {} /\ queued[t] = {}
  <2>1. /\ waits' = [waits EXCEPT ![w] = WaitAt("tools", t, None)]
        /\ t \in channels
        /\ UNCHANGED <<channels, queued, batchTimer, safe, launcherSent>>
    BY <1>4 DEF NextToolBatch, handleVars, callVars, safeVars
  <2> QED BY <1>4, <2>1, BlockWaits DEF Blocked
<1> QED BY <1>2, <1>3, <1>4

\* Zero Risk: what a confirmation or a start lets go on is exactly what waited for it.
LEMMA ResumedWaits ==
  ASSUME TypeOK, WaitInv, NEW t \in Token,
         NEW points \in SUBSET {"startWait", "claimWait", "completeWait"},
         waits' = Resumed(points, t), UNCHANGED <<channels, queued, batchTimer>>,
         \A u \in Token : u # t => safe'[u] = safe[u] /\ launcherSent'[u] = launcherSent[u],
         safe'[t] # safe[t] => safe'[t] = "running" /\ "startWait" \in points,
         launcherSent'[t] # launcherSent[t] => {"claimWait", "completeWait"} \subseteq points
  PROVE  WaitInv'
<1>1. \A w \in Waiter : \/ waits'[w] = waits[w] /\ (waits[w].turn # t \/ waits[w].at \notin points)
                        \/ waits[w].turn = t /\ waits[w].at \in points /\ waits'[w].at \in Resumable
  BY DEF Resumed, Resumable, TypeOK, Wait
<1>2. NoWaitOutlivesItsTurn'
  BY <1>1 DEF WaitInv, NoWaitOutlivesItsTurn, Blocked, Resumable
<1>3. NoLostWakeup'
  <2>1. \A u : WaitersAt("tools", u)' \subseteq WaitersAt("tools", u)
    BY <1>1 DEF WaitersAt, Resumable
  <2> QED BY <2>1 DEF WaitInv, NoLostWakeup
<1>4. ASSUME NEW w \in Waiter, waits'[w] = waits[w], waits[w].at \in Blocked
      PROVE  LET u == waits'[w].turn IN
             /\ waits'[w].at = "startWait" => safe'[u] = "awaiting_start"
             /\ waits'[w].at \in {"claimWait", "completeWait"} => ~launcherSent'[u]
             /\ waits'[w].at = "completion" => safe'[u] \notin {"completed", "revoked"}
  <2>1. waits[w].turn \in Token
    BY <1>4 DEF WaitInv, NoWaitOutlivesItsTurn, TypeOK
  <2>2. CASE waits[w].turn # t
    BY <1>4, <2>1, <2>2 DEF WaitInv, NoLostSafeWakeup
  <2>3. CASE waits[w].turn = t
    <3>1. waits[w].at \notin points
      BY <1>1, <1>4, <2>3 DEF Blocked, Resumable
    <3> QED BY <1>4, <2>3, <3>1 DEF WaitInv, NoLostSafeWakeup, TypeOK
  <2> QED BY <2>2, <2>3
<1>5. NoLostSafeWakeup'
  <2>1. \A w \in Waiter :
           waits'[w].at \in Blocked => waits'[w] = waits[w] /\ waits[w].at \in Blocked
    BY <1>1 DEF Blocked, Resumable
  <2> QED BY <1>4, <2>1 DEF NoLostSafeWakeup, Blocked
<1> QED BY <1>2, <1>3, <1>5 DEF WaitInv

\* Start and Sent let their waiters go on.
LEMMA SafeWaits ==
  ASSUME TypeOK, WaitInv, NEW t \in Token, StartSafeTurn(t) \/ ConfirmSafeTurnSent(t)
  PROVE  WaitInv'
<1>1. CASE StartSafeTurn(t)
  <2> DEFINE points == IF safe'[t] = "running" THEN {"startWait"} ELSE {}
  <2>1. /\ waits' = Resumed(points, t)
        /\ UNCHANGED <<channels, queued, batchTimer, launcherSent>>
        /\ ActivateSafe(t)
    BY <1>1 DEF StartSafeTurn, handleVars, callVars
  <2>2. /\ \A u \in Token : u # t => safe'[u] = safe[u]
        /\ safe'[t] # safe[t] => safe'[t] = "running"
    BY <2>1 DEF ActivateSafe, TypeOK
  <2> QED BY <2>1, <2>2, ResumedWaits
<1>2. CASE ConfirmSafeTurnSent(t)
  <2> DEFINE points == {"claimWait", "completeWait"}
                         \cup IF safe'[t] = "running" THEN {"startWait"} ELSE {}
  <2>1. /\ waits' = Resumed(points, t)
        /\ launcherSent' = [launcherSent EXCEPT ![t] = TRUE]
        /\ UNCHANGED <<channels, queued, batchTimer>>
        /\ ActivateSafe(t)
    BY <1>2 DEF ConfirmSafeTurnSent, handleVars, callVars
  <2>2. /\ \A u \in Token : u # t => safe'[u] = safe[u]
        /\ safe'[t] # safe[t] => safe'[t] = "running"
    BY <2>1 DEF ActivateSafe, TypeOK
  <2>3. \A u \in Token : u # t => launcherSent'[u] = launcherSent[u]
    BY <2>1 DEF TypeOK
  <2> QED BY <2>1, <2>2, <2>3, ResumedWaits
<1> QED BY <1>1, <1>2

\* The completion of a Zero Risk turn answers everyone who waits for its final answer.
LEMMA CompleteSafeWaits ==
  ASSUME TypeOK, WaitInv, NEW t, NEW settled \in SUBSET Waiter, CompleteSafe(t, settled)
  PROVE  WaitInv'
<1>1. \A w \in Waiter : \/ waits'[w] = Idle
                        \/ /\ waits'[w] = waits[w]
                           /\ ~(waits[w].at = "completion" /\ waits[w].turn = t)
  BY DEF CompleteSafe, WaitersAt
<1>2. t \in Token /\ safe[t] = "running" /\ safe' = [safe EXCEPT ![t] = "completed"]
  BY DEF CompleteSafe, CanCompleteSafe, TypeOK
<1>3. UNCHANGED <<channels, queued, batchTimer, launcherSent>>
  BY DEF CompleteSafe, handleVars, callVars
<1>4. NoWaitOutlivesItsTurn'
  BY <1>1, <1>3 DEF WaitInv, NoWaitOutlivesItsTurn, Idle, Blocked
<1>5. NoLostWakeup'
  <2>1. \A u : WaitersAt("tools", u)' \subseteq WaitersAt("tools", u)
    BY <1>1 DEF WaitersAt, Idle
  <2> QED BY <1>3, <2>1 DEF WaitInv, NoLostWakeup
<1>6. NoLostSafeWakeup'
  BY <1>1, <1>2, <1>3 DEF WaitInv, NoLostSafeWakeup, Idle, TypeOK
<1> QED BY <1>4, <1>5, <1>6 DEF WaitInv

waitState == <<channels, queued, batchTimer, safe, launcherSent, waits>>

\* A step that touches neither waits nor what they wait for.
LEMMA SameWaits ==
  ASSUME WaitInv, UNCHANGED waitState PROVE WaitInv'
BY DEF waitState, WaitInv, NoWaitOutlivesItsTurn, NoLostWakeup, NoLostSafeWakeup, WaitersAt

\* The owner's operations.
LEMMA OwnerWaits ==
  ASSUME TypeOK, CallInv, WaitInv, OwnerStep PROVE WaitInv'
<1>1. ASSUME NEW t \in Token, Register(t) PROVE WaitInv'
  <2>1. queued[t] = {}
    BY <1>1 DEF Register, CallInv, CallsPartitioned
  <2> QED BY <1>1, <2>1 DEF Register, WaitInv, NoWaitOutlivesItsTurn, NoLostWakeup,
          NoLostSafeWakeup, WaitersAt, callVars, safeVars
<1>2. ASSUME NEW t \in Token, Revoke(t) PROVE WaitInv'
  BY <1>2, RevokeAllWaits DEF Revoke
<1>3. ASSUME NEW t \in Token, RequestCompaction(t) PROVE WaitInv'
  BY <1>3 DEF RequestCompaction, Interrupted, TypeOK, WaitInv, NoWaitOutlivesItsTurn, NoLostWakeup,
     NoLostSafeWakeup, WaitersAt, handleVars, safeVars
<1>4. ASSUME NEW t \in Token,
             BeginFence(t) \/ CommitFence(t) \/ (\E c \in Call : CompleteTool(t, c))
      PROVE  WaitInv'
  BY <1>4, SameWaits DEF BeginFence, CommitFence, CompleteTool, waitState, handleVars,
     callVars, safeVars
<1>5. ASSUME NEW t \in Token, ConfirmSafeTurnSent(t) PROVE WaitInv'
  BY <1>5, SafeWaits
<1>6. ASSUME NEW w \in Waiter, NEW t \in Token, OwnerNext(w, t) PROVE WaitInv'
  BY <1>6, BatchWaits DEF OwnerNext
<1>7. ASSUME NEW w \in Waiter, OwnerNextResumes(w) \/ AbortWait(w) PROVE WaitInv'
  BY <1>7, BatchWaits, FinishWaits DEF OwnerNextResumes, AbortWait, handleVars, callVars,
     safeVars
<1>8. ASSUME NEW w \in Waiter, NEW t \in Token, OwnerNextBeforeStart(w, t) PROVE WaitInv'
  BY <1>8, BlockWaits DEF OwnerNextBeforeStart, BlockAt, Blocked, handleVars, callVars, safeVars
<1>9. ASSUME NEW w \in Waiter, NEW t \in Token, WaitForRetirement(w, t) PROVE WaitInv'
  BY <1>9, BlockWaits DEF WaitForRetirement, BlockAt, Blocked, handleVars, callVars, safeVars
<1>10. ASSUME NEW w \in Waiter, NEW t \in Token, WaitForSafeCompletion(w, t) PROVE WaitInv'
  BY <1>10, BlockWaits DEF WaitForSafeCompletion, BlockAt, Blocked, handleVars, callVars, safeVars
<1> QED BY <1>1, <1>2, <1>3, <1>4, <1>5, <1>6, <1>7, <1>8, <1>9, <1>10 DEF OwnerStep

\* The MCP requests' operations.
LEMMA McpWaits ==
  ASSUME TypeOK, CallInv, WaitInv, McpStep PROVE WaitInv'
<1>1. ASSUME NEW t \in Token, Release(t) PROVE WaitInv'
  BY <1>1, RevokeAllWaits DEF Release
<1>2. ASSUME NEW t \in Token, StartSafeTurn(t) PROVE WaitInv'
  BY <1>2, SafeWaits
<1>3. ASSUME NEW t \in Token, SafeComplete(t) PROVE WaitInv'
  BY <1>3, CompleteSafeWaits DEF SafeComplete
<1>4. ASSUME NEW t \in Token, NEW a \in Activity, Claim(t, a) \/ ActivityComplete(t, a)
      PROVE  WaitInv'
  BY <1>4, SameWaits DEF Claim, TakeLease, ActivityComplete, waitState, handleVars, callVars,
     safeVars
<1>5. ASSUME NEW t \in Token, NEW c \in Call, Invoke(t, c) PROVE WaitInv'
  <2>1. /\ UNCHANGED <<channels, safe, launcherSent, waits>>
        /\ \A u \in Token : /\ u # t => queued'[u] = queued[u]
                            /\ batchTimer[u] => batchTimer'[u]
        /\ \/ queued' = queued
           \/ WaitersAt("tools", t) # {} => batchTimer'[t]
    BY <1>5 DEF Invoke, ScheduleToolWaiters, TypeOK, handleVars, safeVars
  <2>2. NoLostWakeup'
    BY <2>1 DEF TypeOK, WaitInv, NoLostWakeup, WaitersAt
  <2> QED BY <2>1, <2>2 DEF WaitInv, NoWaitOutlivesItsTurn, NoLostSafeWakeup
<1>6. ASSUME NEW w \in Waiter, NEW t \in Token, SafeCompleteBeforeSent(w, t) PROVE WaitInv'
  BY <1>6, BlockWaits DEF SafeCompleteBeforeSent, BlockAt, Blocked, handleVars, callVars,
     safeVars
<1>7. ASSUME NEW w \in Waiter, NEW t \in Token, NEW a \in Activity, ClaimBeforeSent(w, t, a)
      PROVE  WaitInv'
  BY <1>7, BlockWaits DEF ClaimBeforeSent, BlockAt, Blocked, handleVars, callVars, safeVars
<1>8. ASSUME NEW w \in Waiter, ClaimResumes(w) PROVE WaitInv'
  BY <1>8, FinishWaits DEF ClaimResumes, TakeLease, handleVars, callVars, safeVars
<1>9. ASSUME NEW w \in Waiter, SafeCompleteResumes(w) PROVE WaitInv'
  BY <1>9, FinishWaits, CompleteSafeWaits DEF SafeCompleteResumes, handleVars, callVars, safeVars
<1> QED BY <1>1, <1>2, <1>3, <1>4, <1>5, <1>6, <1>7, <1>8, <1>9 DEF McpStep

\* Timers, expiry, revocations and the admission of owners.
LEMMA RuntimeWaits ==
  ASSUME TypeOK, WaitInv, RuntimeStep \/ AdmissionStep PROVE WaitInv'
<1>1. ASSUME NEW t \in Token, BatchTimerFires(t) PROVE WaitInv'
  <2>1. UNCHANGED <<channels, safe, launcherSent>>
    BY <1>1 DEF BatchTimerFires, handleVars, safeVars
  <2>2. \A w \in Waiter : waits'[w] = waits[w] \/ waits'[w] = Idle
    BY <1>1 DEF BatchTimerFires
  <2>3. NoWaitOutlivesItsTurn' /\ NoLostSafeWakeup'
    BY <2>1, <2>2 DEF WaitInv, NoWaitOutlivesItsTurn, NoLostSafeWakeup, Idle, Blocked
  <2>4. \A u : WaitersAt("tools", u)' \subseteq WaitersAt("tools", u)
    BY <2>2 DEF WaitersAt, Idle
  <2>5. queued'[t] = {} \/ WaitersAt("tools", t)' = {}
    BY <1>1, <2>4 DEF BatchTimerFires, TakeQueued, TypeOK
  <2>6. \A u \in Token : u # t => queued'[u] = queued[u] /\ batchTimer'[u] = batchTimer[u]
    BY <1>1 DEF BatchTimerFires, TakeQueued, TypeOK
  <2>7. NoLostWakeup'
    BY <2>1, <2>4, <2>5, <2>6 DEF TypeOK, WaitInv, NoLostWakeup
  <2> QED BY <2>3, <2>7 DEF WaitInv
<1>2. ASSUME NEW t \in Token, DeadlinePasses(t) PROVE WaitInv'
  BY <1>2, SameWaits DEF DeadlinePasses, waitState, handleVars, callVars, safeVars
<1>3. ASSUME NEW accepted \in BOOLEAN, SetExternalOwnersAccepted(accepted) PROVE WaitInv'
  BY <1>3, SameWaits DEF SetExternalOwnersAccepted, waitState, handleVars, callVars, safeVars
<1>4. channels \in SUBSET Token /\ Expired \in SUBSET Token
  BY DEF TypeOK, Expired
<1>5. ASSUME NEW trace \in Trace, RevokeTrace(trace) PROVE WaitInv'
  BY <1>4, <1>5, RevokeAllWaits DEF RevokeTrace
<1>6. CASE Prune \/ RevokeExternalOwners \/ Close
  BY <1>4, <1>6, RevokeAllWaits DEF Prune, RevokeExternalOwners, Close
<1> QED BY <1>1, <1>2, <1>3, <1>5, <1>6 DEF RuntimeStep, AdmissionStep

\* Blocked requests, for every number of turns and waiters: none outlives its turn, the batch
\* timer is armed whenever the owner waits with calls queued, and no Zero Risk wait outlives
\* the event it is for.
THEOREM WaitsInvariant == Spec => [](TypeOK /\ CallInv /\ WaitInv)
<1>1. Init => WaitInv
  BY DEF Init, WaitInv, NoWaitOutlivesItsTurn, NoLostWakeup, NoLostSafeWakeup, Idle, Blocked
<1>2. TypeOK /\ CallInv /\ WaitInv /\ [Next]_vars => WaitInv'
  <2>1. ASSUME WaitInv, UNCHANGED vars PROVE WaitInv'
    BY <2>1, SameWaits DEF vars, waitState, handleVars, callVars, safeVars
  <2> QED BY <2>1, OwnerWaits, McpWaits, RuntimeWaits DEF Next
<1> QED BY <1>1, <1>2, CallsInvariant, PTL DEF Spec

\* Every way a turn can end settles the requests blocked on it.
THEOREM NoWaitOutlives == Spec => []NoWaitOutlivesItsTurn
<1>1. TypeOK /\ CallInv /\ WaitInv => NoWaitOutlivesItsTurn
  BY DEF WaitInv
<1> QED BY <1>1, WaitsInvariant, PTL

\* The wakeup owed to an owner that waits with calls queued is never lost.
THEOREM WakeupsAreKept == Spec => []NoLostWakeup
<1>1. TypeOK /\ CallInv /\ WaitInv => NoLostWakeup
  BY DEF WaitInv
<1> QED BY <1>1, WaitsInvariant, PTL

\* No Zero Risk request stays blocked on a start, a Sent or a completion that has happened.
THEOREM SafeWakeupsAreKept == Spec => []NoLostSafeWakeup
<1>1. TypeOK /\ CallInv /\ WaitInv => NoLostSafeWakeup
  BY DEF WaitInv
<1> QED BY <1>1, WaitsInvariant, PTL

-----------------------------------------------------------------------------
(* Zero Risk authorization *)

\* A step that adds no lease and no call to a turn, and moves neither its state nor its
\* deadline.
Uneventful(t) ==
    /\ activities'[t] \subseteq activities[t] /\ invocations'[t] \subseteq invocations[t]
    /\ UNCHANGED <<safe, launcherSent, connectorStarted, deadline>>

LEMMA UneventfulSafe ==
  ASSUME TypeOK, SafeInv, channels' \subseteq channels, issued \subseteq issued',
         \A t \in SafeToken : Uneventful(t)
  PROVE  SafeInv'
BY DEF SafeInv, SafeTurnAuthorized, Uneventful

\* The end of turns takes them out of the property; no turn that is not registered ends.
LEMMA RevokeAllSafe ==
  ASSUME TypeOK, CallInv, SafeInv, NEW gone \in SUBSET channels, RevokeAll(gone)
  PROVE  SafeInv'
<1>1. /\ channels' = channels \ gone
      /\ UNCHANGED <<issued, activities, launcherSent, connectorStarted, deadline>>
  BY DEF RevokeAll, activityVars
<1>2. \A t \in Token \ gone : safe'[t] = safe[t] /\ invocations'[t] = invocations[t]
  BY DEF RevokeAll, RejectChannel
<1>3. gone \subseteq issued /\ SafeToken \subseteq Token
  BY BrokerConstants DEF CallInv
<1> QED BY <1>1, <1>2, <1>3 DEF SafeInv, SafeTurnAuthorized

\* Both confirmations are there when a turn starts, and its deadline is lifted.
LEMMA ActivateSafeTurn ==
  ASSUME TypeOK, CallInv, SafeInv, NEW t \in Token, StartSafeTurn(t) \/ ConfirmSafeTurnSent(t)
  PROVE  SafeInv'
<1>1. t \in issued /\ UNCHANGED <<issued, channels, activities, invocations>>
  BY DEF StartSafeTurn, ConfirmSafeTurnSent, handleVars, callVars, activityVars, CallInv
<1>2. /\ launcherSent[t] => launcherSent'[t]
      /\ connectorStarted[t] => connectorStarted'[t]
      /\ \A u \in Token \ {t} : /\ launcherSent'[u] = launcherSent[u]
                                /\ connectorStarted'[u] = connectorStarted[u]
                                /\ safe'[u] = safe[u] /\ deadline'[u] = deadline[u]
  BY DEF StartSafeTurn, ConfirmSafeTurnSent, ActivateSafe, TypeOK
<1>3. \/ safe'[t] = safe[t] /\ deadline'[t] = deadline[t]
      \/ /\ safe[t] = "awaiting_start" /\ safe'[t] = "running" /\ deadline'[t] = "none"
         /\ launcherSent'[t] /\ connectorStarted'[t]
  BY DEF StartSafeTurn, ConfirmSafeTurnSent, ActivateSafe, TypeOK
<1> QED BY <1>1, <1>2, <1>3, BrokerConstants DEF SafeInv, SafeTurnAuthorized

\* A lease or a call is taken on a running Zero Risk turn only.
LEMMA AdmissionSafe ==
  ASSUME TypeOK, CallInv, SafeInv, NEW t \in Token,
         \/ \E c \in Call : Invoke(t, c)
         \/ \E a \in Activity : ClaimAccepted(t, a) /\ TakeLease(t, a)
  PROVE  SafeInv'
<1>1. t \in channels /\ (t \in SafeToken => safe[t] = "running") /\ t \in issued
  BY DEF Invoke, ClaimAccepted, HarnessRunning, CallInv, BindingsAgree
<1>2. UNCHANGED <<issued, channels, safe, launcherSent, connectorStarted, deadline>>
  BY DEF Invoke, TakeLease, handleVars, safeVars
<1>3. \A u \in Token \ {t} : activities'[u] = activities[u] /\ invocations'[u] = invocations[u]
  BY DEF Invoke, TakeLease, callVars, activityVars, TypeOK
<1> QED BY <1>1, <1>2, <1>3, BrokerConstants DEF SafeInv, SafeTurnAuthorized

\* A turn completes with no lease and no call left.
LEMMA CompleteSafeSafe ==
  ASSUME TypeOK, CallInv, SafeInv, NEW t, NEW settled, CompleteSafe(t, settled)
  PROVE  SafeInv'
<1>1. /\ t \in channels /\ safe[t] = "running" /\ activities[t] = {} /\ invocations[t] = {}
      /\ t \in issued /\ safe' = [safe EXCEPT ![t] = "completed"]
  BY DEF CompleteSafe, CanCompleteSafe, CallInv
<1>2. UNCHANGED <<issued, channels, activities, invocations, launcherSent, connectorStarted,
                  deadline>>
  BY DEF CompleteSafe, handleVars, callVars, activityVars
<1> QED BY <1>1, <1>2, BrokerConstants DEF SafeInv, SafeTurnAuthorized, TypeOK

\* The owner's operations.
LEMMA OwnerSafe ==
  ASSUME TypeOK, CallInv, SafeInv, OwnerStep PROVE SafeInv'
<1>1. ASSUME NEW t \in Token, Register(t) PROVE SafeInv'
  <2>1. invocations[t] = {} /\ t \notin channels
    BY <1>1 DEF Register, CallInv
  <2>2. /\ UNCHANGED <<activities, invocations, safe, launcherSent, connectorStarted>>
        /\ channels' = channels \cup {t} /\ issued' = issued \cup {t}
        /\ \A u \in Token \ {t} : deadline'[u] = deadline[u]
    BY <1>1 DEF Register, callVars, activityVars, safeVars, TypeOK
  <2> QED BY <1>1, <2>1, <2>2, BrokerConstants DEF SafeInv, SafeTurnAuthorized, Register
<1>2. ASSUME NEW t \in Token, Revoke(t) PROVE SafeInv'
  BY <1>2, RevokeAllSafe DEF Revoke
<1>3. ASSUME NEW t \in Token, ConfirmSafeTurnSent(t) PROVE SafeInv'
  BY <1>3, ActivateSafeTurn
<1>4. ASSUME NEW t \in Token,
             \/ RequestCompaction(t) \/ BeginFence(t) \/ CommitFence(t)
             \/ \E c \in Call : CompleteTool(t, c)
      PROVE  SafeInv'
  <2>1. UNCHANGED <<issued, channels, activities, safe, launcherSent, connectorStarted, deadline>>
    BY <1>4 DEF RequestCompaction, BeginFence, CommitFence, CompleteTool, handleVars,
       activityVars, safeVars
  <2>2. \/ invocations' = invocations
        \/ \E gone : invocations' = [invocations EXCEPT ![t] = @ \ gone]
    BY <1>4 DEF RequestCompaction, BeginFence, CommitFence, CompleteTool, callVars
  <2>3. \A u \in Token : invocations'[u] \subseteq invocations[u]
    BY <2>2 DEF TypeOK
  <2> QED BY <2>1, <2>3, UneventfulSafe, BrokerConstants DEF Uneventful
<1>5. ASSUME NEW w \in Waiter, NEW t, NextToolBatch(w, t) PROVE SafeInv'
  BY <1>5, UneventfulSafe DEF NextToolBatch, Uneventful, handleVars, callVars, activityVars,
     safeVars
<1>6. ASSUME NEW w \in Waiter, OwnerNextResumes(w) \/ AbortWait(w) PROVE SafeInv'
  BY <1>5, <1>6, UneventfulSafe DEF OwnerNextResumes, AbortWait, Uneventful, handleVars,
     callVars, activityVars, safeVars
<1>7. ASSUME NEW w \in Waiter, NEW t \in Token,
             OwnerNextBeforeStart(w, t) \/ WaitForRetirement(w, t) \/ WaitForSafeCompletion(w, t)
      PROVE  SafeInv'
  BY <1>7, UneventfulSafe DEF OwnerNextBeforeStart, WaitForRetirement, WaitForSafeCompletion,
     BlockAt, Uneventful, handleVars, callVars, activityVars, safeVars
<1> QED BY <1>1, <1>2, <1>3, <1>4, <1>5, <1>6, <1>7 DEF OwnerStep, OwnerNext

\* The MCP requests' operations.
LEMMA McpSafe ==
  ASSUME TypeOK, CallInv, SafeInv, McpStep PROVE SafeInv'
<1>1. ASSUME NEW t \in Token, Release(t) PROVE SafeInv'
  BY <1>1, RevokeAllSafe DEF Release
<1>2. ASSUME NEW t \in Token, StartSafeTurn(t) PROVE SafeInv'
  BY <1>2, ActivateSafeTurn
<1>3. ASSUME NEW t \in Token, \/ \E a \in Activity : Claim(t, a)
                              \/ \E c \in Call : Invoke(t, c)
      PROVE  SafeInv'
  BY <1>3, AdmissionSafe DEF Claim
<1>4. ASSUME NEW w \in Waiter, ClaimResumes(w) PROVE SafeInv'
  <2>1. waits[w].activity \in Activity /\ waits[w].turn \in Token \cup {None}
    BY <1>4 DEF ClaimResumes, TypeOK, Wait
  <2>2. ASSUME ClaimAccepted(waits[w].turn, waits[w].activity),
               TakeLease(waits[w].turn, waits[w].activity)
        PROVE  SafeInv'
    BY <2>1, <2>2, AdmissionSafe DEF ClaimAccepted, TypeOK
  <2> QED BY <1>4, <2>2, UneventfulSafe DEF ClaimResumes, Uneventful, handleVars, callVars,
          activityVars, safeVars
<1>5. ASSUME NEW t \in Token, NEW a \in Activity, ActivityComplete(t, a) PROVE SafeInv'
  <2>1. \A u \in Token : Uneventful(u)
    BY <1>5 DEF ActivityComplete, Uneventful, callVars, safeVars, TypeOK
  <2> QED BY <1>5, <2>1, UneventfulSafe, BrokerConstants DEF ActivityComplete, handleVars
<1>6. ASSUME NEW t \in Token, SafeComplete(t) PROVE SafeInv'
  BY <1>6, CompleteSafeSafe DEF SafeComplete
<1>7. ASSUME NEW w \in Waiter, SafeCompleteResumes(w) PROVE SafeInv'
  BY <1>7, CompleteSafeSafe, UneventfulSafe DEF SafeCompleteResumes, Uneventful, handleVars,
     callVars, activityVars, safeVars
<1>8. ASSUME NEW w \in Waiter, NEW t \in Token,
             \/ SafeCompleteBeforeSent(w, t)
             \/ \E a \in Activity : ClaimBeforeSent(w, t, a)
      PROVE  SafeInv'
  BY <1>8, UneventfulSafe DEF SafeCompleteBeforeSent, ClaimBeforeSent, BlockAt, Uneventful,
     handleVars, callVars, activityVars, safeVars
<1> QED BY <1>1, <1>2, <1>3, <1>4, <1>5, <1>6, <1>7, <1>8 DEF McpStep

\* Timers, expiry, revocations and the admission of owners: a turn that runs has no deadline
\* that could pass.
LEMMA RuntimeSafe ==
  ASSUME TypeOK, CallInv, SafeInv, RuntimeStep \/ AdmissionStep PROVE SafeInv'
<1>1. ASSUME NEW t \in Token, BatchTimerFires(t) PROVE SafeInv'
  BY <1>1, UneventfulSafe DEF BatchTimerFires, Uneventful, handleVars, activityVars, safeVars
<1>2. ASSUME NEW t \in Token, DeadlinePasses(t) PROVE SafeInv'
  <2>1. /\ UNCHANGED <<issued, channels, activities, invocations, safe, launcherSent,
                       connectorStarted>>
        /\ t \in channels /\ deadline[t] = "ahead"
        /\ \A u \in Token \ {t} : deadline'[u] = deadline[u]
    BY <1>2 DEF DeadlinePasses, handleVars, callVars, activityVars, safeVars, TypeOK
  <2> QED BY <2>1, BrokerConstants DEF SafeInv, SafeTurnAuthorized
<1>3. ASSUME NEW accepted \in BOOLEAN, SetExternalOwnersAccepted(accepted) PROVE SafeInv'
  BY <1>3, UneventfulSafe DEF SetExternalOwnersAccepted, Uneventful, handleVars, callVars,
     activityVars, safeVars
<1>4. ASSUME NEW trace \in Trace, RevokeTrace(trace) PROVE SafeInv'
  BY <1>4, RevokeAllSafe DEF RevokeTrace
<1>5. CASE Prune \/ RevokeExternalOwners \/ Close
  BY <1>5, RevokeAllSafe DEF Prune, RevokeExternalOwners, Close, Expired
<1> QED BY <1>1, <1>2, <1>3, <1>4, <1>5 DEF RuntimeStep, AdmissionStep

\* No Zero Risk turn, out of any number and with any number of requests, carries a lease or a
\* call before the user's Sent and the connector's start, nor after its completion.
THEOREM SafeTurnsAreAuthorized == Spec => []SafeTurnAuthorized
<1>1. Init => SafeInv
  BY BrokerConstants DEF Init, SafeInv, SafeTurnAuthorized
<1>2. TypeOK /\ CallInv /\ SafeInv /\ [Next]_vars => SafeInv'
  <2>1. ASSUME TypeOK, SafeInv, UNCHANGED vars PROVE SafeInv'
    BY <2>1, UneventfulSafe DEF vars, Uneventful, handleVars, callVars, activityVars, safeVars
  <2> QED BY <2>1, OwnerSafe, McpSafe, RuntimeSafe DEF Next
<1>3. SafeInv => SafeTurnAuthorized
  BY DEF SafeInv
<1> QED BY <1>1, <1>2, <1>3, CallsInvariant, PTL DEF Spec
=============================================================================
