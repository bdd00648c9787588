----------------------------- MODULE WebTurnProofs -----------------------------
(***************************************************************************)
(* Safety of WebTurn for every set of tool calls, every length of answer   *)
(* and any number of page rebinds and client disconnects.                  *)
(***************************************************************************)
EXTENDS WebTurn, SequenceTheorems, FiniteSetTheorems, TLAPS

LEMMA PostFacts ==
  ASSUME NEW T, NEW u \in Seq(T), NEW m \in Seq(T)
  PROVE  /\ u \o m \in Seq(T) /\ Len(u \o m) = Len(u) + Len(m)
         /\ \A i \in 1..Len(u \o m) :
               \/ i <= Len(u) /\ (u \o m)[i] = u[i]
               \/ i - Len(u) \in 1..Len(m) /\ (u \o m)[i] = m[i - Len(u)]
OBVIOUS

LEMMA AppendFacts ==
  ASSUME NEW T, NEW u \in Seq(T), NEW x \in T
  PROVE  /\ u \o <<x>> \in Seq(T) /\ Len(u \o <<x>>) = Len(u) + 1
         /\ \A i \in 1..Len(u) : (u \o <<x>>)[i] = u[i]
         /\ (u \o <<x>>)[Len(u) + 1] = x
OBVIOUS

LEMMA ConcatFacts ==
  ASSUME NEW T, NEW u \in Seq(T), NEW v \in Seq(T)
  PROVE  /\ u \o v \in Seq(T) /\ Len(u \o v) = Len(u) + Len(v)
         /\ \A i \in 1..Len(u) : (u \o v)[i] = u[i]
         /\ \A i \in 1..Len(v) : (u \o v)[Len(u) + i] = v[i]
OBVIOUS

LEMMA PostLast ==
  ASSUME NEW T, NEW u \in Seq(T), NEW v \in Seq(T), NEW x \in T
  PROVE  LET w == u \o v \o <<x>>
         IN /\ w \in Seq(T) /\ Len(w) = Len(u) + Len(v) + 1
            /\ \A i \in 1..Len(u) : w[i] = u[i]
            /\ \A i \in 1..Len(w) : i > Len(u) /\ i < Len(w) =>
                  i - Len(u) \in 1..Len(v) /\ w[i] = v[i - Len(u)]
            /\ w[Len(w)] = x
<1>1. PICK uv \in Seq(T) : uv = u \o v
  BY ConcatFacts
<1>2. PICK w \in Seq(T) : w = uv \o <<x>>
  BY AppendFacts
<1>3. Len(w) = Len(u) + Len(v) + 1 /\ Len(u) \in Nat /\ Len(v) \in Nat /\ Len(uv) = Len(u) + Len(v)
  BY <1>1, <1>2, AppendFacts, ConcatFacts
<1>4. \A i \in 1..Len(u) : w[i] = u[i]
  BY <1>1, <1>2, <1>3, AppendFacts, ConcatFacts
<1>5. ASSUME NEW i \in 1..Len(w), i > Len(u), i < Len(w)
      PROVE i - Len(u) \in 1..Len(v) /\ w[i] = v[i - Len(u)]
  <2>1. i \in 1..Len(uv) /\ i - Len(u) \in 1..Len(v)
    BY <1>3, <1>5
  <2>2. w[i] = uv[i]
    BY <2>1, <1>2, AppendFacts
  <2>3. uv[Len(u) + (i - Len(u))] = v[i - Len(u)]
    BY <2>1, <1>1, ConcatFacts
  <2> QED BY <2>1, <2>2, <2>3, <1>3
<1>6. w[Len(w)] = x
  BY <1>2, <1>3, AppendFacts
<1> QED BY <1>1, <1>2, <1>3, <1>4, <1>5, <1>6

LEMMA ConsumeFacts ==
  ASSUME NEW T, NEW u \in Seq(T), u # <<>>
  PROVE  /\ Tail(u) \in Seq(T) /\ Len(Tail(u)) = Len(u) - 1 /\ u[1] \in T /\ Len(u) \in Nat \ {0}
         /\ \A i \in 1..Len(Tail(u)) : Tail(u)[i] = u[i + 1]
OBVIOUS

LEMMA TextOfPage == ASSUME NEW t \in Seq(Nat) PROVE t \in Text /\ t # NoText
<1>1. t \in Text
  BY DEF Text
<1>2. ASSUME t = NoText PROVE FALSE
  <2>1. Len(t) = 1 /\ t[1] = -1
    BY <1>2 DEF NoText
  <2>2. t[1] \in Nat
    BY <2>1, ElementOfSeq
  <2> QED BY <2>1, <2>2
<1> QED BY <1>1, <1>2

\* What a text that extends another adds to it.
LEMMA MissingText ==
  ASSUME NEW long \in Text, NEW short \in Text, Extends(long, short)
  PROVE  LET rest == SubSeq(long, Len(short) + 1, Len(long))
         IN /\ rest \in Text /\ short \o rest = long
            /\ rest = <<>> => short = long
<1>1. Len(short) <= Len(long) /\ SubSeq(short, 1, Len(short)) = SubSeq(long, 1, Len(short))
  BY DEF Extends, IsPrefix
<1>2. Len(short) \in Nat /\ Len(long) \in Nat
  BY DEF Text
<1>3. SubSeq(short, 1, Len(short)) = short
  BY SubSeqFull DEF Text
<1>4. SubSeq(long, 1, Len(short)) \o SubSeq(long, Len(short) + 1, Len(long)) = SubSeq(long, 1, Len(long))
  <2>1. Len(short) \in 0..Len(long) /\ Len(long) \in Len(short)..Len(long) /\ 1 \in 1..Len(long) + 1
    BY <1>1, <1>2
  <2>2. Len(short) \in 1 - 1..Len(long) /\ long \in Seq(Int)
    BY <2>1 DEF Text
  <2> QED BY <2>1, <2>2, ConcatAdjacentSubSeq
<1>5. SubSeq(long, 1, Len(long)) = long
  BY SubSeqFull DEF Text
<1>6. SubSeq(long, Len(short) + 1, Len(long)) \in Text
  <2>1. \A i \in Len(short) + 1..Len(long) : long[i] \in Int
    BY <1>2 DEF Text
  <2> QED BY <2>1, <1>2, SubSeqProperties DEF Text
<1>7. short \o <<>> = short
  BY ConcatEmptySeq DEF Text
<1> QED BY <1>1, <1>3, <1>4, <1>5, <1>6, <1>7

-----------------------------------------------------------------------------
(* Types *)

LEMMA AuthorityTypes ==
  ASSUME NEW a \in Authority
  PROVE  /\ \A e \in Nat : Rebound(a, e) \in Authority
         /\ \A kind \in {"error", "cancelled"} : Close(a, kind) \in Authority
         /\ SendActivated(a) \in Authority
         /\ Submitted(a) \in Authority
         /\ \A ids \in SUBSET Calls, r \in Nat : ToolBatch(a, ids, r) \in Authority
         /\ \A r \in Rev : BoundaryObserved(a, r) \in Authority
         /\ \A t \in Text, source \in {"none", "wire", "dom"} :
               FinalCandidate(a, t, source) \in Authority
         /\ \A r \in Rev : FenceBegun(a, r) \in Authority
         /\ \A r \in Rev, ok \in BOOLEAN : FenceDecided(a, r, ok) \in Authority
<1>0. NoRev \in Rev /\ NoText \in Text /\ NoCandidate \in [answer : Text, source : {"none", "wire", "dom"}]
  BY DEF NoRev, Rev, NoText, Text, NoCandidate
<1>1. \A e \in Nat : Rebound(a, e) \in Authority
  BY DEF Rebound, Authority
<1>2. \A kind \in {"error", "cancelled"} : Close(a, kind) \in Authority
  BY <1>0 DEF Close, Authority
<1>3. SendActivated(a) \in Authority /\ Submitted(a) \in Authority
  BY DEF SendActivated, Submitted, Authority
<1>4. \A ids \in SUBSET Calls, r \in Nat : ToolBatch(a, ids, r) \in Authority
  <2> SUFFICES ASSUME NEW ids \in SUBSET Calls, NEW r \in Nat PROVE ToolBatch(a, ids, r) \in Authority
    OBVIOUS
  <2> QED BY <1>0 DEF ToolBatch, Authority
<1>5. \A r \in Rev : BoundaryObserved(a, r) \in Authority /\ FenceBegun(a, r) \in Authority
  BY DEF BoundaryObserved, FenceBegun, Authority
<1>6. \A t \in Text, source \in {"none", "wire", "dom"} : FinalCandidate(a, t, source) \in Authority
  <2> SUFFICES ASSUME NEW t \in Text, NEW source \in {"none", "wire", "dom"}
               PROVE  FinalCandidate(a, t, source) \in Authority
    OBVIOUS
  <2> DEFINE new == [answer |-> t, source |-> source]
  <2>1. [a EXCEPT !.candidate = new, !.terminal = [kind |-> "final", answer |-> t]] \in Authority
    BY DEF Authority
  <2>2. [a EXCEPT !.candidate = new, !.fence = NoRev] \in Authority
    BY <1>0 DEF Authority
  <2> QED BY <2>1, <2>2 DEF FinalCandidate
<1>7. \A r \in Rev, ok \in BOOLEAN : FenceDecided(a, r, ok) \in Authority
  <2> SUFFICES ASSUME NEW r \in Rev, NEW ok \in BOOLEAN PROVE FenceDecided(a, r, ok) \in Authority
    OBVIOUS
  <2>1. [a EXCEPT !.candidate = NoCandidate, !.fence = NoRev, !.fenceCommitted = FALSE] \in Authority
    BY <1>0 DEF Authority
  <2>2. [a EXCEPT !.fenceCommitted = TRUE] \in Authority
    BY DEF Authority
  <2>3. [a EXCEPT !.terminal = [kind |-> "final", answer |-> a.candidate.answer]] \in Authority
    BY DEF Authority
  <2> QED BY <2>1, <2>2, <2>3 DEF FenceDecided
<1> QED BY <1>1, <1>2, <1>3, <1>4, <1>5, <1>6, <1>7

LEMMA MessageTypes ==
  /\ \A type \in {"send_activated", "submitted", "browser_rebound", "begin", "result", "error"} :
        Signal(type) \in Message
  /\ \A type \in {"observed", "commit"}, r \in Rev : Numbered(type, r) \in Message
  /\ \A type \in {"text", "result", "error"}, t \in Text, source \in {"none", "wire", "dom"} :
        Msg(type, NoRev, t, source) \in Message
  /\ WebTurnTypeOK =>
        /\ \A t \in Text, source \in {"none", "wire", "dom"} :
              Fact("final_candidate", NoRev, t, source) \in Message
        /\ \A r \in Rev : Fact("tool_boundary_observed", r, NoText, "none") \in Message
<1>0. NoRev \in Rev /\ NoText \in Text
  BY DEF NoRev, Rev, NoText, Text
<1> QED BY <1>0 DEF Signal, Numbered, Msg, Fact, Message, WebTurnTypeOK, Work

LEMMA PublishTypes ==
  ASSUME WebTurnTypeOK, NEW answer \in Text, NEW source \in {"wire", "dom"}, NEW fresh \in BOOLEAN,
         NEW msgs \in Seq(Message), Publish(answer, source, fresh, msgs)
  PROVE  work' \in Work /\ up' \in Seq(Message)
<1> DEFINE missing == SubSeq(answer, Len(work.published) + 1, Len(answer))
           text == IF missing = <<>> THEN <<>> ELSE <<Msg("text", NoRev, missing, source)>>
<1>0. NoRev \in Rev /\ work.published \in Text
  BY DEF NoRev, Rev, WebTurnTypeOK, Work
<1>1. CASE ~Extends(answer, work.published)
  <2>1. work' \in Work
    BY <1>0, <1>1 DEF Publish, WebTurnTypeOK, Work, Place
  <2>2. up' = up \o (msgs \o <<Signal("error")>>)
    BY <1>1 DEF Publish, Post
  <2>3. <<Signal("error")>> \in Seq(Message)
    BY MessageTypes
  <2> QED BY <2>1, <2>2, <2>3, PostFacts DEF WebTurnTypeOK
<1>2. CASE Extends(answer, work.published)
  <2>1. missing \in Text
    BY <1>0, <1>2, MissingText
  <2>2. text \in Seq(Message)
    <3>1. Msg("text", NoRev, missing, source) \in Message
      BY <2>1, MessageTypes
    <3> HIDE DEF missing
    <3> QED BY <3>1
  <2>3. PICK end \in {"result", "error"} :
           /\ work' = [work EXCEPT !.published = answer, !.fence = NoRev, !.fresh = fresh,
                                !.pc = IF end = "result" THEN "finished" ELSE "failed"]
           /\ Post(msgs \o text \o <<Msg(end, NoRev, answer, source)>>)
    BY <1>2 DEF Publish
  <2>4. work' \in Work
    BY <1>0, <2>3 DEF WebTurnTypeOK, Work, Place
  <2>5. <<Msg(end, NoRev, answer, source)>> \in Seq(Message)
    BY MessageTypes
  <2> HIDE DEF text
  <2>6. up' = up \o (msgs \o text \o <<Msg(end, NoRev, answer, source)>>)
    BY <2>3 DEF Post
  <2> QED BY <2>2, <2>4, <2>5, <2>6, PostFacts DEF WebTurnTypeOK
<1> QED BY <1>1, <1>2

\* The batch the broker hands out.
LEMMA NextToolBatchFacts ==
  ASSUME WebTurnTypeOK
  PROVE  /\ NextToolBatch(broker) \in SUBSET Calls /\ Invoked(broker) \in SUBSET Calls
         /\ IsFiniteSet(NextToolBatch(broker)) /\ Cardinality(NextToolBatch(broker)) \in Nat
         /\ Invoked(broker) # {} => NextToolBatch(broker) # {}
<1>1. NextToolBatch(broker) \in SUBSET Calls /\ Invoked(broker) \in SUBSET Calls
  BY DEF NextToolBatch, Invoked
<1>2. IsFiniteSet(NextToolBatch(broker))
  BY <1>1, WebTurnConstants, FS_Subset
<1>3. Invoked(broker) # {} => NextToolBatch(broker) # {}
  BY DEF NextToolBatch, Invoked
<1> QED BY <1>1, <1>2, <1>3, FS_CardinalityType

\* The records with a flag, or the state of the calls, replaced.
CallStates == {"none", "claimed", "queued", "delivered", "answered", "done"}

LEMMA UpdateTypes ==
  ASSUME NEW flag \in BOOLEAN
  PROVE  /\ \A b \in Broker : [b EXCEPT !.live = flag] \in Broker
         /\ \A b \in Broker, st \in [Calls -> CallStates] : [b EXCEPT !.st = st] \in Broker
         /\ \A b \in Broker, r \in Rev : [b EXCEPT !.committed = r] \in Broker
         /\ \A b \in Broker, c \in Calls, x \in CallStates :
               /\ [b.st EXCEPT ![c] = x] \in [Calls -> CallStates]
               /\ [b EXCEPT !.st[c] = x] \in Broker
               /\ [b EXCEPT !.st[c] = x, !.rev = @ + 1] \in Broker
         /\ \A p \in Progress : [p EXCEPT !.retired = flag, !.active = 0] \in Progress
         /\ \A p \in Page : [p EXCEPT !.done = flag] \in Page /\ [p EXCEPT !.sent = flag] \in Page
         /\ \A x \in Session : [x EXCEPT !.aborted = flag] \in Session
         /\ \A x \in Session : [x EXCEPT !.broken = flag, !.aborted = flag] \in Session
<1>1. \A b \in Broker : [b EXCEPT !.live = flag] \in Broker
  BY DEF Broker
<1>2. \A b \in Broker, st \in [Calls -> CallStates] : [b EXCEPT !.st = st] \in Broker
  BY DEF Broker, CallStates
<1>3. /\ \A b \in Broker, r \in Rev : [b EXCEPT !.committed = r] \in Broker
      /\ \A b \in Broker, st \in [Calls -> CallStates], r \in Nat : [b EXCEPT !.st = st, !.rev = r] \in Broker
  BY DEF Broker, CallStates
<1>4. ASSUME NEW b \in Broker, NEW c \in Calls, NEW x \in CallStates
      PROVE  /\ [b.st EXCEPT ![c] = x] \in [Calls -> CallStates]
             /\ [b EXCEPT !.st[c] = x] \in Broker
             /\ [b EXCEPT !.st[c] = x, !.rev = @ + 1] \in Broker
  <2>1. [b.st EXCEPT ![c] = x] \in [Calls -> CallStates]
    BY DEF Broker, CallStates
  <2> DEFINE st == [b.st EXCEPT ![c] = x]
  <2> HIDE DEF st
  <2>2. [b EXCEPT !.st = st] \in Broker /\ [b EXCEPT !.st = st, !.rev = @ + 1] \in Broker
    <3>1. st \in [Calls -> CallStates]
      BY <2>1 DEF st
    <3>2. b.rev + 1 \in Nat
      BY DEF Broker
    <3> QED BY <3>1, <3>2, <1>2, <1>3
  <2> QED BY <2>1, <2>2 DEF st
<1>5. ASSUME NEW p \in Progress PROVE [p EXCEPT !.retired = flag, !.active = 0] \in Progress
  <2>1. 0 \in Int
    OBVIOUS
  <2> QED BY <2>1, Zenon DEF Progress
<1>6. \A p \in Page : [p EXCEPT !.done = flag] \in Page /\ [p EXCEPT !.sent = flag] \in Page
  BY DEF Page
<1>7. \A x \in Session : [x EXCEPT !.aborted = flag] \in Session
  BY DEF Session
<1>8. \A x \in Session : [x EXCEPT !.broken = flag, !.aborted = flag] \in Session
  BY DEF Session
<1> QED BY <1>1, <1>2, <1>3, <1>4, <1>5, <1>6, <1>7, <1>8

LEMMA CancelTypes ==
  ASSUME WebTurnTypeOK, CancelTurn
  PROVE  auth' \in Authority /\ sess' \in Session /\ broker' \in Broker /\ prog' \in Progress
<1>1. auth' \in Authority
  BY AuthorityTypes DEF CancelTurn, WebTurnTypeOK
<1>2. sess' \in Session /\ broker' \in Broker /\ prog' \in Progress
  BY UpdateTypes DEF CancelTurn, Revoked, Retired, WebTurnTypeOK
<1> QED BY <1>1, <1>2

LEMMA FailRoundTypes ==
  ASSUME WebTurnTypeOK, NEW why \in {"tool_batch", "retired", "rejected", "error", "text", "cancelled", "no_fence"},
         FailRound(why), UNCHANGED <<mirror, chat, work, up, reply>>
  PROVE  WebTurnTypeOK'
<1>1. auth' \in Authority /\ sess' \in Session /\ broker' \in Broker /\ prog' \in Progress
  BY CancelTypes DEF FailRound
<1>2. round' \in Serving
  BY DEF FailRound, WebTurnTypeOK, Serving
<1> QED BY <1>1, <1>2 DEF WebTurnTypeOK

LEMMA ChatGPTTypes == ASSUME WebTurnTypeOK, ChatGPT PROVE WebTurnTypeOK'
<1> USE DEF WebTurnTypeOK
<1>1. ASSUME NEW c \in Calls, ChatClaims(c) PROVE WebTurnTypeOK'
  BY <1>1, UpdateTypes DEF ChatClaims, CallStates
<1>2. ASSUME NEW c \in Calls, ChatInvokes(c) PROVE WebTurnTypeOK'
  BY <1>2, UpdateTypes DEF ChatInvokes, CallStates
<1>3. ASSUME NEW c \in Calls, ChatSettles(c) PROVE WebTurnTypeOK'
  BY <1>3, UpdateTypes DEF ChatSettles, CallStates
<1>4. CASE ChatWrites
  <2>1. Append(chat.dom, Len(chat.dom) + 1) \in Seq(Nat)
    BY DEF Page
  <2> QED BY <1>4, <2>1 DEF ChatWrites, Page
<1>5. CASE ChatShowsEnd
  BY <1>5, UpdateTypes DEF ChatShowsEnd
<1>6. CASE ChatResumes
  BY <1>6, UpdateTypes DEF ChatResumes
<1>7. CASE WireConcludes
  <2>1. chat.dom \in Seq(Nat) /\ (chat.dom # <<>> => [chat.dom EXCEPT ![Len(chat.dom)] = 9] \in Seq(Nat))
    <3>1. chat.dom \in Seq(Nat)
      BY DEF Page
    <3>2. chat.dom # <<>> => Len(chat.dom) \in 1..Len(chat.dom)
      BY <3>1
    <3> QED BY <3>1, <3>2, ExceptSeq
  <2>2. chat.dom # <<>>
    BY <1>7, <2>1 DEF WireConcludes, Page
  <2>3. PICK markdown \in {chat.dom, [chat.dom EXCEPT ![Len(chat.dom)] = 9]} :
           chat' = [chat EXCEPT !.wire = "answer", !.answer = markdown]
    BY <1>7 DEF WireConcludes
  <2>4. markdown \in Text
    BY <2>1, <2>2, <2>3, TextOfPage
  <2> QED BY <1>7, <2>3, <2>4 DEF WireConcludes, Page
<1>8. CASE WireIsLost
  <2>1. NoText \in Text
    BY DEF NoText, Text
  <2> QED BY <1>8, <2>1 DEF WireIsLost, Page
<1> QED BY <1>1, <1>2, <1>3, <1>4, <1>5, <1>6, <1>7, <1>8 DEF ChatGPT

\* The answers of the daemon, and the sequences of one or two messages.
LEMMA FrameTypes ==
  /\ NoReply \in Answer
  /\ \A type \in {"send_activated", "begin", "commit"}, r \in Rev, ok \in BOOLEAN :
        Reply(type, r, ok) \in Answer
  /\ NoRev \in Rev /\ NoText \in Text /\ \A n \in Nat : n \in Rev
  /\ <<>> \in Seq(Message)
  /\ \A m \in Message : <<m>> \in Seq(Message)
  /\ \A m, n \in Message : <<m, n>> \in Seq(Message)
BY DEF NoReply, Answer, Reply, NoRev, Rev, NoText, Text

LEMMA WireText == ASSUME WebTurnTypeOK PROVE Wire \in Text
BY FrameTypes DEF Wire, WebTurnTypeOK, Page

LEMMA WorkerTypes == ASSUME WebTurnTypeOK, Worker PROVE WebTurnTypeOK'
<1> USE FrameTypes, MessageTypes, PostFacts
<1>0. /\ \A m \in Seq(Message) : Post(m) => up' \in Seq(Message)
      /\ mirror.batch \in Nat /\ mirror.batch \in Rev /\ work.epoch \in Nat
      /\ chat.dom \in Text /\ Wire \in Text /\ work.fence \in Rev
      /\ reply.rev \in Rev
  <2>1. \A m \in Seq(Message) : Post(m) => up' \in Seq(Message)
    BY DEF Post, WebTurnTypeOK
  <2>2. mirror.batch \in Nat /\ work.epoch \in Nat /\ work.fence \in Rev /\ reply.rev \in Rev
    BY DEF WebTurnTypeOK, Mirror, Work, Answer
  <2>3. chat.dom \in Text
    BY TextOfPage DEF WebTurnTypeOK, Page
  <2> QED BY <2>1, <2>2, <2>3, WireText
<1>1. CASE ActivateSend
  BY <1>1, <1>0 DEF ActivateSend, WebTurnTypeOK, Work, Place
<1>2. CASE PressSend
  BY <1>2, UpdateTypes DEF PressSend, WebTurnTypeOK, Work, Place
<1>3. CASE AcceptSubmission
  BY <1>3, <1>0 DEF AcceptSubmission, WebTurnTypeOK, Work, Place
<1>4. CASE ReceiveProgress
  BY <1>4 DEF ReceiveProgress, WebTurnTypeOK, Mirror, Progress
<1>5. CASE ObserveBoundary
  <2>1. work' \in Work
    BY <1>5, <1>0 DEF ObserveBoundary, WebTurnTypeOK, Work
  <2>2. up' \in Seq(Message)
    BY <1>5, <1>0 DEF ObserveBoundary
  <2> QED BY <1>5, <2>1, <2>2 DEF ObserveBoundary, WebTurnTypeOK
<1>6. CASE PublishDelta
  <2>1. SubSeq(chat.dom, Len(work.published) + 1, Len(chat.dom)) \in Text
    BY <1>6, <1>0, MissingText DEF PublishDelta, WebTurnTypeOK, Work
  <2>2. work' \in Work
    BY <1>6, <1>0 DEF PublishDelta, WebTurnTypeOK, Work
  <2>3. up' \in Seq(Message)
    BY <1>6, <1>0, <2>1 DEF PublishDelta
  <2> QED BY <1>6, <2>2, <2>3 DEF PublishDelta, WebTurnTypeOK
<1>7. CASE OfferWire
  <2>1. work' \in Work
    <3>1. work \in Work /\ Wire \in Text /\ work' = [work EXCEPT !.pc = "wire_begin", !.offer = Wire]
      BY <1>7, <1>0 DEF OfferWire, WebTurnTypeOK
    <3> QED BY <3>1 DEF Work, Place
  <2> DEFINE msgs == <<Fact("final_candidate", NoRev, Wire, "wire"), Signal("begin")>>
  <2>2. msgs \in Seq(Message)
    <3>1. Fact("final_candidate", NoRev, Wire, "wire") \in Message /\ Signal("begin") \in Message
      BY <1>0
    <3> QED BY <3>1
  <2>3. Post(msgs)
    BY <1>7 DEF OfferWire
  <2> HIDE DEF msgs
  <2>4. up' \in Seq(Message)
    BY <1>0, <2>2, <2>3
  <2> QED BY <1>7, <2>1, <2>4 DEF OfferWire, WebTurnTypeOK
<1>8. CASE WireFenceBegun
  <2>1. work' \in Work
    <3>1. \A p \in Place : [work EXCEPT !.pc = p] \in Work
      BY DEF WebTurnTypeOK, Work
    <3>2. work' \in {[work EXCEPT !.pc = "wire_commit"], [work EXCEPT !.pc = "loop"]}
      BY <1>8 DEF WireFenceBegun
    <3> QED BY <3>1, <3>2 DEF Place
  <2>2. up' \in Seq(Message)
    BY <1>8, <1>0 DEF WireFenceBegun, WebTurnTypeOK
  <2> QED BY <1>8, <2>1, <2>2 DEF WireFenceBegun, WebTurnTypeOK
<1>9. CASE WireFenceDecided
  <2>1. work' \in Work /\ up' \in Seq(Message)
    <3>1. CASE ~reply.ok /\ work' = [work EXCEPT !.pc = "loop"] /\ UNCHANGED up
      BY <3>1 DEF WebTurnTypeOK, Work, Place
    <3>2. CASE Publish(work.offer, "wire", TRUE, <<>>)
      <4>1. work.offer \in Text
        BY DEF WebTurnTypeOK, Work
      <4> QED BY <3>2, <4>1, PublishTypes
    <3> QED BY <1>9, <3>1, <3>2 DEF WireFenceDecided
  <2> QED BY <1>9, <2>1 DEF WireFenceDecided, WebTurnTypeOK
<1>10. CASE BeginDomFence
  BY <1>10, <1>0 DEF BeginDomFence, WebTurnTypeOK, Work, Place
<1>11. CASE DomFenceBegun
  BY <1>11, <1>0 DEF DomFenceBegun, WebTurnTypeOK, Work, Place
<1>12. CASE DropDomFence
  BY <1>12 DEF DropDomFence, WebTurnTypeOK, Work
<1>13. CASE CommitDomFence
  <2>1. work' \in Work
    BY <1>13 DEF CommitDomFence, WebTurnTypeOK, Work, Place
  <2>2. up' \in Seq(Message)
    BY <1>13, <1>0 DEF CommitDomFence
  <2> QED BY <1>13, <2>1, <2>2 DEF CommitDomFence, WebTurnTypeOK
<1>14. CASE DomFenceDecided
  <2> DEFINE final == IF Wire # NoText THEN Wire ELSE chat.dom
             source == IF final = chat.dom THEN "dom" ELSE "wire"
             fresh == Len(chat.dom) > chat.after
             msgs == <<Fact("final_candidate", NoRev, final, source)>>
  <2>1. final \in Text /\ source \in {"wire", "dom"} /\ fresh \in BOOLEAN
    BY <1>0
  <2> HIDE DEF final, source, fresh
  <2>2. msgs \in Seq(Message)
    BY <2>1
  <2>3. work' \in Work /\ up' \in Seq(Message)
    <3>1. CASE ~reply.ok /\ work' = [work EXCEPT !.pc = "loop", !.fence = NoRev] /\ UNCHANGED up
      BY <3>1 DEF WebTurnTypeOK, Work, Place
    <3>2. CASE Publish(final, source, fresh, msgs)
      BY <3>2, <2>1, <2>2, PublishTypes
    <3> QED BY <1>14, <3>1, <3>2 DEF DomFenceDecided, final, source, fresh
  <2> QED BY <1>14, <2>3 DEF DomFenceDecided, WebTurnTypeOK
<1>15. CASE ContinueAfterStop
  <2>1. ASSUME NEW flag \in BOOLEAN
        PROVE  /\ [work EXCEPT !.continued = flag, !.tracked = 0, !.base = NoText, !.fence = NoRev] \in Work
               /\ [chat EXCEPT !.dom = <<>>, !.done = flag, !.answer = NoText,
                                  !.wire = IF @ = "off" THEN "off" ELSE "open"] \in Page
    <3>1. [work EXCEPT !.continued = flag, !.tracked = 0, !.base = NoText, !.fence = NoRev] \in Work
      BY DEF WebTurnTypeOK, Work
    <3> DEFINE wire == IF chat.wire = "off" THEN "off" ELSE "open"
    <3>2. wire \in {"off", "open", "answer", "lost"} /\ <<>> \in Seq(Nat)
      OBVIOUS
    <3> HIDE DEF wire
    <3>3. [chat EXCEPT !.dom = <<>>, !.done = flag, !.answer = NoText, !.wire = wire] \in Page
      BY <3>2 DEF WebTurnTypeOK, Page
    <3> QED BY <3>1, <3>3 DEF wire
  <2> QED BY <1>15, <2>1 DEF ContinueAfterStop, WebTurnTypeOK
<1>16. CASE RebindPage
  <2>1. work' \in Work
    BY <1>16 DEF RebindPage, WebTurnTypeOK, Work
  <2>2. [Signal("browser_rebound") EXCEPT !.epoch = work.epoch + 1] \in Message
    BY <1>0 DEF Signal, Msg, Message
  <2>3. up' \in Seq(Message)
    BY <1>16, <1>0, <2>2 DEF RebindPage
  <2> QED BY <1>16, <2>1, <2>3 DEF RebindPage, WebTurnTypeOK
<1>17. CASE WorkerFails
  BY <1>17, <1>0 DEF WorkerFails, WebTurnTypeOK, Work, Place
<1> QED BY <1>1, <1>2, <1>3, <1>4, <1>5, <1>6, <1>7, <1>8, <1>9, <1>10, <1>11, <1>12, <1>13,
           <1>14, <1>15, <1>16, <1>17 DEF Worker

\* The line the daemon reads, and the pipe without it.
LEMMA LineFacts ==
  ASSUME WebTurnTypeOK, up # <<>>
  PROVE  /\ Line \in Message /\ Line.rev \in Rev /\ Line.text \in Text /\ Line.epoch \in Nat
         /\ Line.source \in {"none", "wire", "dom"}
         /\ Tail(up) \in Seq(Message) /\ Len(up) \in Nat \ {0} /\ Len(Tail(up)) = Len(up) - 1
         /\ \A i \in 1..Len(Tail(up)) : i + 1 \in 1..Len(up) /\ Tail(up)[i] = up[i + 1]
<1>1. Line \in Message /\ Tail(up) \in Seq(Message) /\ Len(up) \in Nat \ {0} /\ Len(Tail(up)) = Len(up) - 1
  BY ConsumeFacts DEF Line, WebTurnTypeOK
<1>2. \A i \in 1..Len(Tail(up)) : i + 1 \in 1..Len(up) /\ Tail(up)[i] = up[i + 1]
  BY <1>1, ConsumeFacts DEF WebTurnTypeOK
<1> QED BY <1>1, <1>2 DEF Message

LEMMA BrokenTypes == ASSUME NEW x \in Session PROVE Broken(x) \in Session
BY UpdateTypes DEF Broken

LEMMA MergeTypes ==
  ASSUME WebTurnTypeOK, NEW final \in BOOLEAN, NEW answer \in Text, MergeOutcome(final, answer)
  PROVE  auth' \in Authority /\ sess' \in Session
<1>1. auth' \in Authority
  BY AuthorityTypes DEF MergeOutcome, WebTurnTypeOK
<1>2. sess' \in Session
  <2>1. auth.terminal.answer \in Text
    BY DEF WebTurnTypeOK, Authority
  <2> QED BY <2>1 DEF MergeOutcome, WebTurnTypeOK, Session
<1> QED BY <1>1, <1>2

LEMMA DaemonTypes == ASSUME WebTurnTypeOK, Daemon PROVE WebTurnTypeOK'
<1> USE FrameTypes
<1>0. Consume /\ up # <<>> => up' \in Seq(Message)
  BY LineFacts DEF Consume
<1>1. CASE HandleSendActivated
  BY <1>1, <1>0, AuthorityTypes DEF HandleSendActivated, Arrives, WebTurnTypeOK
<1>2. CASE HandleSubmitted
  BY <1>2, <1>0, AuthorityTypes DEF HandleSubmitted, Arrives, WebTurnTypeOK
<1>3. CASE HandleText
  <2>1. sess.feed \o Line.text \in Text
    BY <1>3, LineFacts DEF HandleText, Arrives, WebTurnTypeOK, Session, Text
  <2>2. [sess EXCEPT !.feed = sess.feed \o Line.text] \in Session
    BY <2>1 DEF WebTurnTypeOK, Session
  <2>3. sess' \in Session
    BY <1>3, <2>2, BrokenTypes DEF HandleText, WebTurnTypeOK
  <2> QED BY <1>3, <1>0, <2>3 DEF HandleText, Arrives, WebTurnTypeOK
<1>4. CASE HandleFact
  <2>1. auth' \in Authority /\ sess' \in Session
    BY <1>4, LineFacts, AuthorityTypes, BrokenTypes DEF HandleFact, WebTurnTypeOK
  <2> QED BY <1>4, <1>0, <2>1 DEF HandleFact, WebTurnTypeOK
<1>5. CASE HandleRebound
  BY <1>5, <1>0, LineFacts, AuthorityTypes DEF HandleRebound, Arrives, WebTurnTypeOK
<1>6. CASE HandleObserved
  <2>1. prog' \in Progress
    BY <1>6, LineFacts DEF HandleObserved, Arrives, WebTurnTypeOK, Progress
  <2>2. sess' \in Session
    BY <1>6, BrokenTypes DEF HandleObserved, WebTurnTypeOK
  <2> QED BY <1>6, <1>0, <2>1, <2>2 DEF HandleObserved, Arrives, WebTurnTypeOK
<1>7. CASE HandleBegin
  <2> DEFINE revision == CASE broker.committed # NoRev -> broker.committed
                           [] broker.committed = NoRev /\ Quiet(broker) -> broker.rev
                           [] OTHER -> NoRev
             refused == ~broker.live \/ (revision # NoRev /\ ~FenceBegunLegal(auth))
  <2>1. revision \in Rev
    BY DEF WebTurnTypeOK, Broker
  <2> HIDE DEF revision
  <2>2. IF refused
        THEN sess' = Broken(sess) /\ UNCHANGED <<auth, reply>>
        ELSE /\ auth' = IF revision = NoRev THEN auth ELSE FenceBegun(auth, revision)
             /\ reply' = IF sess.aborted THEN reply ELSE Reply("begin", revision, TRUE)
             /\ UNCHANGED sess
    BY <1>7 DEF HandleBegin, revision
  <2>3. sess' \in Session /\ auth' \in Authority /\ reply' \in Answer
    BY <2>1, <2>2, BrokenTypes, AuthorityTypes DEF WebTurnTypeOK
  <2> QED BY <1>7, <1>0, <2>3 DEF HandleBegin, Arrives, WebTurnTypeOK
<1>8. CASE HandleCommit
  <2> DEFINE committed == IF broker.committed # NoRev THEN broker.committed = Line.rev
                          ELSE Quiet(broker) /\ broker.rev = Line.rev
  <2>1. committed \in BOOLEAN /\ Line.rev \in Rev
    BY <1>8, LineFacts DEF HandleCommit, Arrives, Quiet
  <2>2. IF ~broker.live
        THEN sess' = Broken(sess) /\ UNCHANGED <<auth, broker, reply>>
        ELSE /\ broker' = IF committed THEN [broker EXCEPT !.committed = Line.rev] ELSE broker
             /\ auth' = FenceDecided(auth, Line.rev, committed)
             /\ reply' = IF sess.aborted THEN reply ELSE Reply("commit", Line.rev, committed)
             /\ UNCHANGED sess
    BY <1>8 DEF HandleCommit
  <2> HIDE DEF committed
  <2>3. sess' \in Session
    BY <2>2, BrokenTypes DEF WebTurnTypeOK
  <2>4. auth' \in Authority
    BY <2>1, <2>2, AuthorityTypes DEF WebTurnTypeOK
  <2>5. reply' \in Answer
    BY <2>1, <2>2 DEF WebTurnTypeOK
  <2>6. broker' \in Broker
    <3>1. [broker EXCEPT !.committed = Line.rev] \in Broker
      BY <2>1 DEF WebTurnTypeOK, Broker
    <3> QED BY <2>2, <3>1 DEF WebTurnTypeOK
  <2> QED BY <1>8, <1>0, <2>3, <2>4, <2>5, <2>6 DEF HandleCommit, Arrives, WebTurnTypeOK
<1>9. CASE HandleOutcome
  <2> DEFINE final == Line.type = "result" /\ ~sess.broken
  <2>1. final \in BOOLEAN /\ Line.text \in Text /\ MergeOutcome(final, Line.text)
    BY <1>9, LineFacts DEF HandleOutcome
  <2>2. auth' \in Authority /\ sess' \in Session
    BY <2>1, MergeTypes
  <2> QED BY <1>9, <1>0, <2>2 DEF HandleOutcome, WebTurnTypeOK
<1> QED BY <1>1, <1>2, <1>3, <1>4, <1>5, <1>6, <1>7, <1>8, <1>9 DEF Daemon

LEMMA RoundTypes == ASSUME WebTurnTypeOK, Round PROVE WebTurnTypeOK'
<1>1. CASE TakeBatch
  <2> DEFINE ids == NextToolBatch(broker)
             revision == prog.rev + 1
             proven == IF auth.submission = "send_activated" THEN Submitted(auth) ELSE auth
  <2>1. CASE ~ToolBatchLegal(proven, ids, revision)
    <3>1. FailRound("tool_batch") /\ UNCHANGED <<mirror, chat, work, up, reply>>
      BY <1>1, <2>1 DEF TakeBatch
    <3> QED BY <3>1, FailRoundTypes
  <2>2. CASE ToolBatchLegal(proven, ids, revision)
    <3>1. ids \in SUBSET Calls /\ revision \in Nat /\ Cardinality(ids) \in Nat /\ proven \in Authority
      BY NextToolBatchFacts, AuthorityTypes DEF WebTurnTypeOK, Progress
    <3> HIDE DEF ids, revision, proven
    <3>2. /\ broker' = [broker EXCEPT !.st = [c \in Calls |-> IF c \in ids THEN "delivered" ELSE @[c]]]
          /\ prog' = [prog EXCEPT !.rev = revision, !.batch = revision, !.active = @ + Cardinality(ids)]
          /\ auth' = ToolBatch(proven, ids, revision)
          /\ round' = [round EXCEPT !.pc = "boundary", !.batch = ids, !.rev = revision]
          /\ UNCHANGED <<sess, mirror, chat, work, up, reply>>
      BY <1>1, <2>2 DEF TakeBatch, ids, revision, proven
    <3>3. broker' \in Broker
      <4> DEFINE st == [c \in Calls |-> IF c \in ids THEN "delivered" ELSE broker.st[c]]
      <4>1. st \in [Calls -> CallStates]
        BY DEF WebTurnTypeOK, Broker, CallStates
      <4> HIDE DEF st
      <4>2. [broker EXCEPT !.st = st] \in Broker
        BY <4>1, UpdateTypes DEF WebTurnTypeOK
      <4> QED BY <3>2, <4>2 DEF st
    <3>4. auth' \in Authority
      BY <3>1, <3>2, AuthorityTypes
    <3>5. prog' \in Progress
      <4> DEFINE n == Cardinality(ids)
      <4>1. n \in Nat /\ prog' = [prog EXCEPT !.rev = revision, !.batch = revision, !.active = @ + n]
        BY <3>1, <3>2
      <4> HIDE DEF n
      <4>2. prog.active + n \in Int
        BY <4>1 DEF WebTurnTypeOK, Progress
      <4> QED BY <3>1, <4>1, <4>2 DEF WebTurnTypeOK, Progress
    <3>6. round' \in Serving
      BY <3>1, <3>2 DEF WebTurnTypeOK, Serving
    <3> QED BY <3>2, <3>3, <3>4, <3>5, <3>6 DEF WebTurnTypeOK
  <2> QED BY <2>1, <2>2
<1>2. CASE EmitBatch
  BY <1>2 DEF EmitBatch, WebTurnTypeOK, Session, Serving
<1>3. CASE FailBoundary
  BY <1>3, FailRoundTypes DEF FailBoundary
<1>4. CASE ReturnResults
  <2>1. CASE ~broker.live
    BY <1>4, <2>1, FailRoundTypes DEF ReturnResults
  <2>2. CASE broker.live
    <3> DEFINE st == [c \in Calls |-> IF c \in sess.outstanding THEN "answered" ELSE broker.st[c]]
    <3>1. st \in [Calls -> CallStates]
      BY DEF WebTurnTypeOK, Broker, CallStates
    <3>2. Cardinality(sess.outstanding) \in Nat
      <4>1. sess.outstanding \in SUBSET Calls
        BY DEF WebTurnTypeOK, Session
      <4> QED BY <4>1, WebTurnConstants, FS_Subset, FS_CardinalityType
    <3>3. broker' \in Broker
      <4> HIDE DEF st
      <4>1. [broker EXCEPT !.st = st] \in Broker
        BY <3>1, UpdateTypes DEF WebTurnTypeOK
      <4> QED BY <1>4, <2>2, <4>1 DEF ReturnResults, st
    <3>4. auth' \in Authority
      BY <1>4, <2>2 DEF ReturnResults, WebTurnTypeOK, Authority
    <3>5. prog' \in Progress
      <4> DEFINE n == Cardinality(sess.outstanding)
      <4>1. n \in Nat /\ prog' = [prog EXCEPT !.rev = @ + n, !.active = @ - n]
        BY <1>4, <2>2, <3>2 DEF ReturnResults
      <4> HIDE DEF n
      <4>2. prog.rev + n \in Nat /\ prog.active - n \in Int
        BY <4>1 DEF WebTurnTypeOK, Progress
      <4> QED BY <4>1, <4>2 DEF WebTurnTypeOK, Progress
    <3>6. sess' \in Session /\ round' \in Serving
      BY <1>4, <2>2 DEF ReturnResults, WebTurnTypeOK, Session, Serving
    <3>7. chat' \in Page
      <4>1. Len(chat.dom) \in Nat
        BY DEF WebTurnTypeOK, Page
      <4> QED BY <1>4, <2>2, <4>1 DEF ReturnResults, WebTurnTypeOK, Page
    <3> QED BY <1>4, <3>3, <3>4, <3>5, <3>6, <3>7 DEF ReturnResults, WebTurnTypeOK
  <2> QED BY <2>1, <2>2
<1>5. CASE FinishRound
  <2>1. CASE \E why \in {"rejected", "error", "text", "cancelled", "no_fence"} : FailRound(why)
    BY <1>5, <2>1, FailRoundTypes DEF FinishRound
  <2>2. CASE /\ round' = [round EXCEPT !.pc = "completed", !.batch = {}]
             /\ broker' = Revoked(broker)
             /\ prog' = Retired(prog)
             /\ UNCHANGED <<auth, sess>>
    <3>1. broker' \in Broker /\ prog' \in Progress
      BY <2>2, UpdateTypes DEF Revoked, Retired, WebTurnTypeOK
    <3>2. round' \in Serving
      BY <2>2 DEF WebTurnTypeOK, Serving
    <3> QED BY <1>5, <2>2, <3>1, <3>2 DEF FinishRound, WebTurnTypeOK
  <2>3. FinishRound => \/ \E why \in {"rejected", "error", "text", "cancelled", "no_fence"} : FailRound(why)
                       \/ /\ round' = [round EXCEPT !.pc = "completed", !.batch = {}]
                          /\ broker' = Revoked(broker)
                          /\ prog' = Retired(prog)
                          /\ UNCHANGED <<auth, sess>>
    BY DEF FinishRound
  <2> QED BY <1>5, <2>1, <2>2, <2>3
<1>6. CASE Disconnect
  <2>1. round' \in Serving
    <3> DEFINE drops == round.drops + 1
    <3>1. drops \in Nat /\ {} \in SUBSET Calls
      BY DEF WebTurnTypeOK, Serving
    <3>2. round' = [round EXCEPT !.pc = "off", !.batch = {}, !.drops = drops]
      BY <1>6 DEF Disconnect
    <3> HIDE DEF drops
    <3> QED BY <3>1, <3>2 DEF WebTurnTypeOK, Serving
  <2> QED BY <1>6, <2>1 DEF Disconnect, WebTurnTypeOK
<1>7. CASE Reconnect
  <2>1. sess.outstanding \in SUBSET Calls
    BY DEF WebTurnTypeOK, Session
  <2> DEFINE pc == CASE sess.outcome \in {"final", "error"} -> "settled"
                     [] sess.outcome \in {"pending", "rejected"} ->
                          IF sess.outstanding # {} THEN "emitted" ELSE "armed"
  <2>2. pc \in {"settled", "emitted", "armed"}
    BY DEF WebTurnTypeOK, Session
  <2>3. round' = [round EXCEPT !.batch = sess.outstanding, !.pc = pc]
    BY <1>7 DEF Reconnect
  <2> HIDE DEF pc
  <2>4. round' \in Serving
    BY <2>1, <2>2, <2>3 DEF WebTurnTypeOK, Serving
  <2> QED BY <1>7, <2>4 DEF Reconnect, WebTurnTypeOK
<1> QED BY <1>1, <1>2, <1>3, <1>4, <1>5, <1>6, <1>7 DEF Round

LEMMA TypesInit == Init => WebTurnTypeOK
<1> SUFFICES ASSUME Init PROVE WebTurnTypeOK
  OBVIOUS
<1> USE FrameTypes DEF Init
<1>1. auth \in Authority
  BY DEF InitialAuthority, Authority, NoCandidate, Open
<1>2. prog \in Progress /\ mirror \in Mirror /\ reply \in Answer /\ up \in Seq(Message)
  BY DEF Progress, Mirror, Rev
<1>3. broker \in Broker
  BY DEF Broker
<1>4. chat \in Page
  <2>1. ASSUME NEW flag \in BOOLEAN, NEW w \in {"off", "open"}
        PROVE  [sent |-> flag, dom |-> <<>>, done |-> flag, wire |-> w, answer |-> NoText,
                after |-> 0] \in Page
    BY DEF Page
  <2> QED BY <2>1
<1>5. work \in Work
  BY DEF Work, Place, Text
<1>6. sess \in Session /\ round \in Serving
  BY DEF Session, Serving, Text
<1> QED BY <1>1, <1>2, <1>3, <1>4, <1>5, <1>6 DEF WebTurnTypeOK

LEMMA TypesNext == WebTurnTypeOK /\ [Next]_vars => WebTurnTypeOK'
<1> SUFFICES ASSUME WebTurnTypeOK, [Next]_vars PROVE WebTurnTypeOK'
  OBVIOUS
<1>1. CASE CapabilityRetires
  <2>1. broker' \in Broker /\ prog' \in Progress
    BY <1>1, UpdateTypes DEF CapabilityRetires, Revoked, Retired, WebTurnTypeOK
  <2>2. sess' \in Session
    <3> DEFINE flag == sess.aborted \/ sess.outcome = "pending"
    <3>1. flag \in BOOLEAN
      BY DEF WebTurnTypeOK, Session
    <3> HIDE DEF flag
    <3>2. [sess EXCEPT !.aborted = flag] \in Session
      BY <3>1, UpdateTypes DEF WebTurnTypeOK
    <3> QED BY <1>1, <3>2 DEF CapabilityRetires, flag
  <2> QED BY <1>1, <2>1, <2>2 DEF CapabilityRetires, WebTurnTypeOK
<1>2. CASE NativeCancels
  BY <1>2, CancelTypes DEF NativeCancels, WebTurnTypeOK
<1>3. CASE UNCHANGED vars
  BY <1>3 DEF vars, WebTurnTypeOK
<1> QED BY <1>1, <1>2, <1>3, ChatGPTTypes, WorkerTypes, DaemonTypes, RoundTypes DEF Next, Over

-----------------------------------------------------------------------------
(* The fence is committed over a quiet broker, and the batch that a round     *)
(* holds stays delivered until its results come.                             *)

\* Any event of the reducer but the grant of a fence.
Moved(a, b) ==
    \/ b = a \/ b = SendActivated(a) \/ b = Submitted(a)
    \/ \E e \in Nat : b = Rebound(a, e)
    \/ \E kind \in {"error", "cancelled"} : b = Close(a, kind)
    \/ \E r \in Rev : b = BoundaryObserved(a, r) \/ b = FenceBegun(a, r) \/ b = FenceDecided(a, r, FALSE)
    \/ \E t \in Text, source \in {"none", "wire", "dom"} : b = FinalCandidate(a, t, source)

Decided(a) == a.fenceCommitted \/ a.terminal.kind = "final"

LEMMA MovedDecides ==
  ASSUME NEW a \in Authority, NEW b, Moved(a, b), Decided(b)
  PROVE  Decided(a)
<1> USE DEF Decided, Authority
<1>1. CASE b = a \/ b = SendActivated(a) \/ b = Submitted(a)
  BY <1>1 DEF SendActivated, Submitted
<1>2. CASE \E e \in Nat : b = Rebound(a, e)
  BY <1>2 DEF Rebound
<1>3. CASE \E kind \in {"error", "cancelled"} : b = Close(a, kind)
  BY <1>3 DEF Close
<1>4. CASE \E r \in Rev : b = BoundaryObserved(a, r) \/ b = FenceBegun(a, r)
  BY <1>4 DEF BoundaryObserved, FenceBegun
<1>5. CASE \E r \in Rev : b = FenceDecided(a, r, FALSE)
  BY <1>5 DEF FenceDecided
<1>6. CASE \E t \in Text, source \in {"none", "wire", "dom"} : b = FinalCandidate(a, t, source)
  BY <1>6 DEF FinalCandidate
<1> QED BY <1>1, <1>2, <1>3, <1>4, <1>5, <1>6 DEF Moved

\* What the daemon does to the authority when it reads a line, or gives the turn up.
LEMMA DaemonMoves ==
  ASSUME WebTurnTypeOK, Daemon
  PROVE  \/ Moved(auth, auth') /\ UNCHANGED broker
         \/ /\ HandleCommit /\ broker.live /\ broker' = [broker EXCEPT !.committed = Line.rev]
            /\ Line.rev \in Rev /\ auth' = FenceDecided(auth, Line.rev, TRUE)
            /\ IF broker.committed # NoRev THEN broker.committed = Line.rev
               ELSE Quiet(broker) /\ broker.rev = Line.rev
<1> SUFFICES ASSUME ~HandleCommit PROVE Moved(auth, auth') /\ UNCHANGED broker
  <2>1. ASSUME HandleCommit
        PROVE  \/ Moved(auth, auth') /\ UNCHANGED broker
               \/ /\ broker.live /\ broker' = [broker EXCEPT !.committed = Line.rev]
                  /\ Line.rev \in Rev /\ auth' = FenceDecided(auth, Line.rev, TRUE)
                  /\ IF broker.committed # NoRev THEN broker.committed = Line.rev
                     ELSE Quiet(broker) /\ broker.rev = Line.rev
    <3> DEFINE committed == IF broker.committed # NoRev THEN broker.committed = Line.rev
                            ELSE Quiet(broker) /\ broker.rev = Line.rev
    <3>1. Line.rev \in Rev
      BY <2>1, LineFacts DEF HandleCommit, Arrives
    <3>2. CASE broker.live /\ committed
      <4>1. broker' = [broker EXCEPT !.committed = Line.rev] /\ auth' = FenceDecided(auth, Line.rev, committed)
        BY <2>1, <3>2 DEF HandleCommit
      <4>2. committed = TRUE
        BY <3>2 DEF Quiet
      <4> QED BY <3>1, <3>2, <4>1, <4>2
    <3>3. CASE ~(broker.live /\ committed)
      <4>1. ~broker.live \/ committed = FALSE
        BY <3>3 DEF Quiet
      <4>2. UNCHANGED broker /\ (auth' = auth \/ auth' = FenceDecided(auth, Line.rev, FALSE))
        BY <2>1, <4>1 DEF HandleCommit
      <4> QED BY <3>1, <4>2 DEF Moved
    <3> QED BY <3>2, <3>3
  <2> QED BY <2>1
<1>1. UNCHANGED broker
  BY DEF Daemon, HandleSendActivated, HandleSubmitted, HandleText, HandleFact, HandleRebound,
         HandleObserved, HandleBegin, HandleOutcome
<1>2. Moved(auth, auth')
  <2>1. CASE HandleSendActivated \/ HandleSubmitted \/ HandleText \/ HandleObserved
    BY <2>1 DEF HandleSendActivated, HandleSubmitted, HandleText, HandleObserved, Moved
  <2>2. CASE HandleRebound
    BY <2>2, LineFacts DEF HandleRebound, Arrives, Moved
  <2>3. CASE HandleFact
    <3>1. \/ auth' = auth \/ auth' = FinalCandidate(auth, Line.text, Line.source)
          \/ auth' = BoundaryObserved(auth, Line.rev)
      BY <2>3 DEF HandleFact
    <3>2. Line.text \in Text /\ Line.source \in {"none", "wire", "dom"} /\ Line.rev \in Rev
      BY <2>3, LineFacts DEF HandleFact
    <3> QED BY <3>1, <3>2 DEF Moved
  <2>4. CASE HandleBegin
    <3>1. broker.committed \in Rev /\ broker.rev \in Rev
      BY DEF WebTurnTypeOK, Broker, Rev
    <3>2. \E r \in Rev : auth' = auth \/ auth' = FenceBegun(auth, r)
      BY <2>4, <3>1 DEF HandleBegin
    <3> QED BY <3>2 DEF Moved
  <2>5. CASE HandleOutcome
    <3>1. \/ auth' = auth \/ auth' = FinalCandidate(auth, Line.text, "dom")
          \/ auth' = Close(auth, "error")
      BY <2>5 DEF HandleOutcome, MergeOutcome
    <3>2. Line.text \in Text
      BY <2>5, LineFacts DEF HandleOutcome
    <3> QED BY <3>1, <3>2 DEF Moved
  <2> QED BY <2>1, <2>2, <2>3, <2>4, <2>5 DEF Daemon
<1> QED BY <1>1, <1>2

QuietInv == WebTurnTypeOK /\ BatchHeld /\ FenceCommits

\* A step that leaves the calls, the fence and the batch of the round alone.
LEMMA QuietSame ==
  ASSUME QuietInv, broker'.st = broker.st, broker'.committed = broker.committed,
         Decided(auth') => Decided(auth)
  PROVE  /\ FenceCommits'
         /\ sess'.outstanding = sess.outstanding /\ UNCHANGED round => BatchHeld'
<1>1. Quiet(broker') <=> Quiet(broker)
  BY DEF Quiet
<1> QED BY <1>1 DEF QuietInv, FenceCommits, BatchHeld, Decided, Quiet

LEMMA CancelIsQuiet ==
  ASSUME QuietInv, CancelTurn
  PROVE  /\ broker'.st = broker.st /\ broker'.committed = broker.committed
         /\ sess'.outstanding = sess.outstanding /\ (Decided(auth') => Decided(auth))
<1>1. Decided(auth') => Decided(auth)
  BY MovedDecides DEF CancelTurn, QuietInv, WebTurnTypeOK, Moved
<1> QED BY <1>1 DEF CancelTurn, Revoked, QuietInv, WebTurnTypeOK, Broker, Session

LEMMA FailIsQuiet ==
  ASSUME QuietInv, NEW why, FailRound(why)
  PROVE  BatchHeld' /\ FenceCommits'
<1>1. /\ broker'.st = broker.st /\ broker'.committed = broker.committed
      /\ sess'.outstanding = sess.outstanding /\ (Decided(auth') => Decided(auth))
  BY CancelIsQuiet DEF FailRound
<1>2. round'.pc = "failed" /\ round'.batch = {}
  BY DEF FailRound, QuietInv, WebTurnTypeOK, Serving
<1> QED BY <1>1, <1>2, QuietSame DEF QuietInv, BatchHeld

LEMMA ChatGPTIsQuiet == ASSUME QuietInv, ChatGPT PROVE BatchHeld' /\ FenceCommits'
<1>1. ASSUME NEW c \in Calls, NEW x \in {"claimed", "queued", "done"},
             broker.st[c] \in {"none", "claimed", "answered"},
             broker.committed = NoRev \/ broker.st[c] # "none",
             broker'.st = [broker.st EXCEPT ![c] = x], broker'.committed = broker.committed,
             UNCHANGED <<auth, sess, round>>
      PROVE  BatchHeld' /\ FenceCommits'
  <2>1. \A q \in Calls : broker.st[q] = "delivered" => broker'.st[q] = "delivered"
    BY <1>1 DEF QuietInv, WebTurnTypeOK, Broker
  <2>2. broker.committed = NoRev
    BY <1>1 DEF QuietInv, FenceCommits, Quiet
  <2> QED BY <1>1, <2>1, <2>2 DEF QuietInv, BatchHeld, FenceCommits
<1>2. ASSUME NEW c \in Calls, ChatClaims(c) PROVE BatchHeld' /\ FenceCommits'
  <2>1. broker'.st = [broker.st EXCEPT ![c] = "claimed"] /\ broker'.committed = broker.committed
    BY <1>2 DEF ChatClaims, QuietInv, WebTurnTypeOK, Broker
  <2> QED BY <1>1, <1>2, <2>1 DEF ChatClaims
<1>3. ASSUME NEW c \in Calls, ChatInvokes(c) PROVE BatchHeld' /\ FenceCommits'
  <2>1. broker'.st = [broker.st EXCEPT ![c] = "queued"] /\ broker'.committed = broker.committed
    BY <1>3 DEF ChatInvokes, QuietInv, WebTurnTypeOK, Broker
  <2> QED BY <1>1, <1>3, <2>1 DEF ChatInvokes
<1>4. ASSUME NEW c \in Calls, ChatSettles(c) PROVE BatchHeld' /\ FenceCommits'
  <2>1. broker'.st = [broker.st EXCEPT ![c] = "done"] /\ broker'.committed = broker.committed
    BY <1>4 DEF ChatSettles, QuietInv, WebTurnTypeOK, Broker
  <2> QED BY <1>1, <1>4, <2>1 DEF ChatSettles
<1>5. ASSUME UNCHANGED <<auth, broker, sess, round>> PROVE BatchHeld' /\ FenceCommits'
  BY <1>5, QuietSame
<1> QED BY <1>2, <1>3, <1>4, <1>5
        DEF ChatGPT, ChatWrites, ChatShowsEnd, ChatResumes, WireConcludes, WireIsLost

\* Nothing that the worker does on the page reaches the daemon but through the pipe.
LEMMA WorkerIsApart == Worker => UNCHANGED <<auth, prog, broker, sess, round>>
BY DEF Worker, ActivateSend, PressSend, AcceptSubmission, ReceiveProgress, ObserveBoundary,
       PublishDelta, OfferWire, WireFenceBegun, WireFenceDecided, BeginDomFence, DomFenceBegun,
       DropDomFence, CommitDomFence, DomFenceDecided, ContinueAfterStop, RebindPage, WorkerFails

LEMMA DaemonIsQuiet == ASSUME QuietInv, Daemon PROVE BatchHeld' /\ FenceCommits'
<1>0. UNCHANGED round
  BY DEF Daemon, HandleSendActivated, HandleSubmitted, HandleText, HandleFact, HandleRebound,
         HandleObserved, HandleBegin, HandleCommit, HandleOutcome
<1>1. sess'.outstanding = sess.outstanding
  BY DEF Daemon, HandleSendActivated, HandleSubmitted, HandleText, HandleFact, HandleRebound,
         HandleObserved, HandleBegin, HandleCommit, HandleOutcome, MergeOutcome, Broken,
         QuietInv, WebTurnTypeOK, Session
<1>2. CASE Moved(auth, auth') /\ UNCHANGED broker
  BY <1>0, <1>1, <1>2, MovedDecides, QuietSame DEF QuietInv, WebTurnTypeOK
<1>3. CASE /\ broker' = [broker EXCEPT !.committed = Line.rev] /\ Line.rev \in Rev
           /\ IF broker.committed # NoRev THEN broker.committed = Line.rev
              ELSE Quiet(broker) /\ broker.rev = Line.rev
  <2>1. Quiet(broker) /\ Line.rev # NoRev
    BY <1>3 DEF QuietInv, WebTurnTypeOK, FenceCommits, Broker, NoRev
  <2>2. broker'.st = broker.st /\ broker'.committed = Line.rev
    BY <1>3 DEF QuietInv, WebTurnTypeOK, Broker
  <2>3. Quiet(broker')
    BY <2>1, <2>2 DEF Quiet
  <2> QED BY <1>0, <1>1, <2>1, <2>2, <2>3 DEF QuietInv, FenceCommits, BatchHeld
<1> QED BY <1>2, <1>3, DaemonMoves DEF QuietInv

\* A round takes a batch, or fails.
LEMMA TakeBatchFacts ==
  ASSUME WebTurnTypeOK, TakeBatch
  PROVE  \/ FailRound("tool_batch")
         \/ /\ round.pc = "armed" /\ round'.pc = "boundary" /\ broker.live
            /\ round'.batch # {} /\ round'.batch \subseteq Invoked(broker)
            /\ round'.rev = prog.rev + 1 /\ prog'.batch = prog.rev + 1 /\ prog'.rev = prog.rev + 1
            /\ prog'.observed = prog.observed /\ prog'.retired = prog.retired
            /\ round'.why = round.why
            /\ \A c \in Calls : broker'.st[c] = IF c \in round'.batch THEN "delivered" ELSE broker.st[c]
            /\ broker'.committed = broker.committed /\ broker'.rev = broker.rev
            /\ UNCHANGED sess
            /\ ToolBatchLegal(auth, round'.batch, prog.rev + 1) \/ auth.submission = "send_activated"
            /\ LET proven == IF auth.submission = "send_activated" THEN Submitted(auth) ELSE auth
               IN auth' = ToolBatch(proven, round'.batch, prog.rev + 1)
<1> DEFINE ids == NextToolBatch(broker)
           revision == prog.rev + 1
           proven == IF auth.submission = "send_activated" THEN Submitted(auth) ELSE auth
<1>1. CASE ~ToolBatchLegal(proven, ids, revision)
  BY <1>1 DEF TakeBatch
<1>2. CASE ToolBatchLegal(proven, ids, revision)
  <2>1. ids \in SUBSET Calls /\ ids # {} /\ ids \subseteq Invoked(broker) /\ revision \in Nat
    BY NextToolBatchFacts DEF WebTurnTypeOK, Progress, TakeBatch, NextToolBatch, Invoked
  <2>2. auth.submission # "send_activated" => ToolBatchLegal(auth, ids, revision)
    BY <1>2
  <2> HIDE DEF ids, revision
  <2>3. /\ broker' = [broker EXCEPT !.st = [c \in Calls |-> IF c \in ids THEN "delivered" ELSE @[c]]]
        /\ prog' = [prog EXCEPT !.rev = revision, !.batch = revision, !.active = @ + Cardinality(ids)]
        /\ auth' = ToolBatch(proven, ids, revision)
        /\ round' = [round EXCEPT !.pc = "boundary", !.batch = ids, !.rev = revision]
        /\ UNCHANGED sess /\ round.pc = "armed" /\ broker.live
    BY <1>2 DEF TakeBatch, ids, revision
  <2>4. /\ \A c \in Calls : broker'.st[c] = IF c \in ids THEN "delivered" ELSE broker.st[c]
        /\ broker'.committed = broker.committed /\ broker'.rev = broker.rev
    BY <2>3 DEF WebTurnTypeOK, Broker
  <2>5. /\ prog'.batch = revision /\ prog'.rev = revision /\ prog'.observed = prog.observed
        /\ prog'.retired = prog.retired
    BY <2>3 DEF WebTurnTypeOK, Progress
  <2>6. round'.pc = "boundary" /\ round'.batch = ids /\ round'.rev = revision /\ round'.why = round.why
    BY <2>3 DEF WebTurnTypeOK, Serving
  <2> QED BY <2>1, <2>2, <2>3, <2>4, <2>5, <2>6 DEF revision
<1> QED BY <1>1, <1>2

\* Codex returns the results of the batch, or the round fails.
LEMMA ReturnResultsFacts ==
  ASSUME WebTurnTypeOK, ReturnResults
  PROVE  \/ FailRound("retired") /\ UNCHANGED chat
         \/ /\ round.pc = "emitted" /\ round'.pc = "armed" /\ round'.batch = {}
            /\ round'.rev = round.rev /\ round'.why = round.why
            /\ \A c \in Calls : broker'.st[c] = IF c \in sess.outstanding THEN "answered" ELSE broker.st[c]
            /\ broker'.committed = broker.committed /\ broker'.rev = broker.rev
            /\ sess' = [sess EXCEPT !.outstanding = {}] /\ sess'.outstanding = {}
            /\ prog'.rev >= prog.rev /\ prog'.batch = prog.batch /\ prog'.observed = prog.observed
            /\ prog'.retired = prog.retired
            /\ auth' = [auth EXCEPT !.toolCalls = IF IsTerminal(auth) THEN @ ELSE @ \ sess.outstanding]
            /\ chat' = [chat EXCEPT !.after = Len(chat.dom)]
<1>1. CASE ~broker.live
  BY <1>1 DEF ReturnResults
<1>2. CASE broker.live
  <2>1. /\ broker' = [broker EXCEPT !.st = [c \in Calls |-> IF c \in sess.outstanding THEN "answered" ELSE @[c]]]
        /\ round.pc = "emitted" /\ round' = [round EXCEPT !.pc = "armed", !.batch = {}]
        /\ sess' = [sess EXCEPT !.outstanding = {}]
        /\ prog' = [prog EXCEPT !.rev = @ + Cardinality(sess.outstanding),
                                !.active = @ - Cardinality(sess.outstanding)]
        /\ auth' = [auth EXCEPT !.toolCalls = IF IsTerminal(auth) THEN @ ELSE @ \ sess.outstanding]
        /\ chat' = [chat EXCEPT !.after = Len(chat.dom)]
    BY <1>2 DEF ReturnResults
  <2>2. /\ \A c \in Calls : broker'.st[c] = IF c \in sess.outstanding THEN "answered" ELSE broker.st[c]
        /\ broker'.committed = broker.committed /\ broker'.rev = broker.rev
    BY <2>1 DEF WebTurnTypeOK, Broker
  <2>3. /\ prog'.rev >= prog.rev /\ prog'.batch = prog.batch /\ prog'.observed = prog.observed
        /\ prog'.retired = prog.retired
    <3> DEFINE n == Cardinality(sess.outstanding)
    <3>1. n \in Nat
      <4>1. sess.outstanding \in SUBSET Calls
        BY DEF WebTurnTypeOK, Session
      <4> QED BY <4>1, WebTurnConstants, FS_Subset, FS_CardinalityType
    <3>2. prog' = [prog EXCEPT !.rev = @ + n, !.active = @ - n]
      BY <2>1
    <3> HIDE DEF n
    <3> QED BY <3>1, <3>2 DEF WebTurnTypeOK, Progress
  <2>4. round'.pc = "armed" /\ round'.batch = {} /\ round'.rev = round.rev /\ round'.why = round.why
    BY <2>1 DEF WebTurnTypeOK, Serving
  <2>5. sess'.outstanding = {}
    BY <2>1 DEF WebTurnTypeOK, Session
  <2> QED BY <2>1, <2>2, <2>3, <2>4, <2>5
<1> QED BY <1>1, <1>2

\* The outcome of the browser ends the round.
LEMMA FinishRoundFacts ==
  ASSUME FinishRound
  PROVE  \/ \E why \in {"rejected", "error", "text", "cancelled", "no_fence"} : FailRound(why)
         \/ /\ round' = [round EXCEPT !.pc = "completed", !.batch = {}]
            /\ broker' = Revoked(broker)
            /\ prog' = Retired(prog)
            /\ UNCHANGED <<auth, sess>>
BY DEF FinishRound

LEMMA RoundIsQuiet == ASSUME QuietInv, Round PROVE BatchHeld' /\ FenceCommits'
<1> USE DEF QuietInv
<1>1. CASE TakeBatch
  <2>1. CASE FailRound("tool_batch")
    BY <2>1, FailIsQuiet
  <2>2. CASE ~FailRound("tool_batch")
    <3>1. ~Quiet(broker)
      BY <1>1 DEF TakeBatch, Invoked, Quiet
    <3>2. /\ round.pc = "armed" /\ round'.pc = "boundary" /\ round'.batch # {}
          /\ round'.batch \subseteq Invoked(broker)
          /\ \A c \in Calls : broker'.st[c] = IF c \in round'.batch THEN "delivered" ELSE broker.st[c]
          /\ broker'.committed = broker.committed /\ UNCHANGED sess
      BY <1>1, <2>2, TakeBatchFacts
    <3>3. PICK a \in Authority : auth' = ToolBatch(a, round'.batch, prog.rev + 1) /\ (Decided(a) => Decided(auth))
      <4>1. /\ Submitted(auth) \in Authority /\ Moved(auth, Submitted(auth))
            /\ \/ auth' = ToolBatch(Submitted(auth), round'.batch, prog.rev + 1)
               \/ auth' = ToolBatch(auth, round'.batch, prog.rev + 1)
        BY <1>1, <2>2, TakeBatchFacts, AuthorityTypes DEF WebTurnTypeOK, Moved
      <4> QED BY <4>1, MovedDecides DEF WebTurnTypeOK
    <3>4. Decided(auth') => Decided(auth)
      BY <3>3 DEF ToolBatch, Decided, Authority
    <3> QED BY <3>1, <3>2, <3>4 DEF BatchHeld, FenceCommits, Decided, Invoked
  <2> QED BY <2>1, <2>2
<1>2. CASE EmitBatch
  <2>1. sess'.outstanding = round.batch /\ round'.batch = round.batch /\ round'.pc = "emitted"
    BY <1>2 DEF EmitBatch, WebTurnTypeOK, Session, Serving
  <2> QED BY <1>2, <2>1 DEF EmitBatch, BatchHeld, FenceCommits
<1>3. CASE FailBoundary
  BY <1>3, FailIsQuiet DEF FailBoundary
<1>4. CASE ReturnResults
  <2>1. CASE FailRound("retired")
    BY <2>1, FailIsQuiet
  <2>2. CASE ~FailRound("retired")
    <3>1. /\ round.pc = "emitted" /\ round'.pc = "armed" /\ round'.batch = {} /\ sess'.outstanding = {}
          /\ broker'.committed = broker.committed
          /\ auth' = [auth EXCEPT !.toolCalls = IF IsTerminal(auth) THEN @ ELSE @ \ sess.outstanding]
      BY <1>4, <2>2, ReturnResultsFacts
    <3>2. PICK c \in Calls : c \in sess.outstanding
      BY <3>1 DEF BatchHeld, WebTurnTypeOK, Session
    <3>3. broker.st[c] = "delivered"
      BY <3>2 DEF BatchHeld
    <3>4. ~Quiet(broker)
      BY <3>3 DEF Quiet
    <3>5. auth'.fenceCommitted = auth.fenceCommitted /\ auth'.terminal = auth.terminal
      BY <3>1 DEF WebTurnTypeOK, Authority
    <3> QED BY <3>1, <3>4, <3>5 DEF BatchHeld, FenceCommits
  <2> QED BY <2>1, <2>2
<1>5. CASE FinishRound
  <2>1. CASE \E why \in {"rejected", "error", "text", "cancelled", "no_fence"} : FailRound(why)
    BY <2>1, FailIsQuiet
  <2>2. CASE /\ round' = [round EXCEPT !.pc = "completed", !.batch = {}]
             /\ broker' = Revoked(broker)
             /\ UNCHANGED <<auth, sess>>
    <3>1. broker'.st = broker.st /\ broker'.committed = broker.committed
      BY <2>2 DEF Revoked, WebTurnTypeOK, Broker
    <3>2. round'.pc = "completed" /\ round'.batch = {}
      BY <2>2 DEF WebTurnTypeOK, Serving
    <3> QED BY <2>2, <3>1, <3>2, QuietSame DEF BatchHeld
  <2> QED BY <1>5, <2>1, <2>2, FinishRoundFacts
<1>6. CASE Disconnect
  <2>1. round'.pc = "off" /\ round'.batch = {}
    BY <1>6 DEF Disconnect, WebTurnTypeOK, Serving
  <2> QED BY <1>6, <2>1 DEF Disconnect, BatchHeld, FenceCommits
<1>7. CASE Reconnect
  <2>1. sess.outstanding = {}
    BY <1>7 DEF Reconnect, BatchHeld
  <2>2. round'.pc \in {"settled", "armed"} /\ round'.batch = {}
    BY <1>7, <2>1 DEF Reconnect, WebTurnTypeOK, Serving, Session
  <2> QED BY <1>7, <2>1, <2>2 DEF Reconnect, BatchHeld, FenceCommits
<1> QED BY <1>1, <1>2, <1>3, <1>4, <1>5, <1>6, <1>7 DEF Round

LEMMA QuietNext == QuietInv /\ [Next]_vars => QuietInv'
<1> SUFFICES ASSUME QuietInv, [Next]_vars PROVE BatchHeld' /\ FenceCommits'
  BY TypesNext DEF QuietInv
<1>1. CASE Worker
  BY <1>1, WorkerIsApart, QuietSame
<1>2. CASE CapabilityRetires
  <2>1. /\ broker'.st = broker.st /\ broker'.committed = broker.committed
        /\ sess'.outstanding = sess.outstanding /\ UNCHANGED <<auth, round>>
    BY <1>2 DEF CapabilityRetires, Revoked, QuietInv, WebTurnTypeOK, Broker, Session
  <2> QED BY <2>1, QuietSame
<1>3. CASE NativeCancels
  BY <1>3, CancelIsQuiet, QuietSame DEF NativeCancels
<1>4. CASE UNCHANGED vars
  BY <1>4, QuietSame DEF vars
<1> QED BY <1>1, <1>2, <1>3, <1>4, ChatGPTIsQuiet, DaemonIsQuiet, RoundIsQuiet DEF Next, Over

LEMMA QuietInit == Init => QuietInv
<1> SUFFICES ASSUME Init PROVE BatchHeld /\ FenceCommits
  BY TypesInit DEF QuietInv
<1>1. /\ \A c \in Calls : broker.st[c] = "none"
      /\ sess.outstanding = {} /\ round.batch = {} /\ round.pc = "armed"
      /\ broker.committed = NoRev /\ ~auth.fenceCommitted /\ auth.terminal.kind = "none"
  BY DEF Init, InitialAuthority, Open
<1> QED BY <1>1 DEF BatchHeld, FenceCommits, Quiet

(* Whatever the order in which ChatGPT calls tools, the worker asks for        *)
(* fences and the round hands batches out: once the authority holds a final  *)
(* answer the broker has committed its fence and no tool call is open.       *)
THEOREM FinalAnswersAreQuiet == Spec => []FinalIsQuiet
<1>1. Init => QuietInv
  BY QuietInit
<1>2. QuietInv /\ [Next]_vars => QuietInv'
  BY QuietNext
<1>3. QuietInv => FinalIsQuiet
  BY DEF QuietInv, FenceCommits, FinalIsQuiet
<1> QED BY <1>1, <1>2, <1>3, PTL DEF Spec

-----------------------------------------------------------------------------
(* What the worker posts *)

\* publishAnswer and the end of the turn, as lines on the pipe: the given ones, the text that
\* was missing, the result or the error.
Published(rest, answer, fresh, msgs) ==
    /\ up' = up \o rest /\ Len(rest) \in Nat /\ Len(msgs) < Len(rest)
    /\ \A i \in 1..Len(msgs) : rest[i] = msgs[i]
    /\ \A i \in 1..Len(rest) : i > Len(msgs) /\ i < Len(rest) => rest[i].type = "text"
    /\ work'.epoch = work.epoch /\ work'.tracked = work.tracked /\ work'.base = work.base
    /\ work'.captured = work.captured /\ work'.fence = NoRev
    /\ fresh /\ work.fresh => work'.fresh
    /\ \/ work'.pc = "failed" /\ rest[Len(rest)].type = "error"
       \/ /\ work'.pc = "finished" /\ rest[Len(rest)].type = "result"
          /\ work'.published = answer /\ rest[Len(rest)].text = answer
          /\ \A i \in 1..Len(rest) : i > Len(msgs) /\ i < Len(rest) =>
                i = Len(msgs) + 1 /\ work.published \o rest[i].text = answer
          /\ Len(rest) = Len(msgs) + 1 => work.published = answer

LEMMA PublishFacts ==
  ASSUME WebTurnTypeOK, NEW answer \in Text, NEW source \in {"wire", "dom"}, NEW fresh \in BOOLEAN,
         NEW msgs \in Seq(Message), Publish(answer, source, fresh, msgs)
  PROVE  \E rest \in Seq(Message) : Published(rest, answer, fresh, msgs)
<1> USE DEF Published
<1> DEFINE missing == SubSeq(answer, Len(work.published) + 1, Len(answer))
           text == IF missing = <<>> THEN <<>> ELSE <<Msg("text", NoRev, missing, source)>>
<1>0. NoRev \in Rev /\ work.published \in Text /\ Len(msgs) \in Nat /\ up \in Seq(Message)
  BY FrameTypes DEF WebTurnTypeOK, Work
<1>1. CASE ~Extends(answer, work.published)
  <2> DEFINE error == Signal("error")
             rest == msgs \o <<>> \o <<error>>
  <2>1. error \in Message /\ error.type = "error"
    BY MessageTypes DEF Signal, Msg
  <2>2. work' = [work EXCEPT !.pc = "failed", !.fence = NoRev] /\ up' = up \o rest
    <3>1. msgs \o <<>> = msgs
      BY ConcatEmptySeq
    <3> QED BY <1>1, <3>1 DEF Publish, Post
  <2> HIDE DEF error
  <2>3. /\ rest \in Seq(Message) /\ Len(rest) = Len(msgs) + 1
        /\ \A i \in 1..Len(msgs) : rest[i] = msgs[i]
        /\ rest[Len(rest)] = error
    <3>1. <<>> \in Seq(Message) /\ Len(<<>>) = 0
      OBVIOUS
    <3> QED BY <1>0, <2>1, <3>1, PostLast
  <2> HIDE DEF rest
  <2>4. /\ work'.epoch = work.epoch /\ work'.tracked = work.tracked /\ work'.base = work.base
        /\ work'.captured = work.captured /\ work'.fence = NoRev
        /\ work'.pc = "failed" /\ (fresh /\ work.fresh => work'.fresh)
    BY <2>2 DEF WebTurnTypeOK, Work
  <2>5. /\ Len(rest) \in Nat /\ Len(msgs) < Len(rest) /\ rest[Len(rest)].type = "error"
        /\ \A i \in 1..Len(rest) : i > Len(msgs) /\ i < Len(rest) => rest[i].type = "text"
    BY <1>0, <2>1, <2>3
  <2> QED BY <2>2, <2>3, <2>4, <2>5
<1>2. CASE Extends(answer, work.published)
  <2>1. missing \in Text /\ work.published \o missing = answer /\ (missing = <<>> => work.published = answer)
    BY <1>0, <1>2, MissingText
  <2>2. /\ text \in Seq(Message) /\ Len(text) \in {0, 1}
        /\ \A i \in 1..Len(text) : text[i].type = "text" /\ text[i].text = missing
        /\ Len(text) = 0 => missing = <<>>
    <3>1. Msg("text", NoRev, missing, source) \in Message
      BY <2>1, MessageTypes
    <3>2. Msg("text", NoRev, missing, source).type = "text" /\ Msg("text", NoRev, missing, source).text = missing
      BY DEF Msg
    <3> HIDE DEF missing
    <3> QED BY <3>1, <3>2
  <2>3. PICK end \in {"result", "error"} :
           /\ work' = [work EXCEPT !.published = answer, !.fence = NoRev, !.fresh = fresh,
                                !.pc = IF end = "result" THEN "finished" ELSE "failed"]
           /\ Post(msgs \o text \o <<Msg(end, NoRev, answer, source)>>)
    BY <1>2 DEF Publish
  <2> DEFINE last == Msg(end, NoRev, answer, source)
             rest == msgs \o text \o <<last>>
  <2>4. last \in Message /\ last.type = end /\ last.text = answer
    <3>1. last \in Message
      BY MessageTypes
    <3> QED BY <3>1 DEF Msg
  <2>5. up' = up \o rest
    BY <2>3 DEF Post
  <2>6. /\ work'.epoch = work.epoch /\ work'.tracked = work.tracked /\ work'.base = work.base
        /\ work'.captured = work.captured /\ work'.fence = NoRev
        /\ work'.pc = IF end = "result" THEN "finished" ELSE "failed"
        /\ (fresh /\ work.fresh => work'.fresh) /\ work'.published = answer
    BY <2>3 DEF WebTurnTypeOK, Work
  <2> HIDE DEF last, text, missing
  <2>7. /\ rest \in Seq(Message) /\ Len(rest) = Len(msgs) + Len(text) + 1
        /\ \A i \in 1..Len(msgs) : rest[i] = msgs[i]
        /\ \A i \in 1..Len(rest) : i > Len(msgs) /\ i < Len(rest) =>
              i - Len(msgs) \in 1..Len(text) /\ rest[i] = text[i - Len(msgs)]
        /\ rest[Len(rest)] = last
    <3> HIDE DEF rest
    <3> QED BY <1>0, <2>2, <2>4, PostLast DEF rest
  <2> HIDE DEF rest
  <2>8. \A i \in 1..Len(rest) : i > Len(msgs) /\ i < Len(rest) =>
           /\ rest[i].type = "text" /\ i = Len(msgs) + 1
           /\ work.published \o rest[i].text = answer
    <3> SUFFICES ASSUME NEW i \in 1..Len(rest), i > Len(msgs), i < Len(rest)
                 PROVE  rest[i].type = "text" /\ i = Len(msgs) + 1 /\ rest[i].text = missing
      BY <2>1
    <3> DEFINE k == i - Len(msgs)
    <3>1. k \in 1..Len(text) /\ rest[i] = text[k]
      BY <2>7
    <3>2. text[k].type = "text" /\ text[k].text = missing /\ k = 1
      BY <2>2, <3>1
    <3> QED BY <1>0, <3>1, <3>2
  <2>9. Len(rest) = Len(msgs) + 1 => work.published = answer
    BY <1>0, <2>1, <2>2, <2>7
  <2>10. Len(rest) \in Nat /\ Len(msgs) < Len(rest)
    BY <1>0, <2>2, <2>7
  <2>11. CASE end = "result"
    BY <2>4, <2>5, <2>6, <2>7, <2>8, <2>9, <2>10, <2>11
  <2>12. CASE end = "error"
    BY <2>4, <2>5, <2>6, <2>7, <2>8, <2>9, <2>10, <2>12
  <2> QED BY <2>11, <2>12
<1> QED BY <1>1, <1>2

LEMMA KindsOfLines ==
  /\ \A type : Signal(type).type = type
  /\ \A type, r : Numbered(type, r).type = type /\ Numbered(type, r).rev = r
  /\ \A type, r, t, source : Msg(type, r, t, source).type = type /\ Msg(type, r, t, source).text = t
  /\ \A type, r, t, source :
        Fact(type, r, t, source).type = type /\ Fact(type, r, t, source).rev = r
BY DEF Signal, Numbered, Msg, Fact

\* A step that posts nothing.
LEMMA PostNothing ==
  ASSUME WebTurnTypeOK, UNCHANGED up
  PROVE  \E rest \in Seq(Message) : up' = up \o rest /\ Len(rest) = 0
<1>1. up' = up \o <<>> /\ <<>> \in Seq(Message) /\ Len(<<>>) = 0
  BY ConcatEmptySeq DEF WebTurnTypeOK
<1> QED BY <1>1

-----------------------------------------------------------------------------
(* What the daemon and the helper know of the batches never runs ahead of    *)
(* what the worker has captured.                                             *)

BatchInv == QuietInv /\ BatchesKnown /\ BoundaryBeforeTools

\* A step of the worker that captures nothing but what the helper was told of.
LEMMA CaptureKeeps ==
  ASSUME BatchInv, UNCHANGED <<prog, round>>, WebTurnTypeOK',
         work'.tracked <= work'.captured, work.captured <= work'.captured,
         work'.captured <= mirror'.batch, mirror'.batch <= prog.batch,
         NEW rest \in Seq(Message), up' = up \o rest,
         \A i \in 1..Len(rest) : rest[i].type = "observed" => rest[i].rev <= work'.captured
  PROVE  BatchesKnown' /\ BoundaryBeforeTools'
<1>1. /\ work.captured \in Nat /\ work'.captured \in Nat /\ prog.observed \in Rev /\ round.rev \in Nat
      /\ up \in Seq(Message) /\ prog.batch \in Nat
  BY DEF BatchInv, QuietInv, WebTurnTypeOK, Work, Progress, Serving
<1>2. ASSUME NEW i \in 1..Len(up'), up'[i].type = "observed" PROVE up'[i].rev <= work'.captured
  <2>1. CASE i <= Len(up) /\ up'[i] = up[i]
    <3>1. i \in 1..Len(up) /\ up[i].rev \in Rev
      <4>1. i \in 1..Len(up)
        BY <1>1, <2>1, LenProperties, WebTurnTypeOK' DEF WebTurnTypeOK
      <4>2. up[i] \in Message
        BY <1>1, <4>1, ElementOfSeq
      <4> QED BY <4>1, <4>2 DEF Message
    <3>2. up[i].rev <= work.captured
      BY <1>2, <2>1, <3>1 DEF BatchInv, BatchesKnown
    <3> QED BY <1>1, <2>1, <3>1, <3>2 DEF Rev, NoRev
  <2>2. CASE i - Len(up) \in 1..Len(rest) /\ up'[i] = rest[i - Len(up)]
    BY <1>2, <2>2
  <2>3. \/ i <= Len(up) /\ up'[i] = up[i]
        \/ i - Len(up) \in 1..Len(rest) /\ up'[i] = rest[i - Len(up)]
    BY <1>1, PostFacts
  <2> QED BY <2>1, <2>2, <2>3
<1>3. /\ work.captured <= work'.captured /\ work'.captured <= mirror'.batch /\ mirror'.batch <= prog'.batch
      /\ work'.tracked <= work'.captured
  BY DEF BatchInv
<1> QED BY <1>1, <1>2, <1>3 DEF BatchInv, BatchesKnown, BoundaryBeforeTools, Rev, NoRev

LEMMA WorkerKeepsBatches == ASSUME BatchInv, Worker PROVE BatchesKnown' /\ BoundaryBeforeTools'
<1>0. /\ WebTurnTypeOK /\ WebTurnTypeOK' /\ UNCHANGED <<prog, round>>
      /\ work.captured \in Nat /\ work.tracked \in Nat /\ mirror.batch \in Nat
      /\ work.tracked <= work.captured /\ work.captured <= mirror.batch /\ mirror.batch <= prog.batch
  BY WorkerIsApart, WorkerTypes DEF BatchInv, QuietInv, BatchesKnown, WebTurnTypeOK, Work, Mirror
\* The captured batch does not move, and nothing is acknowledged.
<1>1. ASSUME work'.tracked = work.tracked, work'.captured = work.captured, UNCHANGED mirror,
             NEW rest \in Seq(Message), up' = up \o rest,
             \A i \in 1..Len(rest) : rest[i].type # "observed"
      PROVE  BatchesKnown' /\ BoundaryBeforeTools'
  <2>1. \A i \in 1..Len(rest) : rest[i].type = "observed" => rest[i].rev <= work'.captured
    BY <1>1
  <2>2. /\ work'.tracked <= work'.captured /\ work.captured <= work'.captured
        /\ work'.captured <= mirror'.batch /\ mirror'.batch <= prog.batch
    BY <1>0, <1>1
  <2> QED BY <1>0, <1>1, <2>1, <2>2, CaptureKeeps
<1>2. ASSUME work'.tracked = work.tracked, work'.captured = work.captured, UNCHANGED <<mirror, up>>
      PROVE  BatchesKnown' /\ BoundaryBeforeTools'
  <2>1. PICK rest \in Seq(Message) : up' = up \o rest /\ Len(rest) = 0
    BY <1>0, <1>2, PostNothing
  <2>2. \A i \in 1..Len(rest) : rest[i].type # "observed"
    BY <2>1
  <2> QED BY <1>1, <1>2, <2>1, <2>2
<1>3. ASSUME work'.tracked = work.tracked, work'.captured = work.captured, UNCHANGED mirror,
             NEW m \in Message, Post(<<m>>), m.type # "observed"
      PROVE  BatchesKnown' /\ BoundaryBeforeTools'
  <2> DEFINE rest == <<m>>
  <2>1. rest \in Seq(Message) /\ \A i \in 1..Len(rest) : rest[i].type # "observed"
    BY <1>3
  <2>2. up' = up \o rest
    BY <1>3 DEF Post
  <2> HIDE DEF rest
  <2> QED BY <1>1, <1>3, <2>1, <2>2
<1>4. ASSUME NEW answer \in Text, NEW source \in {"wire", "dom"}, NEW fresh \in BOOLEAN,
             NEW msgs \in Seq(Message), \A i \in 1..Len(msgs) : msgs[i].type # "observed",
             Publish(answer, source, fresh, msgs), UNCHANGED mirror
      PROVE  BatchesKnown' /\ BoundaryBeforeTools'
  <2>0. PICK rest \in Seq(Message) : Published(rest, answer, fresh, msgs)
    BY <1>0, <1>4, PublishFacts
  <2>1. /\ up' = up \o rest /\ Len(rest) \in Nat /\ Len(msgs) < Len(rest)
        /\ \A i \in 1..Len(msgs) : rest[i] = msgs[i]
        /\ \A i \in 1..Len(rest) : i > Len(msgs) /\ i < Len(rest) => rest[i].type = "text"
        /\ work'.tracked = work.tracked /\ work'.captured = work.captured
        /\ rest[Len(rest)].type \in {"error", "result"}
    BY <2>0 DEF Published
  <2>2. \A i \in 1..Len(rest) : rest[i].type # "observed"
    <3> SUFFICES ASSUME NEW i \in 1..Len(rest) PROVE rest[i].type # "observed"
      OBVIOUS
    <3>1. Len(msgs) \in Nat
      OBVIOUS
    <3>2. CASE i <= Len(msgs)
      <4>1. i \in 1..Len(msgs)
        BY <3>1, <3>2
      <4>2. rest[i] = msgs[i] /\ msgs[i].type # "observed"
        BY <1>4, <2>1, <4>1
      <4> QED BY <4>2
    <3>3. CASE i > Len(msgs)
      <4>1. rest[i].type = "text" \/ i = Len(rest)
        BY <2>1, <3>1, <3>3
      <4>2. rest[Len(rest)].type # "observed"
        BY <2>1
      <4> QED BY <4>1, <4>2
    <3> QED BY <3>1, <3>2, <3>3
  <2> QED BY <1>1, <1>4, <2>1, <2>2
<1> USE <1>0, MessageTypes, FrameTypes, KindsOfLines
<1>5. CASE ActivateSend
  <2>1. work'.tracked = work.tracked /\ work'.captured = work.captured
    BY <1>5 DEF ActivateSend, WebTurnTypeOK, Work
  <2> QED BY <1>3, <1>5, <2>1 DEF ActivateSend
<1>6. CASE PressSend
  BY <1>2, <1>6 DEF PressSend, WebTurnTypeOK, Work
<1>7. CASE AcceptSubmission
  <2>1. work'.tracked = work.tracked /\ work'.captured = work.captured
    BY <1>7 DEF AcceptSubmission, WebTurnTypeOK, Work
  <2> QED BY <1>3, <1>7, <2>1 DEF AcceptSubmission
<1>8. CASE ReceiveProgress
  <2>1. mirror'.batch = prog.batch /\ UNCHANGED <<work, up>> /\ prog.batch \in Nat
    BY <1>8 DEF ReceiveProgress, WebTurnTypeOK, Progress
  <2>2. PICK rest \in Seq(Message) : up' = up \o rest /\ Len(rest) = 0
    BY <2>1, PostNothing
  <2>3. \A i \in 1..Len(rest) : rest[i].type = "observed" => rest[i].rev <= work'.captured
    BY <2>2
  <2>4. /\ work'.tracked <= work'.captured /\ work.captured <= work'.captured
        /\ work'.captured <= mirror'.batch /\ mirror'.batch <= prog.batch
    BY <2>1
  <2> QED BY <2>1, <2>2, <2>3, <2>4, CaptureKeeps
<1>9. CASE ObserveBoundary
  <2> DEFINE first == Numbered("observed", mirror.batch)
             second == Fact("tool_boundary_observed", mirror.batch, NoText, "none")
             rest == <<first, second>>
  <2>1. first \in Message /\ first.rev = mirror.batch /\ second \in Message
        /\ second.type = "tool_boundary_observed"
    OBVIOUS
  <2>2. up' = up \o rest
    BY <1>9 DEF ObserveBoundary, Post
  <2> HIDE DEF first, second
  <2>3. rest \in Seq(Message) /\ \A i \in 1..Len(rest) : rest[i] = first \/ rest[i] = second
    BY <2>1
  <2>4. work'.tracked = mirror.batch /\ work'.captured = mirror.batch /\ UNCHANGED mirror
    BY <1>9 DEF ObserveBoundary, WebTurnTypeOK, Work
  <2> HIDE DEF rest
  <2>5. \A i \in 1..Len(rest) : rest[i].type = "observed" => rest[i].rev <= work'.captured
    BY <2>1, <2>3, <2>4
  <2>6. /\ work'.tracked <= work'.captured /\ work.captured <= work'.captured
        /\ work'.captured <= mirror'.batch /\ mirror'.batch <= prog.batch
    BY <2>4
  <2> QED BY <2>2, <2>3, <2>5, <2>6, CaptureKeeps
<1>10. CASE PublishDelta
  <2>1. SubSeq(chat.dom, Len(work.published) + 1, Len(chat.dom)) \in Text
    BY <1>10, MissingText, TextOfPage DEF PublishDelta, WebTurnTypeOK, Work, Page
  <2>2. work'.tracked = work.tracked /\ work'.captured = work.captured
    BY <1>10 DEF PublishDelta, WebTurnTypeOK, Work
  <2> QED BY <1>3, <1>10, <2>1, <2>2 DEF PublishDelta
<1>11. CASE OfferWire
  <2> DEFINE first == Fact("final_candidate", NoRev, Wire, "wire")
             second == Signal("begin")
             rest == <<first, second>>
  <2>1. first \in Message /\ second \in Message /\ first.type = "final_candidate" /\ second.type = "begin"
    BY WireText
  <2>2. up' = up \o rest
    BY <1>11 DEF OfferWire, Post
  <2> HIDE DEF first, second
  <2>3. rest \in Seq(Message) /\ \A i \in 1..Len(rest) : rest[i] = first \/ rest[i] = second
    BY <2>1
  <2>4. work'.tracked = work.tracked /\ work'.captured = work.captured /\ UNCHANGED mirror
    BY <1>11 DEF OfferWire, WebTurnTypeOK, Work
  <2> HIDE DEF rest
  <2> QED BY <1>1, <2>1, <2>2, <2>3, <2>4
<1>12. CASE WireFenceBegun
  <2>1. work'.tracked = work.tracked /\ work'.captured = work.captured /\ UNCHANGED mirror
    BY <1>12 DEF WireFenceBegun, WebTurnTypeOK, Work
  <2>2. UNCHANGED up \/ (reply.rev \in Rev /\ Post(<<Numbered("commit", reply.rev)>>))
    BY <1>12 DEF WireFenceBegun, WebTurnTypeOK, Answer
  <2> QED BY <1>2, <1>3, <2>1, <2>2
<1>13. CASE WireFenceDecided
  <2>1. CASE ~reply.ok /\ work' = [work EXCEPT !.pc = "loop"] /\ UNCHANGED up
    <3>1. work'.tracked = work.tracked /\ work'.captured = work.captured
      BY <2>1 DEF WebTurnTypeOK, Work
    <3> QED BY <1>2, <1>13, <2>1, <3>1 DEF WireFenceDecided
  <2>2. CASE Publish(work.offer, "wire", TRUE, <<>>)
    <3>1. work.offer \in Text
      BY DEF WebTurnTypeOK, Work
    <3> DEFINE msgs == <<>>
    <3>2. msgs \in Seq(Message) /\ Len(msgs) = 0 /\ Publish(work.offer, "wire", TRUE, msgs)
      BY <2>2
    <3> HIDE DEF msgs
    <3>3. \A i \in 1..Len(msgs) : msgs[i].type # "observed"
      BY <3>2
    <3> QED BY <1>4, <1>13, <3>1, <3>2, <3>3 DEF WireFenceDecided
  <2> QED BY <1>13, <2>1, <2>2 DEF WireFenceDecided
<1>14. CASE BeginDomFence
  <2>1. work'.tracked = work.tracked /\ work'.captured = work.captured
    BY <1>14 DEF BeginDomFence, WebTurnTypeOK, Work
  <2> QED BY <1>3, <1>14, <2>1 DEF BeginDomFence
<1>15. CASE DomFenceBegun
  BY <1>2, <1>15 DEF DomFenceBegun, WebTurnTypeOK, Work
<1>16. CASE DropDomFence
  BY <1>2, <1>16 DEF DropDomFence, WebTurnTypeOK, Work
<1>17. CASE CommitDomFence
  <2>1. work'.tracked = work.tracked /\ work'.captured = work.captured /\ work.fence \in Rev
    BY <1>17 DEF CommitDomFence, WebTurnTypeOK, Work
  <2> QED BY <1>3, <1>17, <2>1 DEF CommitDomFence
<1>18. CASE DomFenceDecided
  <2> DEFINE final == IF Wire # NoText THEN Wire ELSE chat.dom
             source == IF final = chat.dom THEN "dom" ELSE "wire"
             fresh == Len(chat.dom) > chat.after
             msgs == <<Fact("final_candidate", NoRev, final, source)>>
  <2>1. final \in Text /\ source \in {"wire", "dom"} /\ fresh \in BOOLEAN
    BY WireText, TextOfPage DEF WebTurnTypeOK, Page
  <2>2. CASE ~reply.ok /\ work' = [work EXCEPT !.pc = "loop", !.fence = NoRev] /\ UNCHANGED up
    <3>1. work'.tracked = work.tracked /\ work'.captured = work.captured
      BY <2>2 DEF WebTurnTypeOK, Work
    <3> QED BY <1>2, <1>18, <2>2, <3>1 DEF DomFenceDecided
  <2>3. CASE Publish(final, source, fresh, msgs)
    <3> HIDE DEF final, source, fresh
    <3>1. msgs \in Seq(Message) /\ \A i \in 1..Len(msgs) : msgs[i].type # "observed"
      <4>1. Fact("final_candidate", NoRev, final, source) \in Message
        BY <2>1
      <4>2. Fact("final_candidate", NoRev, final, source).type = "final_candidate"
        OBVIOUS
      <4> QED BY <4>1, <4>2
    <3> HIDE DEF msgs
    <3> QED BY <1>4, <1>18, <2>1, <2>3, <3>1 DEF DomFenceDecided
  <2> QED BY <1>18, <2>2, <2>3 DEF DomFenceDecided
<1>19. CASE ContinueAfterStop
  <2>1. work'.tracked = 0 /\ work'.captured = work.captured /\ UNCHANGED <<mirror, up>>
    BY <1>19 DEF ContinueAfterStop, WebTurnTypeOK, Work
  <2>2. PICK rest \in Seq(Message) : up' = up \o rest /\ Len(rest) = 0
    BY <2>1, PostNothing
  <2>3. \A i \in 1..Len(rest) : rest[i].type = "observed" => rest[i].rev <= work'.captured
    BY <2>2
  <2>4. /\ work'.tracked <= work'.captured /\ work.captured <= work'.captured
        /\ work'.captured <= mirror'.batch /\ mirror'.batch <= prog.batch
    BY <2>1
  <2> QED BY <2>1, <2>2, <2>3, <2>4, CaptureKeeps
<1>20. CASE RebindPage
  <2> DEFINE m == [Signal("browser_rebound") EXCEPT !.epoch = work.epoch + 1]
  <2>1. m \in Message /\ m.type = "browser_rebound"
    <3>1. work.epoch + 1 \in Nat
      BY DEF WebTurnTypeOK, Work
    <3> QED BY <3>1 DEF Signal, Msg, Message
  <2>2. work'.tracked = work.tracked /\ work'.captured = work.captured
    BY <1>20 DEF RebindPage, WebTurnTypeOK, Work
  <2> HIDE DEF m
  <2>3. Post(<<m>>)
    BY <1>20 DEF RebindPage, m
  <2> QED BY <1>3, <1>20, <2>1, <2>2, <2>3 DEF RebindPage
<1>21. CASE WorkerFails
  <2>1. work'.tracked = work.tracked /\ work'.captured = work.captured
    BY <1>21 DEF WorkerFails, WebTurnTypeOK, Work
  <2> QED BY <1>3, <1>21, <2>1 DEF WorkerFails
<1> QED BY <1>5, <1>6, <1>7, <1>8, <1>9, <1>10, <1>11, <1>12, <1>13, <1>14, <1>15, <1>16, <1>17,
           <1>18, <1>19, <1>20, <1>21 DEF Worker

\* Every step of the daemon takes a line off the pipe, and leaves the helper and the round.
LEMMA DaemonConsumes ==
  ASSUME Daemon
  PROVE  /\ up # <<>> /\ up' = Tail(up) /\ UNCHANGED <<mirror, chat, work, round>>
         /\ UNCHANGED prog \/ (Line.type = "observed" /\ prog' = [prog EXCEPT !.observed = Line.rev])
<1>1. up # <<>> /\ up' = Tail(up)
  BY DEF Daemon, HandleSendActivated, HandleSubmitted, HandleText, HandleFact, HandleRebound,
         HandleObserved, HandleBegin, HandleCommit, HandleOutcome, Arrives, Consume
<1>2. UNCHANGED <<mirror, chat, work, round>>
  BY DEF Daemon, HandleSendActivated, HandleSubmitted, HandleText, HandleFact, HandleRebound,
         HandleObserved, HandleBegin, HandleCommit, HandleOutcome
<1>3. HandleObserved => UNCHANGED prog \/ (Line.type = "observed" /\ prog' = [prog EXCEPT !.observed = Line.rev])
  BY DEF HandleObserved, Arrives, Line
<1>4. ~HandleObserved => UNCHANGED prog
  BY DEF Daemon, HandleSendActivated, HandleSubmitted, HandleText, HandleFact, HandleRebound,
         HandleBegin, HandleCommit, HandleOutcome
<1> QED BY <1>1, <1>2, <1>3, <1>4

LEMMA DaemonKeepsBatches == ASSUME BatchInv, Daemon PROVE BatchesKnown' /\ BoundaryBeforeTools'
<1>0. /\ up # <<>> /\ up' = Tail(up) /\ UNCHANGED <<mirror, work, round>>
      /\ UNCHANGED prog \/ (Line.type = "observed" /\ prog' = [prog EXCEPT !.observed = Line.rev])
  BY DaemonConsumes
<1>1. /\ Len(up) \in Nat \ {0}
      /\ \A i \in 1..Len(Tail(up)) : i + 1 \in 1..Len(up) /\ Tail(up)[i] = up[i + 1]
  BY <1>0, LineFacts DEF BatchInv, QuietInv
<1>2. Line.type = "observed" => Line.rev <= work.captured
  BY <1>1 DEF Line, BatchInv, BatchesKnown
<1>3. /\ prog'.batch = prog.batch /\ prog'.rev = prog.rev
      /\ prog'.observed = prog.observed \/ prog'.observed <= work.captured
  BY <1>0, <1>2 DEF BatchInv, QuietInv, WebTurnTypeOK, Progress
<1>4. \A i \in 1..Len(up') : up'[i].type = "observed" => up'[i].rev <= work.captured
  BY <1>0, <1>1 DEF BatchInv, BatchesKnown
<1> QED BY <1>0, <1>3, <1>4 DEF BatchInv, BatchesKnown, BoundaryBeforeTools

\* A step that captures and acknowledges nothing.
LEMMA BatchesSame ==
  ASSUME BatchInv, UNCHANGED <<mirror, work, up>>, prog'.observed = prog.observed,
         prog.batch <= prog'.batch, prog'.batch <= prog'.rev, prog'.batch \in Nat,
         round'.rev <= prog'.batch,
         round'.pc = "emitted" => round'.rev = round.rev /\ round.pc = "emitted"
  PROVE  BatchesKnown' /\ BoundaryBeforeTools'
<1>1. prog.batch \in Nat /\ mirror.batch \in Nat
  BY DEF BatchInv, QuietInv, WebTurnTypeOK, Progress, Mirror
<1> QED BY <1>1 DEF BatchInv, BatchesKnown, BoundaryBeforeTools

LEMMA RetiredFacts ==
  ASSUME NEW p \in Progress
  PROVE  /\ Retired(p).batch = p.batch /\ Retired(p).rev = p.rev
         /\ Retired(p).observed = p.observed /\ Retired(p).retired
BY DEF Retired, Progress

LEMMA FailKeepsBatches ==
  ASSUME BatchInv, NEW why, FailRound(why), UNCHANGED <<mirror, work, up>>
  PROVE  BatchesKnown' /\ BoundaryBeforeTools'
<1>1. /\ prog'.batch = prog.batch /\ prog'.rev = prog.rev /\ prog'.observed = prog.observed
      /\ round'.rev = round.rev /\ round'.pc = "failed" /\ prog.batch \in Nat
  BY RetiredFacts DEF FailRound, CancelTurn, BatchInv, QuietInv, WebTurnTypeOK, Progress, Serving
<1> QED BY <1>1, BatchesSame DEF BatchInv, BatchesKnown

LEMMA RoundKeepsBatches == ASSUME BatchInv, Round PROVE BatchesKnown' /\ BoundaryBeforeTools'
<1>0. /\ WebTurnTypeOK /\ UNCHANGED <<mirror, work, up>>
      /\ prog.batch \in Nat /\ prog.rev \in Nat /\ prog.observed \in Rev /\ round.rev \in Nat
      /\ prog.batch <= prog.rev /\ round.rev <= prog.batch /\ prog.observed <= work.captured
      /\ work.captured \in Nat
  BY DEF Round, TakeBatch, EmitBatch, FailBoundary, ReturnResults, FinishRound, Disconnect, Reconnect,
         BatchInv, QuietInv, BatchesKnown, WebTurnTypeOK, Progress, Serving, Work
<1>1. CASE TakeBatch
  <2>1. CASE FailRound("tool_batch")
    BY <1>0, <2>1, FailKeepsBatches
  <2>2. CASE ~FailRound("tool_batch")
    BY <1>0, <1>1, <2>2, TakeBatchFacts, BatchesSame
  <2> QED BY <2>1, <2>2
<1>2. CASE EmitBatch
  <2>1. round'.rev = round.rev /\ round.rev <= work.captured /\ UNCHANGED prog
    BY <1>0, <1>2 DEF EmitBatch, WebTurnTypeOK, Serving, Rev, NoRev
  <2> QED BY <1>0, <2>1 DEF BatchInv, BatchesKnown, BoundaryBeforeTools
<1>3. CASE FailBoundary
  BY <1>0, <1>3, FailKeepsBatches DEF FailBoundary
<1>4. CASE ReturnResults
  <2>1. CASE FailRound("retired")
    BY <1>0, <2>1, FailKeepsBatches
  <2>2. CASE ~FailRound("retired")
    <3>1. /\ round'.pc = "armed" /\ round'.rev = round.rev /\ prog'.rev >= prog.rev
          /\ prog'.batch = prog.batch /\ prog'.observed = prog.observed
      BY <1>0, <1>4, <2>2, ReturnResultsFacts
    <3>2. prog'.rev \in Nat
      BY <1>4, <1>0, RoundTypes DEF Round, WebTurnTypeOK, Progress
    <3> QED BY <1>0, <3>1, <3>2, BatchesSame
  <2> QED BY <2>1, <2>2
<1>5. CASE FinishRound
  <2>1. CASE \E why \in {"rejected", "error", "text", "cancelled", "no_fence"} : FailRound(why)
    BY <1>0, <2>1, FailKeepsBatches
  <2>2. CASE /\ round' = [round EXCEPT !.pc = "completed", !.batch = {}]
             /\ prog' = Retired(prog)
    <3>1. round'.pc = "completed" /\ round'.rev = round.rev
      BY <2>2 DEF BatchInv, QuietInv, WebTurnTypeOK, Serving
    <3>2. /\ prog'.batch = prog.batch /\ prog'.rev = prog.rev /\ prog'.observed = prog.observed
      BY <1>0, <2>2, RetiredFacts DEF WebTurnTypeOK
    <3> QED BY <1>0, <3>1, <3>2, BatchesSame
  <2> QED BY <1>5, <2>1, <2>2, FinishRoundFacts
<1>6. CASE Disconnect
  <2>1. round'.pc = "off" /\ round'.rev = round.rev /\ UNCHANGED prog
    BY <1>6 DEF Disconnect, BatchInv, QuietInv, WebTurnTypeOK, Serving
  <2> QED BY <1>0, <2>1, BatchesSame
<1>7. CASE Reconnect
  <2>1. sess.outstanding = {}
    BY <1>7 DEF Reconnect, BatchInv, QuietInv, BatchHeld
  <2>2. round'.pc \in {"settled", "armed"} /\ round'.rev = round.rev /\ UNCHANGED prog
    BY <1>7, <2>1 DEF Reconnect, BatchInv, QuietInv, WebTurnTypeOK, Serving, Session
  <2> QED BY <1>0, <2>2, BatchesSame
<1> QED BY <1>1, <1>2, <1>3, <1>4, <1>5, <1>6, <1>7 DEF Round

LEMMA BatchNext == BatchInv /\ [Next]_vars => BatchInv'
<1> SUFFICES ASSUME BatchInv, [Next]_vars PROVE BatchesKnown' /\ BoundaryBeforeTools'
  BY QuietNext DEF BatchInv
<1>0. prog.batch \in Nat /\ prog.batch <= prog.rev /\ round.rev <= prog.batch /\ prog \in Progress
  BY DEF BatchInv, QuietInv, BatchesKnown, WebTurnTypeOK, Progress
<1>1. CASE ChatGPT
  <2>1. UNCHANGED <<mirror, work, up, prog, round>>
    BY <1>1 DEF ChatGPT, ChatClaims, ChatInvokes, ChatSettles, ChatWrites, ChatShowsEnd, ChatResumes,
                WireConcludes, WireIsLost
  <2> QED BY <1>0, <2>1, BatchesSame
<1>2. CASE CapabilityRetires
  <2>1. UNCHANGED <<mirror, work, up, round>> /\ prog' = Retired(prog)
    BY <1>2 DEF CapabilityRetires
  <2>2. /\ prog'.batch = prog.batch /\ prog'.rev = prog.rev /\ prog'.observed = prog.observed
    BY <1>0, <2>1, RetiredFacts
  <2> QED BY <1>0, <2>1, <2>2, BatchesSame
<1>3. CASE NativeCancels
  <2>1. UNCHANGED <<mirror, work, up, round>> /\ prog' = Retired(prog)
    BY <1>3 DEF NativeCancels, CancelTurn
  <2>2. /\ prog'.batch = prog.batch /\ prog'.rev = prog.rev /\ prog'.observed = prog.observed
    BY <1>0, <2>1, RetiredFacts
  <2> QED BY <1>0, <2>1, <2>2, BatchesSame
<1>4. CASE UNCHANGED vars
  BY <1>0, <1>4, BatchesSame DEF vars
<1> QED BY <1>1, <1>2, <1>3, <1>4, WorkerKeepsBatches, DaemonKeepsBatches, RoundKeepsBatches DEF Next, Over

LEMMA BatchInit == Init => BatchInv
<1> SUFFICES ASSUME Init PROVE BatchesKnown /\ BoundaryBeforeTools
  BY QuietInit DEF BatchInv
<1>1. /\ prog.rev = 0 /\ prog.batch = 0 /\ prog.observed = 0 /\ mirror.batch = 0 /\ work.tracked = 0
      /\ work.captured = 0 /\ round.rev = 0 /\ up = <<>> /\ Len(up) = 0 /\ round.pc = "armed"
  BY DEF Init
<1> QED BY <1>1 DEF BatchesKnown, BoundaryBeforeTools

(* Whatever the pipe delays and however often Codex disconnects: when the     *)
(* round gives Codex a batch to execute, the worker has captured the text of *)
(* the page for it.                                                          *)
THEOREM BoundariesPrecedeTools == Spec => []BoundaryBeforeTools
<1>1. Init => BatchInv
  BY BatchInit
<1>2. BatchInv /\ [Next]_vars => BatchInv'
  BY BatchNext
<1>3. BatchInv => BoundaryBeforeTools
  BY DEF BatchInv
<1> QED BY <1>1, <1>2, <1>3, PTL DEF Spec

-----------------------------------------------------------------------------
(* A page captured for a batch stays as it is until the results come.        *)

PageInv == BatchInv /\ PageWaits

\* A step that leaves the text, the captured text and the last result alone.
LEMMA PageSame ==
  ASSUME PageInv, chat'.dom = chat.dom, chat'.after = chat.after, chat'.done => chat.dom # <<>>,
         work'.base = work.base, work'.captured = work.captured,
         round'.pc \in {"boundary", "emitted"} =>
            \/ round.pc \in {"boundary", "emitted"} /\ round'.rev = round.rev
            \/ ~(work.captured >= round'.rev)
  PROVE  PageWaits'
BY DEF PageInv, PageWaits

\* What most steps of the worker leave of its own state and of the page.
LEMMA WorkerLeavesPage ==
  ASSUME WebTurnTypeOK, Worker, ~ObserveBoundary, ~ContinueAfterStop
  PROVE  /\ work'.base = work.base /\ work'.captured = work.captured /\ work'.tracked = work.tracked
         /\ chat'.dom = chat.dom /\ chat'.after = chat.after /\ chat'.done = chat.done
         /\ chat'.wire = chat.wire /\ chat'.answer = chat.answer
<1> DEFINE Left == /\ work'.base = work.base /\ work'.captured = work.captured
                   /\ work'.tracked = work.tracked
<1>1. ASSUME NEW answer, NEW source, NEW fresh, NEW msgs, Publish(answer, source, fresh, msgs)
      PROVE  Left
  <2>1. work' = [work EXCEPT !.pc = "failed", !.fence = NoRev] => Left
    BY DEF WebTurnTypeOK, Work
  <2>2. ASSUME NEW pc, work' = [work EXCEPT !.published = answer, !.fence = NoRev, !.fresh = fresh, !.pc = pc]
        PROVE  Left
    BY <2>2 DEF WebTurnTypeOK, Work
  <2> QED BY <1>1, <2>1, <2>2 DEF Publish
<1>2. ASSUME WireFenceDecided PROVE Left
  <2>1. work' = [work EXCEPT !.pc = "loop"] => Left
    BY DEF WebTurnTypeOK, Work
  <2> QED BY <1>1, <1>2, <2>1 DEF WireFenceDecided
<1>3. ASSUME DomFenceDecided PROVE Left
  <2>1. work' = [work EXCEPT !.pc = "loop", !.fence = NoRev] => Left
    BY DEF WebTurnTypeOK, Work
  <2> QED BY <1>1, <1>3, <2>1 DEF DomFenceDecided
<1>4. ASSUME ActivateSend \/ PressSend \/ AcceptSubmission \/ ReceiveProgress \/ PublishDelta \/ OfferWire
      PROVE  Left
  BY <1>4 DEF ActivateSend, PressSend, AcceptSubmission, ReceiveProgress, PublishDelta, OfferWire,
              WebTurnTypeOK, Work
<1>5. ASSUME WireFenceBegun \/ BeginDomFence \/ DomFenceBegun \/ DropDomFence \/ CommitDomFence
                \/ RebindPage \/ WorkerFails
      PROVE  Left
  BY <1>5 DEF WireFenceBegun, BeginDomFence, DomFenceBegun, DropDomFence, CommitDomFence, RebindPage,
              WorkerFails, WebTurnTypeOK, Work
<1>6. Left
  BY <1>2, <1>3, <1>4, <1>5 DEF Worker
<1>7. UNCHANGED chat \/ (PressSend /\ chat' = [chat EXCEPT !.sent = TRUE])
  BY DEF Worker, ActivateSend, PressSend, AcceptSubmission, ReceiveProgress, PublishDelta, OfferWire,
         WireFenceBegun, WireFenceDecided, BeginDomFence, DomFenceBegun, DropDomFence, CommitDomFence,
         DomFenceDecided, RebindPage, WorkerFails
<1>8. /\ chat'.dom = chat.dom /\ chat'.after = chat.after /\ chat'.done = chat.done
      /\ chat'.wire = chat.wire /\ chat'.answer = chat.answer
  BY <1>7 DEF WebTurnTypeOK, Page
<1> QED BY <1>6, <1>8

\* A text that grew at its end still extends what it extended.
LEMMA GrownExtends ==
  ASSUME NEW t \in Text, NEW short \in Text, NEW n \in Int, Extends(t, short)
  PROVE  Extends(Append(t, n), short)
<1>1. Len(short) \in Nat /\ Len(t) \in Nat /\ Len(short) <= Len(t)
  BY DEF Extends, IsPrefix, Text
<1>2. SubSeq(Append(t, n), 1, Len(short)) = SubSeq(t, 1, Len(short))
  BY <1>1 DEF Text
<1> QED BY <1>1, <1>2 DEF Extends, IsPrefix, Text

LEMMA ExtendsSelf == ASSUME NEW t \in Text PROVE Extends(t, t)
BY DEF Extends, IsPrefix, Text

LEMMA ShorterText ==
  ASSUME NEW long \in Text, NEW short \in Text, Extends(long, short), long # short
  PROVE  Len(short) < Len(long)
<1>1. Len(short) \in Nat /\ Len(long) \in Nat /\ Len(short) <= Len(long)
  BY DEF Extends, IsPrefix, Text
<1>2. ASSUME Len(short) = Len(long) PROVE FALSE
  <2>1. SubSeq(short, 1, Len(short)) = short /\ SubSeq(long, 1, Len(long)) = long
    BY SubSeqFull DEF Text
  <2> QED BY <1>2, <2>1 DEF Extends, IsPrefix
<1> QED BY <1>1, <1>2

LEMMA PageNext == PageInv /\ [Next]_vars => PageInv'
<1> SUFFICES ASSUME PageInv, [Next]_vars PROVE PageWaits'
  BY BatchNext DEF PageInv
<1>0. /\ WebTurnTypeOK /\ WebTurnTypeOK' /\ BatchInv
      /\ chat.dom \in Text /\ chat.dom # NoText /\ Len(chat.dom) \in Nat /\ work.base \in Text
      /\ (chat.done => chat.dom # <<>>) /\ chat.after \in Nat
      /\ work.captured <= prog.rev /\ work.captured \in Nat /\ prog.rev \in Nat
  <2>1. WebTurnTypeOK /\ WebTurnTypeOK' /\ BatchInv
    BY TypesNext DEF PageInv, BatchInv, QuietInv
  <2>2. chat.dom \in Seq(Nat) /\ chat.after \in Nat /\ work.base \in Text
    BY <2>1 DEF WebTurnTypeOK, Page, Work
  <2>3. /\ work.captured \in Nat /\ prog.rev \in Nat /\ mirror.batch \in Nat /\ prog.batch \in Nat
    BY <2>1 DEF WebTurnTypeOK, Work, Mirror, Progress
  <2>4. work.captured <= prog.rev
    BY <2>1, <2>3 DEF BatchInv, BatchesKnown
  <2> QED BY <2>1, <2>2, <2>3, <2>4, TextOfPage DEF PageInv, PageWaits
<1>1. CASE ChatWrites
  <2>1. /\ chat'.dom = Append(chat.dom, Len(chat.dom) + 1) /\ chat'.after = chat.after
        /\ chat'.done = chat.done /\ UNCHANGED <<work, round>>
    BY <1>1 DEF ChatWrites, WebTurnTypeOK, Page, PageInv, BatchInv, QuietInv
  <2>2. round.pc \notin {"boundary", "emitted"}
    <3>1. \A c \in Calls : broker.st[c] # "delivered"
      BY <1>1 DEF ChatWrites, Invoked
    <3> QED BY <3>1 DEF PageInv, BatchInv, QuietInv, BatchHeld, WebTurnTypeOK, Session, Serving
  <2>3. work.base = NoText \/ Extends(chat'.dom, work.base)
    BY <1>0, <2>1, GrownExtends DEF PageInv, PageWaits
  <2>4. chat'.dom # <<>>
    <3> DEFINE t == Append(chat.dom, Len(chat.dom) + 1)
    <3>1. Len(t) = Len(chat.dom) + 1 /\ chat'.dom = t
      BY <1>0, <2>1 DEF Text
    <3> HIDE DEF t
    <3>2. t # <<>>
      BY <1>0, <3>1
    <3> QED BY <3>1, <3>2
  <2> QED BY <2>1, <2>2, <2>3, <2>4 DEF PageInv, PageWaits
<1>2. CASE ChatShowsEnd \/ ChatResumes \/ WireConcludes \/ WireIsLost
  <2>1. /\ chat'.dom = chat.dom /\ chat'.after = chat.after /\ UNCHANGED <<work, round>>
        /\ chat'.done = chat.done \/ chat'.done = FALSE \/ chat.dom # <<>>
    BY <1>2 DEF ChatShowsEnd, ChatResumes, WireConcludes, WireIsLost, WebTurnTypeOK, Page, PageInv,
                BatchInv, QuietInv
  <2> QED BY <1>0, <2>1, PageSame
<1>3. CASE ObserveBoundary
  <2>1. work'.base = chat.dom /\ UNCHANGED <<chat, round>>
    BY <1>0, <1>3 DEF ObserveBoundary, WebTurnTypeOK, Work
  <2>2. Extends(chat.dom, chat.dom) /\ chat.after <= Len(chat.dom)
    <3>1. Extends(chat.dom, chat.dom)
      BY <1>0, ExtendsSelf
    <3>2. work.base # NoText => Len(work.base) <= Len(chat.dom) /\ chat.after <= Len(work.base)
      BY DEF PageInv, PageWaits, Extends, IsPrefix
    <3>3. work.base = NoText => chat.after <= 0
      BY DEF PageInv, PageWaits
    <3>4. Len(work.base) \in Nat
      BY <1>0 DEF Text
    <3> QED BY <1>0, <3>1, <3>2, <3>3, <3>4
  <2> QED BY <1>0, <2>1, <2>2 DEF PageWaits
<1>4. CASE ContinueAfterStop
  <2>1. /\ work'.base = NoText /\ chat'.dom = <<>> /\ chat.dom = <<>> /\ ~chat'.done
        /\ chat'.after = chat.after
    BY <1>0, <1>4 DEF ContinueAfterStop, WebTurnTypeOK, Work, Page
  <2>2. chat.after <= 0
    <3>1. work.base # NoText => Len(work.base) <= 0 /\ chat.after <= Len(work.base)
      BY <2>1 DEF PageInv, PageWaits, Extends, IsPrefix
    <3>2. Len(work.base) \in Nat
      BY <1>0 DEF Text
    <3> QED BY <1>0, <3>1, <3>2 DEF PageInv, PageWaits
  <2> QED BY <2>1, <2>2 DEF PageWaits
<1>5. CASE Worker /\ ~ObserveBoundary /\ ~ContinueAfterStop
  <2>1. UNCHANGED round
    BY <1>5, WorkerIsApart
  <2> QED BY <1>0, <1>5, <2>1, WorkerLeavesPage, PageSame
<1>6. CASE Daemon
  BY <1>0, <1>6, DaemonConsumes, PageSame
<1>7. CASE ReturnResults /\ ~FailRound("retired")
  <2>1. /\ round.pc = "emitted" /\ round'.pc = "armed" /\ UNCHANGED work
        /\ chat' = [chat EXCEPT !.after = Len(chat.dom)]
    BY <1>0, <1>7, ReturnResultsFacts DEF ReturnResults
  <2>2. /\ chat'.dom = chat.dom /\ chat'.done = chat.done /\ chat'.after = Len(chat.dom)
    BY <1>0, <2>1 DEF WebTurnTypeOK, Page
  <2>3. work.captured >= round.rev
    BY <2>1 DEF PageInv, BatchInv, BoundaryBeforeTools
  <2>4. work.base = chat.dom \/ (work.base = NoText /\ chat.dom = <<>>)
    BY <2>1, <2>3 DEF PageInv, PageWaits
  <2> QED BY <1>0, <2>1, <2>2, <2>4 DEF PageInv, PageWaits
<1>8. CASE Round /\ (ReturnResults => FailRound("retired"))
  <2>1. UNCHANGED work
    BY <1>8 DEF Round, TakeBatch, EmitBatch, FailBoundary, ReturnResults, FinishRound, Disconnect, Reconnect
  <2>2. ASSUME NEW why, FailRound(why) PROVE round'.pc = "failed"
    BY <1>0, <2>2 DEF FailRound, WebTurnTypeOK, Serving
  <2>3. UNCHANGED chat
    <3>1. ReturnResults => UNCHANGED chat
      BY <1>0, <1>8, <2>2, ReturnResultsFacts
    <3>2. ~ReturnResults => UNCHANGED chat
      BY <1>8 DEF Round, TakeBatch, EmitBatch, FailBoundary, FinishRound, Disconnect, Reconnect
    <3> QED BY <3>1, <3>2
  <2>4. CASE TakeBatch
    BY <1>0, <2>1, <2>2, <2>3, <2>4, TakeBatchFacts, PageSame
  <2>5. CASE EmitBatch
    <3>1. round.pc = "boundary" /\ round'.rev = round.rev
      BY <1>0, <2>5 DEF EmitBatch, WebTurnTypeOK, Serving
    <3> QED BY <1>0, <2>1, <2>2, <2>3, <3>1, PageSame
  <2>6. CASE FailBoundary \/ ReturnResults
    BY <1>0, <1>8, <2>1, <2>2, <2>3, <2>6, PageSame DEF FailBoundary
  <2>7. CASE FinishRound
    <3>1. round'.pc \in {"failed", "completed"}
      BY <1>0, <2>2, <2>7, FinishRoundFacts DEF WebTurnTypeOK, Serving
    <3> QED BY <1>0, <2>1, <2>2, <2>3, <3>1, PageSame
  <2>8. CASE Disconnect
    <3>1. round'.pc = "off"
      BY <1>0, <2>8 DEF Disconnect, WebTurnTypeOK, Serving
    <3> QED BY <1>0, <2>1, <2>2, <2>3, <3>1, PageSame
  <2>9. CASE Reconnect
    <3>1. sess.outstanding = {}
      BY <2>9 DEF Reconnect, PageInv, BatchInv, QuietInv, BatchHeld
    <3>2. round'.pc \in {"settled", "armed"}
      BY <1>0, <2>9, <3>1 DEF Reconnect, WebTurnTypeOK, Serving, Session
    <3> QED BY <1>0, <2>1, <2>2, <2>3, <3>2, PageSame
  <2> QED BY <1>8, <2>4, <2>5, <2>6, <2>7, <2>8, <2>9 DEF Round
<1>9. ASSUME UNCHANGED <<chat, work, round>> PROVE PageWaits'
  BY <1>0, <1>9, PageSame
<1>10. CASE ChatGPT
  <2>1. CASE \E c \in Calls : ChatClaims(c) \/ ChatInvokes(c) \/ ChatSettles(c)
    BY <1>9, <2>1 DEF ChatClaims, ChatInvokes, ChatSettles
  <2> QED BY <1>1, <1>2, <1>10, <2>1 DEF ChatGPT
<1>11. CASE CapabilityRetires \/ NativeCancels \/ UNCHANGED vars
  BY <1>9, <1>11 DEF CapabilityRetires, NativeCancels, vars
<1> QED BY <1>3, <1>4, <1>5, <1>6, <1>7, <1>8, <1>10, <1>11 DEF Next, Over

-----------------------------------------------------------------------------
(* What is on the pipe, and where the worker is                               *)

PipeInv == PageInv /\ PipeOrdered

Plain == {"submitted", "text", "tool_boundary_observed", "browser_rebound", "observed"}
AllPlain == \A i \in 1..Len(up) : up[i].type \in Plain

\* While the worker asks for nothing, or has its answer, only plain lines are on their way.
LEMMA PlainPipe ==
  ASSUME PipeInv, Watched, Awaits(work.pc) = "nothing" \/ reply.type # "none"
  PROVE  AllPlain /\ sess.outcome = "pending"
<1> SUFFICES ASSUME NEW i \in 1..Len(up) PROVE up[i].type \in Plain
  BY DEF AllPlain, PipeInv, PipeOrdered, WorkerInPlace, Watched
<1>0. up \in Seq(Message) /\ Len(up) \in Nat /\ up[i] \in Message /\ up[Len(up)] \in Message
  <2>1. up \in Seq(Message)
    BY DEF PipeInv, PageInv, BatchInv, QuietInv, WebTurnTypeOK
  <2> QED BY <2>1, ElementOfSeq
<1>1. \A j \in 1..Len(up) : up[j].type \notin Asking
  BY DEF PipeInv, PipeOrdered, LineInPlace, Watched, Asking
<1>2. up[Len(up)].type # "begin"
  BY <1>0, <1>1 DEF Asking
<1>3. up[i].type \notin {"final_candidate", "result", "error"}
  BY <1>2 DEF PipeInv, PipeOrdered, LineInPlace, Watched
<1> QED BY <1>0, <1>1, <1>3 DEF Message, Plain, Asking

\* What the worker posts is in its place behind plain lines.
InPlace(rest, i) ==
    /\ rest[i].type \in Asking /\ work'.pc # "failed" =>
          i = Len(rest) /\ rest[i].type = Awaits(work'.pc) /\ reply'.type = "none"
    /\ rest[i].type = "final_candidate" /\ work'.pc # "failed" =>
          work'.pc = "finished" \/ (work'.pc = "wire_begin" /\ rest[Len(rest)].type = "begin")
    /\ rest[i].type = "send_activated" =>
          work'.pc = "activating" /\ auth'.submission = "prepared" /\ Len(rest) = 1
    /\ rest[i].type \in {"result", "error"} =>
          /\ i = Len(rest) /\ sess'.outcome = "pending"
          /\ work'.pc = IF rest[i].type = "result" THEN "finished" ELSE "failed"
    /\ rest[i].type = "result" => rest[i].text # <<>> /\ rest[i].text = work'.published
    /\ rest[i].type = "commit" /\ work'.pc = "dom_commit" => rest[i].rev = work'.fence

LEMMA PostInPlace ==
  ASSUME WebTurnTypeOK, AllPlain, NEW rest \in Seq(Message), up' = up \o rest,
         \A i \in 1..Len(rest) : InPlace(rest, i)
  PROVE  \A i \in 1..Len(up') : LineInPlace(i)'
<1> SUFFICES ASSUME NEW i \in 1..Len(up') PROVE LineInPlace(i)'
  OBVIOUS
<1>0. /\ up \in Seq(Message) /\ Len(up) \in Nat /\ Len(rest) \in Nat /\ Len(up') = Len(up) + Len(rest)
      /\ \A j \in 1..Len(up) : up'[j] = up[j]
      /\ \A j \in 1..Len(rest) : up'[Len(up) + j] = rest[j]
  <2>1. up \in Seq(Message)
    BY DEF WebTurnTypeOK
  <2> QED BY <2>1, ConcatFacts
<1>1. CASE i <= Len(up)
  <2>1. up'[i] = up[i] /\ up[i].type \in Plain
    BY <1>0, <1>1 DEF AllPlain
  <2> QED BY <2>1 DEF LineInPlace, Plain, Asking
<1>2. CASE i > Len(up)
  <2> DEFINE k == i - Len(up)
  <2>1. k \in 1..Len(rest) /\ up'[i] = rest[k] /\ (k = Len(rest) <=> i = Len(up'))
    BY <1>0, <1>2
  <2>2. up'[Len(up')] = rest[Len(rest)]
    BY <1>0, <2>1
  <2>3. InPlace(rest, k)
    BY <2>1
  <2> HIDE DEF k
  <2>4. rest[k].type = "send_activated" => \A j \in 1..Len(up') : up'[j].type = "send_activated" => j = i
    <3> SUFFICES ASSUME rest[k].type = "send_activated", NEW j \in 1..Len(up'), up'[j].type = "send_activated"
                 PROVE  j = i
      OBVIOUS
    <3>1. Len(rest) = 1
      BY <2>3 DEF InPlace
    <3>2. ASSUME j <= Len(up) PROVE FALSE
      <4>1. j \in 1..Len(up)
        BY <1>0, <3>2
      <4>2. up'[j] = up[j] /\ up[j].type \in Plain
        BY <1>0, <4>1 DEF AllPlain
      <4> QED BY <4>2 DEF Plain
    <3> QED BY <1>0, <1>2, <3>1, <3>2
  <2>5. up'[i] = rest[k] /\ (i = Len(up') <=> k = Len(rest))
    BY <2>1
  <2> QED BY <2>2, <2>3, <2>4, <2>5 DEF LineInPlace, InPlace
<1> QED BY <1>0, <1>1, <1>2

LEMMA NothingInPlace ==
  ASSUME WebTurnTypeOK, AllPlain, UNCHANGED up
  PROVE  \A i \in 1..Len(up') : LineInPlace(i)'
BY DEF AllPlain, LineInPlace, Plain, Asking

\* One line behind plain ones.
LEMMA OneInPlace ==
  ASSUME WebTurnTypeOK, AllPlain, NEW m \in Message, Post(<<m>>),
         m.type \in Plain \/ (m.type \in Asking /\ m.type = Awaits(work'.pc) /\ reply'.type = "none"),
         m.type = "send_activated" => work'.pc = "activating" /\ auth'.submission = "prepared",
         m.type = "commit" /\ work'.pc = "dom_commit" => m.rev = work'.fence
  PROVE  \A i \in 1..Len(up') : LineInPlace(i)'
<1> DEFINE rest == <<m>>
<1>1. rest \in Seq(Message) /\ Len(rest) = 1 /\ rest[1] = m /\ up' = up \o rest
  BY DEF Post
<1> HIDE DEF rest
<1>2. ASSUME NEW i \in 1..Len(rest) PROVE InPlace(rest, i)
  <2>1. i = 1 /\ rest[i] = m
    BY <1>1
  <2> QED BY <1>1, <2>1 DEF InPlace, Plain, Asking
<1> QED BY <1>1, <1>2, PostInPlace

LEMMA PublishInPlace ==
  ASSUME PipeInv, Worker, Watched, AllPlain, sess.outcome = "pending",
         NEW answer \in Text, answer # <<>>, NEW source \in {"wire", "dom"}, NEW fresh \in BOOLEAN,
         NEW msgs \in Seq(Message), \A i \in 1..Len(msgs) : msgs[i].type = "final_candidate",
         Publish(answer, source, fresh, msgs), reply' = NoReply, UNCHANGED chat
  PROVE  PipeOrdered'
<1>0. WebTurnTypeOK /\ UNCHANGED <<auth, sess>>
  BY WorkerIsApart DEF PipeInv, PageInv, BatchInv, QuietInv
<1>1. PICK rest \in Seq(Message) : Published(rest, answer, fresh, msgs)
  BY <1>0, PublishFacts
<1>2. ASSUME NEW i \in 1..Len(rest) PROVE InPlace(rest, i)
  <2>1. Len(msgs) \in Nat /\ Len(rest) \in Nat
    OBVIOUS
  <2>2. CASE i < Len(rest)
    <3>1. i <= Len(msgs) => rest[i].type = "final_candidate"
      <4>1. i <= Len(msgs) => i \in 1..Len(msgs)
        BY <2>1
      <4> QED BY <1>1, <4>1 DEF Published
    <3>2. rest[i].type \in {"final_candidate", "text"}
      BY <1>1, <2>1, <2>2, <3>1 DEF Published
    <3>3. work'.pc \in {"finished", "failed"}
      BY <1>1 DEF Published
    <3> QED BY <3>2, <3>3 DEF InPlace, Asking
  <2>3. CASE i = Len(rest)
    BY <1>0, <1>1, <2>3 DEF Published, InPlace, Asking
  <2> QED BY <2>1, <2>2, <2>3
<1>3. \A i \in 1..Len(up') : LineInPlace(i)'
  <2>1. up' = up \o rest
    BY <1>1 DEF Published
  <2> QED BY <1>0, <1>2, <2>1, PostInPlace
<1>4. work'.pc \in {"finished", "failed"} /\ work'.fence = NoRev
  BY <1>1 DEF Published
<1> QED BY <1>0, <1>3, <1>4 DEF PipeInv, PipeOrdered, WorkerInPlace, NoReply

\* A worker that waits for nothing has no answer to read.
LEMMA NoReplyPending ==
  ASSUME PipeInv, Watched, Awaits(work.pc) = "nothing"
  PROVE  reply.type = "none"
BY DEF PipeInv, PipeOrdered, WorkerInPlace, Watched, PageInv, BatchInv, QuietInv, WebTurnTypeOK, Answer

LEMMA WorkerPipe == ASSUME PipeInv, Worker, ~WorkerFails PROVE PipeOrdered'
<1>0. /\ WebTurnTypeOK /\ WebTurnTypeOK' /\ UNCHANGED <<auth, sess>>
      /\ (chat.done => chat.dom # <<>>) /\ (chat.wire = "answer" => chat.answer # <<>>)
  BY WorkerTypes, WorkerIsApart DEF PipeInv, PipeOrdered, WorkerInPlace, PageInv, BatchInv, QuietInv, PageWaits
<1>1. CASE ReceiveProgress
  <2>1. UNCHANGED <<auth, chat, work, up, reply, sess>>
    BY <1>1 DEF ReceiveProgress
  <2> QED BY <2>1 DEF PipeInv, PipeOrdered, WorkerInPlace, LineInPlace
<1>2. ASSUME ~ReceiveProgress
      PROVE  Watched /\ (Awaits(work.pc) = "nothing" \/ reply.type # "none")
  BY <1>2 DEF Worker, ActivateSend, PressSend, AcceptSubmission, ObserveBoundary, PublishDelta,
         OfferWire, WireFenceBegun, WireFenceDecided, BeginDomFence, DomFenceBegun, DropDomFence,
         CommitDomFence, DomFenceDecided, ContinueAfterStop, RebindPage, DomPath, Watching, At, Watched, Awaits
<1> SUFFICES ASSUME ~ReceiveProgress PROVE PipeOrdered'
  BY <1>1
<1>3. /\ Watched /\ AllPlain /\ sess.outcome = "pending"
      /\ (Awaits(work.pc) = "nothing" => reply.type = "none")
  BY <1>2, PlainPipe, NoReplyPending
<1>4. ASSUME NEW m \in Message, Post(<<m>>), WorkerInPlace',
             m.type \in Plain \/ (m.type \in Asking /\ m.type = Awaits(work'.pc) /\ reply'.type = "none"),
             m.type = "send_activated" => work'.pc = "activating" /\ auth'.submission = "prepared",
             m.type = "commit" /\ work'.pc = "dom_commit" => m.rev = work'.fence
      PROVE  PipeOrdered'
  BY <1>0, <1>3, <1>4, OneInPlace DEF PipeOrdered
<1>5. ASSUME UNCHANGED up, WorkerInPlace' PROVE PipeOrdered'
  BY <1>0, <1>3, <1>5, NothingInPlace DEF PipeOrdered
<1>6. ASSUME reply'.type = "none", work'.pc \notin {"prepare", "finished", "failed"},
             work'.pc \in {"wire_begin", "wire_commit"} => work'.offer # <<>>,
             work'.pc = "dom_commit" => chat'.dom # <<>>,
             chat'.wire = "answer" => chat'.answer # <<>>
      PROVE  WorkerInPlace'
  BY <1>0, <1>3, <1>6 DEF WorkerInPlace
<1> USE KindsOfLines, MessageTypes, FrameTypes
<1>7. CASE ActivateSend
  <2>1. /\ work'.pc = "activating" /\ reply'.type = "none" /\ UNCHANGED <<auth, chat>>
        /\ auth'.submission = "prepared" /\ Post(<<Signal("send_activated")>>)
    BY <1>0, <1>3, <1>7 DEF ActivateSend, At, Awaits, WebTurnTypeOK, Work, PipeInv, PipeOrdered, WorkerInPlace
  <2>2. WorkerInPlace'
    BY <1>0, <1>6, <2>1
  <2> QED BY <1>4, <2>1, <2>2 DEF Asking, Awaits
<1>8. CASE PressSend
  <2>1. /\ work'.pc = "sent" /\ reply'.type = "none" /\ chat'.wire = chat.wire /\ chat'.answer = chat.answer
        /\ UNCHANGED up
    BY <1>0, <1>3, <1>8 DEF PressSend, WebTurnTypeOK, Work, Page, NoReply
  <2> QED BY <1>0, <1>5, <1>6, <2>1
<1>9. CASE AcceptSubmission
  <2>1. /\ work'.pc = "loop" /\ reply'.type = "none" /\ UNCHANGED chat /\ Post(<<Signal("submitted")>>)
    BY <1>0, <1>3, <1>9 DEF AcceptSubmission, At, Awaits, WebTurnTypeOK, Work
  <2> QED BY <1>0, <1>4, <1>6, <2>1 DEF Plain
<1>10. CASE ObserveBoundary
  <2> DEFINE first == Numbered("observed", mirror.batch)
             second == Fact("tool_boundary_observed", mirror.batch, NoText, "none")
             rest == <<first, second>>
  <2>1. /\ work'.pc = work.pc /\ reply'.type = "none" /\ UNCHANGED chat /\ up' = up \o rest
        /\ work.pc \in {"sent", "loop"} /\ mirror.batch \in Rev
    BY <1>0, <1>3, <1>10 DEF ObserveBoundary, Watching, Awaits, WebTurnTypeOK, Work, Post, Mirror, Rev
  <2>2. first \in Message /\ second \in Message /\ first.type \in Plain /\ second.type \in Plain
    BY <1>0, <2>1 DEF Plain
  <2> HIDE DEF first, second
  <2>3. rest \in Seq(Message) /\ Len(rest) = 2 /\ \A i \in 1..Len(rest) : rest[i].type \in Plain
    BY <2>2
  <2> HIDE DEF rest
  <2>4. ASSUME NEW i \in 1..Len(rest) PROVE InPlace(rest, i)
    BY <2>3 DEF InPlace, Plain, Asking
  <2>5. \A i \in 1..Len(up') : LineInPlace(i)'
    BY <1>0, <1>3, <2>1, <2>3, <2>4, PostInPlace
  <2> QED BY <1>0, <1>6, <2>1, <2>5 DEF PipeOrdered
<1>11. CASE PublishDelta
  <2> DEFINE m == Msg("text", NoRev, SubSeq(chat.dom, Len(work.published) + 1, Len(chat.dom)), "dom")
  <2>1. /\ work'.pc = "loop" /\ reply'.type = "none" /\ UNCHANGED chat /\ Post(<<m>>)
    BY <1>0, <1>3, <1>11 DEF PublishDelta, At, Awaits, WebTurnTypeOK, Work
  <2>2. m \in Message /\ m.type = "text"
    <3>1. chat.dom \in Text /\ work.published \in Text /\ Extends(chat.dom, work.published)
      BY <1>0, <1>11, TextOfPage DEF PublishDelta, WebTurnTypeOK, Page, Work
    <3> QED BY <3>1, MissingText
  <2> HIDE DEF m
  <2> QED BY <1>0, <1>4, <1>6, <2>1, <2>2 DEF Plain
<1>12. CASE OfferWire
  <2> DEFINE first == Fact("final_candidate", NoRev, Wire, "wire")
             second == Signal("begin")
             rest == <<first, second>>
  <2>1. /\ work'.pc = "wire_begin" /\ reply'.type = "none" /\ UNCHANGED chat /\ up' = up \o rest
        /\ work'.offer = Wire /\ Wire # NoText
    BY <1>0, <1>3, <1>12 DEF OfferWire, WireAnswered, At, Awaits, WebTurnTypeOK, Work, Post
  <2>2. Wire # <<>>
    BY <1>0, <2>1 DEF Wire
  <2>3. first \in Message /\ second \in Message /\ first.type = "final_candidate" /\ second.type = "begin"
    BY <1>0, WireText
  <2> HIDE DEF first, second
  <2>4. rest \in Seq(Message) /\ Len(rest) = 2 /\ rest[1].type = "final_candidate" /\ rest[2].type = "begin"
    BY <2>3
  <2> HIDE DEF rest
  <2>5. ASSUME NEW i \in 1..Len(rest) PROVE InPlace(rest, i)
    <3>1. i = 1 \/ i = 2
      BY <2>4
    <3> QED BY <2>1, <2>4, <3>1 DEF InPlace, Asking, Awaits
  <2>6. \A i \in 1..Len(up') : LineInPlace(i)'
    BY <1>0, <1>3, <2>1, <2>4, <2>5, PostInPlace
  <2> QED BY <1>0, <1>6, <2>1, <2>2, <2>6 DEF PipeOrdered
<1>13. CASE WireFenceBegun
  <2>1. reply'.type = "none" /\ UNCHANGED chat /\ reply.rev \in Rev /\ work.pc = "wire_begin"
    BY <1>0, <1>13 DEF WireFenceBegun, NoReply, WebTurnTypeOK, Answer, At
  <2>2. CASE reply.rev # NoRev /\ Wire = work.offer
    <3>1. work'.pc = "wire_commit" /\ work'.offer = work.offer /\ Post(<<Numbered("commit", reply.rev)>>)
      BY <1>0, <1>13, <2>2 DEF WireFenceBegun, WebTurnTypeOK, Work
    <3>2. work.offer # <<>>
      BY <2>1 DEF PipeInv, PipeOrdered, WorkerInPlace
    <3> QED BY <1>0, <1>4, <1>6, <2>1, <3>1, <3>2 DEF Asking, Awaits
  <2>3. CASE ~(reply.rev # NoRev /\ Wire = work.offer)
    <3>1. work'.pc = "loop" /\ UNCHANGED up
      BY <1>0, <1>13, <2>3 DEF WireFenceBegun, WebTurnTypeOK, Work
    <3> QED BY <1>0, <1>5, <1>6, <2>1, <3>1
  <2> QED BY <2>2, <2>3
<1>14. CASE WireFenceDecided
  <2>1. UNCHANGED chat /\ reply' = NoReply /\ work.pc = "wire_commit" /\ work.offer # <<>> /\ work.offer \in Text
    BY <1>0, <1>14 DEF WireFenceDecided, At, PipeInv, PipeOrdered, WorkerInPlace, WebTurnTypeOK, Work
  <2>2. CASE work' = [work EXCEPT !.pc = "loop"] /\ UNCHANGED up
    BY <1>0, <1>5, <1>6, <2>1, <2>2 DEF WebTurnTypeOK, Work, NoReply
  <2>3. CASE Publish(work.offer, "wire", TRUE, <<>>)
    <3> DEFINE msgs == <<>>
    <3>1. Publish(work.offer, "wire", TRUE, msgs)
      BY <2>3
    <3>2. msgs \in Seq(Message) /\ Len(msgs) = 0
      OBVIOUS
    <3> HIDE DEF msgs
    <3>3. \A i \in 1..Len(msgs) : msgs[i].type = "final_candidate"
      BY <3>2
    <3> QED BY <1>3, <2>1, <3>1, <3>2, <3>3, PublishInPlace
  <2> QED BY <1>14, <2>2, <2>3 DEF WireFenceDecided
<1>15. CASE BeginDomFence
  <2>1. /\ work'.pc = "dom_begin" /\ reply'.type = "none" /\ UNCHANGED chat /\ Post(<<Signal("begin")>>)
    BY <1>0, <1>3, <1>15 DEF BeginDomFence, DomPath, At, Awaits, WebTurnTypeOK, Work
  <2> QED BY <1>0, <1>4, <1>6, <2>1 DEF Asking, Awaits
<1>16. CASE DomFenceBegun \/ DropDomFence
  <2>1. DomFenceBegun => work'.pc = "loop" /\ reply'.type = "none" /\ UNCHANGED <<chat, up>>
    BY <1>0 DEF DomFenceBegun, WebTurnTypeOK, Work, NoReply
  <2>2. DropDomFence => work'.pc = "loop" /\ reply'.type = "none" /\ UNCHANGED <<chat, up>>
    BY <1>0, <1>3 DEF DropDomFence, DomPath, At, Awaits, WebTurnTypeOK, Work
  <2> QED BY <1>0, <1>5, <1>6, <1>16, <2>1, <2>2
<1>17. CASE CommitDomFence
  <2>1. /\ work'.pc = "dom_commit" /\ reply'.type = "none" /\ UNCHANGED chat /\ work.fence \in Rev
        /\ work'.fence = work.fence /\ Post(<<Numbered("commit", work.fence)>>) /\ chat.dom # <<>>
    BY <1>0, <1>3, <1>17 DEF CommitDomFence, DomPath, DomReady, At, Awaits, WebTurnTypeOK, Work
  <2> QED BY <1>0, <1>4, <1>6, <2>1 DEF Asking, Awaits
<1>18. CASE DomFenceDecided
  <2> DEFINE final == IF Wire # NoText THEN Wire ELSE chat.dom
             source == IF final = chat.dom THEN "dom" ELSE "wire"
             msgs == <<Fact("final_candidate", NoRev, final, source)>>
             fresh == Len(chat.dom) > chat.after
  <2>1. UNCHANGED chat /\ reply' = NoReply /\ work.pc = "dom_commit" /\ chat.dom # <<>>
    BY <1>0, <1>18 DEF DomFenceDecided, At, PipeInv, PipeOrdered, WorkerInPlace
  <2>2. CASE work' = [work EXCEPT !.pc = "loop", !.fence = NoRev] /\ UNCHANGED up
    BY <1>0, <1>5, <1>6, <2>1, <2>2 DEF WebTurnTypeOK, Work, NoReply
  <2>3. CASE Publish(final, source, fresh, msgs)
    <3>1. final \in Text /\ final # <<>> /\ source \in {"wire", "dom"} /\ fresh \in BOOLEAN
      <4>1. Wire \in Text /\ (Wire # NoText => Wire # <<>>)
        BY <1>0, WireText DEF Wire
      <4>2. chat.dom \in Text
        BY <1>0, TextOfPage DEF WebTurnTypeOK, Page
      <4> QED BY <2>1, <4>1, <4>2
    <3> HIDE DEF final, source, fresh
    <3>2. msgs \in Seq(Message) /\ \A i \in 1..Len(msgs) : msgs[i].type = "final_candidate"
      <4> DEFINE m == Fact("final_candidate", NoRev, final, source)
      <4>1. m \in Message /\ m.type = "final_candidate"
        BY <1>0, <3>1
      <4> HIDE DEF m
      <4>2. <<m>> \in Seq(Message) /\ \A i \in 1..Len(<<m>>) : <<m>>[i].type = "final_candidate"
        BY <4>1
      <4> QED BY <4>2 DEF m
    <3> HIDE DEF msgs
    <3> QED BY <1>3, <2>1, <2>3, <3>1, <3>2, PublishInPlace
  <2> QED BY <1>18, <2>2, <2>3 DEF DomFenceDecided
<1>19. CASE ContinueAfterStop
  <2>1. /\ work'.pc = "loop" /\ reply'.type = "none" /\ chat'.wire # "answer" /\ UNCHANGED up
    BY <1>0, <1>3, <1>19 DEF ContinueAfterStop, DomPath, At, Awaits, WebTurnTypeOK, Work, Page
  <2> QED BY <1>0, <1>5, <1>6, <2>1
<1>20. CASE RebindPage
  <2> DEFINE m == [Signal("browser_rebound") EXCEPT !.epoch = work.epoch + 1]
  <2>1. /\ work'.pc = work.pc /\ reply'.type = "none" /\ UNCHANGED chat /\ Post(<<m>>)
        /\ work.pc \in {"sent", "loop"} /\ work.epoch \in Nat
    BY <1>0, <1>3, <1>20 DEF RebindPage, Watching, Awaits, WebTurnTypeOK, Work
  <2>2. m \in Message /\ m.type = "browser_rebound"
    <3>1. \A x \in Message, n \in Nat :
             [x EXCEPT !.epoch = n] \in Message /\ [x EXCEPT !.epoch = n].type = x.type
      BY DEF Message
    <3>2. Signal("browser_rebound") \in Message /\ Signal("browser_rebound").type = "browser_rebound"
          /\ work.epoch + 1 \in Nat
      BY <2>1
    <3> QED BY <3>1, <3>2
  <2> HIDE DEF m
  <2> QED BY <1>0, <1>4, <1>6, <2>1, <2>2 DEF Plain
<1> QED BY <1>7, <1>8, <1>9, <1>10, <1>11, <1>12, <1>13, <1>14, <1>15, <1>16, <1>17, <1>18, <1>19, <1>20 DEF Worker

LEMMA FailurePipe == ASSUME PipeInv, WorkerFails PROVE PipeOrdered'
<1>0. /\ WebTurnTypeOK /\ UNCHANGED <<auth, sess, chat>> /\ work'.pc = "failed" /\ reply'.type = "none"
      /\ work.pc \notin {"finished", "failed"} /\ Post(<<Signal("error")>>)
  BY DEF WorkerFails, Watched, PipeInv, PageInv, BatchInv, QuietInv, WebTurnTypeOK, Work, NoReply
<1>1. sess.outcome = "pending"
  BY <1>0 DEF PipeInv, PipeOrdered, WorkerInPlace
<1>2. WorkerInPlace'
  BY <1>0, <1>1 DEF PipeInv, PipeOrdered, WorkerInPlace
<1>3. PICK m \in Message : up' = up \o <<m>> /\ m.type = "error"
  <2>1. Signal("error") \in Message /\ Signal("error").type = "error"
    BY MessageTypes, KindsOfLines
  <2> QED BY <1>0, <2>1 DEF Post
<1>4. /\ up \in Seq(Message) /\ Len(up) \in Nat /\ Len(up') = Len(up) + 1 /\ up'[Len(up) + 1] = m
      /\ \A i \in 1..Len(up) : up'[i] = up[i]
  <2>1. up \in Seq(Message)
    BY <1>0 DEF WebTurnTypeOK
  <2> QED BY <1>3, <2>1, AppendFacts
<1>5. ASSUME NEW i \in 1..Len(up') PROVE LineInPlace(i)'
  <2>1. CASE i \in 1..Len(up)
    <3>1. /\ up'[i] = up[i] /\ up[i].type \notin {"result", "error"}
          /\ up[i].type = "send_activated" => auth.submission = "prepared"
          /\ up[i].type = "send_activated" => \A j \in 1..Len(up) : up[j].type = "send_activated" => j = i
      BY <1>0, <1>4, <2>1 DEF PipeInv, PipeOrdered, LineInPlace
    <3>2. up'[i].type = "send_activated" => \A j \in 1..Len(up') : up'[j].type = "send_activated" => j = i
      <4> SUFFICES ASSUME up'[i].type = "send_activated", NEW j \in 1..Len(up'), up'[j].type = "send_activated"
                   PROVE  j = i
        OBVIOUS
      <4>1. j \in 1..Len(up)
        BY <1>3, <1>4
      <4> QED BY <1>4, <3>1, <4>1
    <3> QED BY <1>0, <3>1, <3>2 DEF LineInPlace
  <2>2. CASE i = Len(up')
    BY <1>0, <1>1, <1>3, <1>4, <2>2 DEF LineInPlace, Asking
  <2> QED BY <1>4, <2>1, <2>2
<1> QED BY <1>2, <1>5 DEF PipeOrdered

\* The submission is prepared until the daemon is told of the Send.
LEMMA SubmissionMoves ==
  ASSUME NEW a \in Authority
  PROVE  /\ \A e \in Nat : Rebound(a, e).submission = a.submission
         /\ \A kind \in {"error", "cancelled"} : Close(a, kind).submission = a.submission
         /\ \A ids \in SUBSET Calls, r \in Nat : ToolBatch(a, ids, r).submission = a.submission
         /\ \A r \in Rev : BoundaryObserved(a, r).submission = a.submission
         /\ \A t \in Text, source \in {"none", "wire", "dom"} :
               FinalCandidate(a, t, source).submission = a.submission
         /\ \A r \in Rev : FenceBegun(a, r).submission = a.submission
         /\ \A r \in Rev, ok \in BOOLEAN : FenceDecided(a, r, ok).submission = a.submission
BY DEF Authority, Rebound, Close, ToolBatch, BoundaryObserved, FinalCandidate, FenceBegun, FenceDecided, IsTerminal

\* What the daemon answers, and what it decides, is about the line it read.
LEMMA DaemonEffects ==
  ASSUME WebTurnTypeOK, Daemon
  PROVE  /\ reply' = reply \/ (Line.type \in Asking /\ reply'.type = Line.type)
         /\ auth'.submission = auth.submission \/ Line.type = "send_activated" \/ auth.submission = "send_activated"
         /\ sess'.outcome = sess.outcome \/ Line.type \in {"result", "error"}
<1>0. /\ up # <<>> /\ auth \in Authority
      /\ Line.rev \in Rev /\ Line.text \in Text /\ Line.epoch \in Nat /\ Line.source \in {"none", "wire", "dom"}
  BY DaemonConsumes, LineFacts DEF WebTurnTypeOK
<1>1. reply' = reply \/ (Line.type \in Asking /\ reply'.type = Line.type)
  <2>1. \A type, r, ok : Reply(type, r, ok).type = type
    BY DEF Reply
  <2>2. HandleBegin => reply' = reply \/ (Line.type = "begin" /\ reply'.type = "begin")
    <3> SUFFICES ASSUME HandleBegin PROVE reply' = reply \/ (Line.type = "begin" /\ reply'.type = "begin")
      OBVIOUS
    <3>1. reply' = reply \/ \E r : reply' = Reply("begin", r, TRUE)
      BY DEF HandleBegin
    <3>2. Line.type = "begin"
      BY DEF HandleBegin, Arrives, Line
    <3>3. ASSUME NEW r, reply' = Reply("begin", r, TRUE) PROVE reply'.type = "begin"
      BY <3>3 DEF Reply
    <3> QED BY <3>1, <3>2, <3>3
  <2>3. HandleCommit => reply' = reply \/ (Line.type = "commit" /\ reply'.type = "commit")
    <3> SUFFICES ASSUME HandleCommit PROVE reply' = reply \/ (Line.type = "commit" /\ reply'.type = "commit")
      OBVIOUS
    <3>1. reply' = reply \/ \E r, ok : reply' = Reply("commit", r, ok)
      BY DEF HandleCommit
    <3>2. Line.type = "commit"
      BY DEF HandleCommit, Arrives, Line
    <3>3. ASSUME NEW r, NEW ok, reply' = Reply("commit", r, ok) PROVE reply'.type = "commit"
      BY <3>3 DEF Reply
    <3> QED BY <3>1, <3>2, <3>3
  <2>4. HandleSendActivated => Line.type = "send_activated" /\ reply'.type = "send_activated"
    BY DEF HandleSendActivated, Arrives, Line, Reply
  <2>5. HandleSubmitted \/ HandleText \/ HandleFact \/ HandleRebound \/ HandleObserved \/ HandleOutcome
           => reply' = reply
    BY DEF HandleSubmitted, HandleText, HandleFact, HandleRebound, HandleObserved, HandleOutcome
  <2> QED BY <2>2, <2>3, <2>4, <2>5 DEF Daemon, Asking
<1>2. Broken(sess).outcome = sess.outcome
  BY DEF Broken, WebTurnTypeOK, Session
<1>3. ASSUME HandleBegin \/ HandleCommit
      PROVE  auth'.submission = auth.submission /\ sess'.outcome = sess.outcome
  <2>1. ASSUME HandleCommit PROVE auth'.submission = auth.submission
    <3>1. \A ok \in BOOLEAN : FenceDecided(auth, Line.rev, ok).submission = auth.submission
      BY <1>0, SubmissionMoves
    <3> QED BY <2>1, <3>1 DEF HandleCommit
  <2>2. ASSUME HandleBegin PROVE auth'.submission = auth.submission
    BY <1>0, <2>2, SubmissionMoves DEF HandleBegin, FenceBegun, Authority
  <2> QED BY <1>2, <1>3, <2>1, <2>2 DEF HandleBegin, HandleCommit
<1>4. ASSUME HandleOutcome PROVE auth'.submission = auth.submission /\ Line.type \in {"result", "error"}
  BY <1>0, <1>4, SubmissionMoves DEF HandleOutcome, MergeOutcome
<1>5. ASSUME HandleFact PROVE auth'.submission = auth.submission /\ sess'.outcome = sess.outcome
  <2>1. /\ auth' \in {auth, FinalCandidate(auth, Line.text, Line.source), BoundaryObserved(auth, Line.rev)}
        /\ sess' \in {sess, Broken(sess)}
    BY <1>5 DEF HandleFact
  <2> QED BY <1>0, <1>2, <2>1, SubmissionMoves
<1>6. ASSUME HandleText PROVE auth'.submission = auth.submission /\ sess'.outcome = sess.outcome
  BY <1>2, <1>6 DEF HandleText, WebTurnTypeOK, Session
<1>7. ASSUME HandleSendActivated \/ HandleSubmitted \/ HandleRebound \/ HandleObserved
      PROVE  /\ auth'.submission = auth.submission \/ Line.type = "send_activated" \/ auth.submission = "send_activated"
             /\ sess'.outcome = sess.outcome
  <2>1. ASSUME HandleSendActivated
        PROVE  Line.type = "send_activated" /\ sess'.outcome = sess.outcome
    BY <1>2, <2>1 DEF HandleSendActivated, Arrives, Line
  <2>2. ASSUME HandleSubmitted
        PROVE  /\ auth'.submission = auth.submission \/ auth.submission = "send_activated"
               /\ sess'.outcome = sess.outcome
    BY <1>2, <2>2 DEF HandleSubmitted
  <2>3. ASSUME HandleRebound
        PROVE  auth'.submission = auth.submission /\ sess'.outcome = sess.outcome
    BY <1>0, <1>2, <2>3, SubmissionMoves DEF HandleRebound
  <2>4. ASSUME HandleObserved
        PROVE  auth'.submission = auth.submission /\ sess'.outcome = sess.outcome
    BY <1>0, <1>2, <2>4, SubmissionMoves DEF HandleObserved
  <2> QED BY <1>7, <2>1, <2>2, <2>3, <2>4
<1> QED BY <1>1, <1>3, <1>4, <1>5, <1>6, <1>7 DEF Daemon

LEMMA DaemonPipe == ASSUME PipeInv, Daemon PROVE PipeOrdered'
<1>0. WebTurnTypeOK
  BY DEF PipeInv, PageInv, BatchInv, QuietInv
<1>1. /\ up # <<>> /\ up' = Tail(up) /\ UNCHANGED <<chat, work>> /\ Line = up[1]
      /\ Len(up) \in Nat \ {0} /\ Len(up') = Len(up) - 1 /\ 1 \in 1..Len(up)
      /\ \A i \in 1..Len(up') : i + 1 \in 1..Len(up) /\ up'[i] = up[i + 1]
  <2>1. up # <<>> /\ up' = Tail(up) /\ UNCHANGED <<chat, work>> /\ Line = up[1]
    BY DaemonConsumes DEF Line
  <2>2. /\ Len(up) \in Nat \ {0} /\ Len(Tail(up)) = Len(up) - 1
        /\ \A i \in 1..Len(Tail(up)) : i + 1 \in 1..Len(up) /\ Tail(up)[i] = up[i + 1]
    BY <1>0, <2>1, LineFacts
  <2>3. 1 \in 1..Len(up)
    BY <2>2
  <2> QED BY <2>1, <2>2, <2>3
<1>2. LineInPlace(1) /\ WorkerInPlace /\ sess.outcome = "pending"
  BY <1>1 DEF PipeInv, PipeOrdered, WorkerInPlace
<1>3. ASSUME reply' # reply
      PROVE  /\ reply'.type = Line.type /\ Line.type \in Asking
             /\ work.pc # "failed" => up' = <<>> /\ Len(up') = 0 /\ reply'.type = Awaits(work.pc)
  <2>1. reply'.type = Line.type /\ Line.type \in Asking
    BY <1>0, <1>3, DaemonEffects
  <2>2. work.pc # "failed" => Len(up) = 1 /\ reply'.type = Awaits(work.pc)
    BY <1>1, <1>2, <2>1 DEF LineInPlace
  <2> QED BY <1>0, <1>1, <2>1, <2>2, LineFacts
<1>4. Line.type \in {"result", "error"} => Len(up') = 0 /\ up' = <<>> /\ work.pc \in {"finished", "failed"}
  <2>1. Line.type \in {"result", "error"} => Len(up) = 1 /\ work.pc \in {"finished", "failed"}
    BY <1>1, <1>2 DEF LineInPlace
  <2> QED BY <1>0, <1>1, <2>1, LineFacts
<1>5. WorkerInPlace'
  <2>1. reply'.type # "none" /\ work.pc # "failed" => reply'.type = Awaits(work.pc)
    BY <1>2, <1>3 DEF WorkerInPlace
  <2>2. work.pc = "prepare" => auth'.submission = "prepared"
    BY <1>0, <1>1, <1>2, DaemonEffects DEF WorkerInPlace, LineInPlace
  <2>3. sess'.outcome # "pending" => work.pc \in {"finished", "failed"} /\ up' = <<>>
    BY <1>0, <1>2, <1>4, DaemonEffects
  <2> QED BY <1>1, <1>2, <2>1, <2>2, <2>3 DEF WorkerInPlace
<1>6. ASSUME NEW i \in 1..Len(up') PROVE LineInPlace(i)'
  <2> DEFINE k == i + 1
  <2>1. /\ k \in 1..Len(up) /\ up'[i] = up[k] /\ k # 1 /\ (k = Len(up) => i = Len(up'))
        /\ up'[Len(up')] = up[Len(up)] /\ Len(up') # 0
    <3>1. Len(up') \in 1..Len(up') /\ Len(up') + 1 = Len(up)
      BY <1>1
    <3>2. up'[Len(up')] = up[Len(up') + 1]
      BY <1>1, <3>1
    <3>3. up'[i] = up[k] /\ k \in 1..Len(up)
      BY <1>1
    <3>4. k # 1 /\ (k = Len(up) => i = Len(up')) /\ Len(up') # 0
      BY <3>1
    <3>5. up'[Len(up')] = up[Len(up)]
      BY <3>1, <3>2
    <3> QED BY <3>3, <3>4, <3>5
  <2> HIDE DEF k
  <2>2. LineInPlace(k)
    BY <2>1 DEF PipeInv, PipeOrdered
  <2>3. work.pc # "failed" => reply' = reply
    BY <1>3, <2>1
  <2>4. sess'.outcome = "pending"
    BY <1>0, <1>2, <1>4, <2>1, DaemonEffects
  <2>5. up[k].type = "send_activated" =>
          /\ auth'.submission = "prepared"
          /\ \A j \in 1..Len(up') : up'[j].type = "send_activated" => j = i
    <3> SUFFICES ASSUME up[k].type = "send_activated"
                 PROVE  /\ auth'.submission = "prepared"
                        /\ \A j \in 1..Len(up') : up'[j].type = "send_activated" => j = i
      OBVIOUS
    <3>1. auth.submission = "prepared" /\ \A j \in 1..Len(up) : up[j].type = "send_activated" => j = k
      BY <2>2 DEF LineInPlace
    <3>2. Line.type # "send_activated"
      BY <1>1, <2>1, <3>1
    <3>3. auth'.submission = "prepared"
      BY <1>0, <3>1, <3>2, DaemonEffects
    <3>4. ASSUME NEW j \in 1..Len(up'), up'[j].type = "send_activated" PROVE j = i
      <4>1. j + 1 = k
        BY <1>1, <3>1, <3>4
      <4> QED BY <4>1 DEF k
    <3> QED BY <3>3, <3>4
  <2> QED BY <1>1, <2>1, <2>2, <2>3, <2>4, <2>5 DEF LineInPlace
<1> QED BY <1>5, <1>6 DEF PipeOrdered

LEMMA PipeSame ==
  ASSUME PipeInv, UNCHANGED <<work, up, reply>>, sess'.outcome = sess.outcome,
         auth.submission = "prepared" => auth'.submission = "prepared",
         chat'.wire = "answer" => chat'.answer # <<>>, chat.dom # <<>> => chat'.dom # <<>>
  PROVE  PipeOrdered'
<1>1. WorkerInPlace'
  BY DEF PipeInv, PipeOrdered, WorkerInPlace
<1>2. ASSUME NEW i \in 1..Len(up) PROVE LineInPlace(i)'
  BY DEF PipeInv, PipeOrdered, LineInPlace
<1> QED BY <1>1, <1>2 DEF PipeOrdered

LEMMA ChatGPTPipe == ASSUME PipeInv, ChatGPT PROVE PipeOrdered'
<1>0. /\ WebTurnTypeOK /\ chat.dom \in Text /\ Len(chat.dom) \in Nat /\ chat.after \in Nat
      /\ (chat.wire = "answer" => chat.answer # <<>>) /\ (chat.done => chat.dom # <<>>)
  <2>1. WebTurnTypeOK
    BY DEF PipeInv, PageInv, BatchInv, QuietInv
  <2>2. chat.dom \in Seq(Nat) /\ chat.after \in Nat
    BY <2>1 DEF WebTurnTypeOK, Page
  <2> QED BY <2>1, <2>2, TextOfPage DEF PipeInv, PipeOrdered, WorkerInPlace, PageInv, PageWaits
<1>1. UNCHANGED <<auth, work, up, reply, sess>>
  BY DEF ChatGPT, ChatClaims, ChatInvokes, ChatSettles, ChatWrites, ChatShowsEnd, ChatResumes, WireConcludes, WireIsLost
<1>2. CASE UNCHANGED chat
  BY <1>0, <1>1, <1>2, PipeSame
<1>3. CASE ChatWrites
  <2>1. chat'.dom = Append(chat.dom, Len(chat.dom) + 1) /\ chat'.wire = chat.wire /\ chat'.answer = chat.answer
    BY <1>0, <1>3 DEF ChatWrites, WebTurnTypeOK, Page
  <2>2. chat'.dom # <<>>
    <3> DEFINE t == Append(chat.dom, Len(chat.dom) + 1)
    <3>1. Len(t) = Len(chat.dom) + 1 /\ chat'.dom = t
      BY <1>0, <2>1 DEF Text
    <3> HIDE DEF t
    <3>2. t # <<>>
      BY <1>0, <3>1
    <3> QED BY <3>1, <3>2
  <2> QED BY <1>0, <1>1, <2>1, <2>2, PipeSame
<1>4. CASE WireConcludes
  <2>1. chat'.dom = chat.dom /\ chat.dom # <<>>
    BY <1>0, <1>4 DEF WireConcludes, WebTurnTypeOK, Page
  <2>2. chat'.answer # <<>>
    <3> DEFINE other == [chat.dom EXCEPT ![Len(chat.dom)] = 9]
    <3>1. chat'.answer \in {chat.dom, other}
      BY <1>0, <1>4 DEF WireConcludes, WebTurnTypeOK, Page
    <3>2. Len(other) = Len(chat.dom) /\ Len(chat.dom) # 0
      BY <1>0, <1>4 DEF Text, WireConcludes
    <3> HIDE DEF other
    <3>3. other # <<>>
      BY <3>2
    <3> QED BY <2>1, <3>1, <3>3
  <2> QED BY <1>1, <2>1, <2>2, PipeSame
<1>5. CASE ChatShowsEnd \/ ChatResumes \/ WireIsLost
  <2>1. /\ chat'.dom = chat.dom
        /\ (chat'.wire = chat.wire /\ chat'.answer = chat.answer) \/ chat'.wire = "lost"
    BY <1>0, <1>5 DEF ChatShowsEnd, ChatResumes, WireIsLost, WebTurnTypeOK, Page
  <2> QED BY <1>0, <1>1, <2>1, PipeSame
<1> QED BY <1>2, <1>3, <1>4, <1>5 DEF ChatGPT, ChatClaims, ChatInvokes, ChatSettles

\* What a cancellation leaves of the session and of the authority.
LEMMA CancelEffects ==
  ASSUME WebTurnTypeOK, CancelTurn
  PROVE  /\ sess'.outcome = sess.outcome /\ auth'.submission = auth.submission
         /\ sess'.feed = sess.feed /\ sess'.answer = sess.answer /\ sess'.broken = sess.broken /\ sess'.aborted
<1>1. auth \in Authority /\ auth' = Close(auth, "cancelled")
  BY DEF CancelTurn, WebTurnTypeOK
<1> QED BY <1>1, SubmissionMoves DEF CancelTurn, WebTurnTypeOK, Session

LEMMA OtherEffects ==
  ASSUME WebTurnTypeOK, Round \/ CapabilityRetires \/ NativeCancels
  PROVE  /\ UNCHANGED <<mirror, work, up, reply>>
         /\ sess'.outcome = sess.outcome /\ sess'.feed = sess.feed /\ sess'.answer = sess.answer
         /\ sess'.broken = sess.broken /\ (sess.aborted => sess'.aborted)
         /\ auth'.submission = auth.submission \/ (auth.submission = "send_activated" /\ auth'.submission = "accepted")
         /\ chat'.dom = chat.dom /\ chat'.wire = chat.wire /\ chat'.answer = chat.answer /\ chat'.done = chat.done
         /\ UNCHANGED chat \/ ReturnResults
<1> DEFINE SessionKept == /\ sess'.outcome = sess.outcome /\ sess'.feed = sess.feed /\ sess'.answer = sess.answer
                          /\ sess'.broken = sess.broken /\ (sess.aborted => sess'.aborted)
           SubmissionKept == \/ auth'.submission = auth.submission
                             \/ auth.submission = "send_activated" /\ auth'.submission = "accepted"
<1>1. UNCHANGED <<mirror, work, up, reply>> /\ (UNCHANGED chat \/ ReturnResults)
  BY DEF Round, TakeBatch, EmitBatch, FailBoundary, ReturnResults, FinishRound, Disconnect, Reconnect,
         CapabilityRetires, NativeCancels
<1>2. ASSUME CancelTurn PROVE SessionKept /\ SubmissionKept
  BY <1>2, CancelEffects
<1>3. ASSUME NEW why, FailRound(why) PROVE CancelTurn
  BY <1>3 DEF FailRound
<1>4. chat'.dom = chat.dom /\ chat'.wire = chat.wire /\ chat'.answer = chat.answer /\ chat'.done = chat.done
  <2>1. UNCHANGED chat \/ chat' = [chat EXCEPT !.after = Len(chat.dom)]
    BY <1>1, ReturnResultsFacts
  <2> QED BY <2>1 DEF WebTurnTypeOK, Page
<1>5. CASE TakeBatch
  <2>1. CASE FailRound("tool_batch")
    BY <1>1, <1>2, <1>3, <1>4, <2>1
  <2>2. CASE ~FailRound("tool_batch")
    <3> DEFINE proven == IF auth.submission = "send_activated" THEN Submitted(auth) ELSE auth
               revision == prog.rev + 1
    <3>1. /\ auth' = ToolBatch(proven, round'.batch, revision) /\ UNCHANGED sess
          /\ round'.batch \subseteq Invoked(broker)
      BY <1>5, <2>2, TakeBatchFacts
    <3>2. revision \in Nat /\ Invoked(broker) \subseteq Calls
      BY DEF WebTurnTypeOK, Progress, Invoked
    <3>3. proven \in Authority /\ (proven.submission = auth.submission \/ (auth.submission = "send_activated" /\ proven.submission = "accepted"))
      <4>1. auth \in Authority /\ Submitted(auth) \in Authority
        BY AuthorityTypes DEF WebTurnTypeOK
      <4>2. Submitted(auth).submission \in {auth.submission, "accepted"}
        BY <4>1 DEF Submitted, Authority
      <4> QED BY <4>1, <4>2
    <3> HIDE DEF proven, revision
    <3>4. auth'.submission = proven.submission
      BY <3>1, <3>2, <3>3, SubmissionMoves
    <3> QED BY <1>1, <1>4, <3>1, <3>3, <3>4
  <2> QED BY <2>1, <2>2
<1>6. CASE ReturnResults
  <2>1. CASE FailRound("retired")
    BY <1>1, <1>2, <1>3, <1>4, <1>6, <2>1
  <2>2. CASE ~FailRound("retired")
    <3>1. /\ sess' = [sess EXCEPT !.outstanding = {}]
          /\ auth' = [auth EXCEPT !.toolCalls = IF IsTerminal(auth) THEN @ ELSE @ \ sess.outstanding]
      BY <1>6, <2>2, ReturnResultsFacts
    <3>2. SessionKept /\ SubmissionKept
      BY <3>1 DEF WebTurnTypeOK, Session, Authority
    <3> QED BY <1>1, <1>4, <1>6, <3>2
  <2> QED BY <2>1, <2>2
<1>7. CASE FinishRound
  <2>1. UNCHANGED <<auth, sess>> => SessionKept /\ SubmissionKept
    OBVIOUS
  <2> QED BY <1>1, <1>2, <1>3, <1>4, <1>7, <2>1, FinishRoundFacts
<1>8. CASE EmitBatch \/ Disconnect \/ Reconnect \/ CapabilityRetires
  <2>1. SessionKept /\ UNCHANGED auth
    BY <1>8 DEF EmitBatch, Disconnect, Reconnect, CapabilityRetires, WebTurnTypeOK, Session
  <2> QED BY <1>1, <1>4, <2>1
<1>9. CASE FailBoundary \/ NativeCancels
  BY <1>1, <1>2, <1>3, <1>4, <1>9 DEF FailBoundary, NativeCancels
<1> QED BY <1>5, <1>6, <1>7, <1>8, <1>9 DEF Round

LEMMA PageInit == Init => PageInv
<1> SUFFICES ASSUME Init PROVE PageWaits
  BY BatchInit DEF PageInv
<1> QED BY DEF Init, PageWaits

LEMMA PipeInit == Init => PipeInv
<1> SUFFICES ASSUME Init PROVE PipeOrdered
  BY PageInit DEF PipeInv
<1>1. \A i \in 1..Len(up) : FALSE
  BY DEF Init
<1>2. WorkerInPlace
  BY DEF Init, WorkerInPlace, NoReply, InitialAuthority, NoText
<1> QED BY <1>1, <1>2 DEF PipeOrdered

LEMMA PipeNext == PipeInv /\ [Next]_vars => PipeInv'
<1> SUFFICES ASSUME PipeInv, [Next]_vars PROVE PipeOrdered'
  BY PageNext DEF PipeInv
<1>0. WebTurnTypeOK /\ (chat.wire = "answer" => chat.answer # <<>>)
  BY DEF PipeInv, PageInv, BatchInv, QuietInv, PipeOrdered, WorkerInPlace
<1>1. CASE Round \/ CapabilityRetires \/ NativeCancels
  <2>1. /\ UNCHANGED <<work, up, reply>> /\ sess'.outcome = sess.outcome
        /\ auth.submission = "prepared" => auth'.submission = "prepared"
        /\ chat'.dom = chat.dom /\ chat'.wire = chat.wire /\ chat'.answer = chat.answer
    BY <1>0, <1>1, OtherEffects
  <2> QED BY <1>0, <2>1, PipeSame
<1>2. CASE UNCHANGED vars
  BY <1>0, <1>2, PipeSame DEF vars
<1> QED BY <1>1, <1>2, ChatGPTPipe, WorkerPipe, FailurePipe, DaemonPipe DEF Next, Over

-----------------------------------------------------------------------------
(* What the authority's record says as long as no terminal outcome is accepted. *)

KeptInv == PipeInv /\ AuthorityKept

FencedRight(a) ==
  ~IsTerminal(a) =>
     /\ a.fence # NoRev \/ a.fenceCommitted => a.submission = "accepted"
     /\ a.fenceCommitted => a.candidate = NoCandidate
\* An event other than a tool batch and a closure, applied where it is legal.
Keeps(a, b) ==
  /\ FencedRight(a) => FencedRight(b)
  /\ b.toolCalls = a.toolCalls
  /\ b.terminal.kind = a.terminal.kind \/ b.terminal.kind = "final"

LEMMA ReducerKeeps ==
  ASSUME NEW a \in Authority
  PROVE  /\ Keeps(a, a)
         /\ \A e \in Nat : Keeps(a, Rebound(a, e))
         /\ a.submission = "prepared" => Keeps(a, SendActivated(a))
         /\ Keeps(a, Submitted(a))
         /\ \A r \in Rev : Keeps(a, BoundaryObserved(a, r))
         /\ \A t \in Text, source \in {"wire", "dom"} : Keeps(a, FinalCandidate(a, t, source))
         /\ \A r \in Rev : FenceBegunLegal(a) => Keeps(a, FenceBegun(a, r))
         /\ \A r \in Rev : Keeps(a, FenceDecided(a, r, FALSE))
         /\ \A r \in Nat : Keeps(a, FenceDecided(a, r, TRUE))
<1>1. Keeps(a, a)
  BY DEF Keeps
<1>2. \A e \in Nat : Keeps(a, Rebound(a, e))
  BY DEF Keeps, FencedRight, Rebound, IsTerminal, Authority
<1>3. a.submission = "prepared" => Keeps(a, SendActivated(a))
  BY DEF Keeps, FencedRight, SendActivated, IsTerminal, Authority
<1>4. Keeps(a, Submitted(a))
  BY DEF Keeps, FencedRight, Submitted, IsTerminal, Authority
<1>5. \A r \in Rev : Keeps(a, BoundaryObserved(a, r))
  BY DEF Keeps, FencedRight, BoundaryObserved, IsTerminal, Authority
<1>6. \A t \in Text, source \in {"wire", "dom"} : Keeps(a, FinalCandidate(a, t, source))
  BY DEF Keeps, FencedRight, FinalCandidate, IsTerminal, Authority
<1>7. \A r \in Rev : FenceBegunLegal(a) => Keeps(a, FenceBegun(a, r))
  BY DEF Keeps, FencedRight, FenceBegun, FenceBegunLegal, IsTerminal, Authority
<1>8. \A r \in Rev : Keeps(a, FenceDecided(a, r, FALSE))
  BY DEF Keeps, FencedRight, FenceDecided, IsTerminal, Authority
<1>9. \A r \in Nat : Keeps(a, FenceDecided(a, r, TRUE))
  <2> SUFFICES ASSUME NEW r \in Nat PROVE Keeps(a, FenceDecided(a, r, TRUE))
    OBVIOUS
  <2>0. r # NoRev
    BY DEF NoRev
  <2>1. CASE IsTerminal(a) \/ a.fence # r
    BY <1>1, <2>1 DEF FenceDecided
  <2>2. CASE ~IsTerminal(a) /\ a.fence = r /\ a.candidate = NoCandidate
    BY <2>0, <2>2 DEF Keeps, FencedRight, FenceDecided, IsTerminal, Authority
  <2>3. CASE ~IsTerminal(a) /\ a.fence = r /\ a.candidate # NoCandidate
    BY <2>0, <2>3 DEF Keeps, FencedRight, FenceDecided, IsTerminal, Authority
  <2> QED BY <2>1, <2>2, <2>3
<1> QED BY <1>1, <1>2, <1>3, <1>4, <1>5, <1>6, <1>7, <1>8, <1>9

\* Every line the daemon applies is an event that is legal where it is applied.
LEMMA DaemonKeeps ==
  ASSUME KeptInv, Daemon
  PROVE  \/ Keeps(auth, auth')
         \/ auth' = Close(auth, "error") /\ sess'.outcome = "error"
<1>0. /\ WebTurnTypeOK /\ auth \in Authority /\ up # <<>> /\ Line = up[1] /\ 1 \in 1..Len(up)
      /\ Line.rev \in Rev /\ Line.text \in Text /\ Line.epoch \in Nat /\ Line.source \in {"none", "wire", "dom"}
  <2>1. WebTurnTypeOK
    BY DEF KeptInv, PipeInv, PageInv, BatchInv, QuietInv
  <2>2. up # <<>> /\ Line = up[1]
    BY DaemonConsumes DEF Line
  <2>3. Len(up) \in Nat \ {0}
    BY <2>1, <2>2, LineFacts
  <2> QED BY <2>1, <2>2, <2>3, LineFacts DEF WebTurnTypeOK
<1>1. CASE HandleSendActivated
  <2>1. auth.submission = "prepared"
    BY <1>0, <1>1 DEF HandleSendActivated, Arrives, KeptInv, PipeInv, PipeOrdered, LineInPlace
  <2> QED BY <1>0, <1>1, <2>1, ReducerKeeps DEF HandleSendActivated
<1>2. CASE HandleSubmitted \/ HandleText \/ HandleObserved \/ HandleRebound
  BY <1>0, <1>2, ReducerKeeps DEF HandleSubmitted, HandleText, HandleObserved, HandleRebound
<1>3. CASE HandleFact
  <2>1. auth' \in {auth, FinalCandidate(auth, Line.text, Line.source), BoundaryObserved(auth, Line.rev)}
    BY <1>3 DEF HandleFact
  <2>2. \A t \in Text : Keeps(auth, FinalCandidate(auth, t, "none"))
    BY <1>0 DEF Keeps, FencedRight, FinalCandidate, IsTerminal, Authority
  <2> QED BY <1>0, <2>1, <2>2, ReducerKeeps
<1>4. CASE HandleBegin
  <2>1. auth' = auth \/ \E r \in Rev : FenceBegunLegal(auth) /\ auth' = FenceBegun(auth, r)
    BY <1>0, <1>4 DEF HandleBegin, WebTurnTypeOK, Broker, Rev
  <2> QED BY <1>0, <2>1, ReducerKeeps
<1>5. CASE HandleCommit
  <2>1. CASE Moved(auth, auth') /\ UNCHANGED broker /\ auth' = auth
    BY <1>0, <2>1, ReducerKeeps
  <2> DEFINE committed == IF broker.committed # NoRev THEN broker.committed = Line.rev
                          ELSE Quiet(broker) /\ broker.rev = Line.rev
  <2>2. auth' = auth \/ auth' = FenceDecided(auth, Line.rev, committed)
    BY <1>5 DEF HandleCommit
  <2>3. committed => Line.rev \in Nat
    BY <1>0 DEF WebTurnTypeOK, Broker, Rev
  <2>4. committed \in BOOLEAN
    BY DEF Quiet
  <2> HIDE DEF committed
  <2>5. CASE committed
    <3>1. committed = TRUE
      BY <2>4, <2>5
    <3> QED BY <1>0, <2>2, <2>3, <2>5, <3>1, ReducerKeeps
  <2>6. CASE ~committed
    <3>1. committed = FALSE
      BY <2>4, <2>6
    <3> QED BY <1>0, <2>2, <3>1, ReducerKeeps
  <2> QED BY <2>5, <2>6
<1>6. CASE HandleOutcome
  <2>1. \/ auth' \in {auth, FinalCandidate(auth, Line.text, "dom")}
        \/ auth' = Close(auth, "error") /\ sess' = [sess EXCEPT !.outcome = "error"]
    BY <1>6 DEF HandleOutcome, MergeOutcome
  <2>2. [sess EXCEPT !.outcome = "error"].outcome = "error"
    BY <1>0 DEF WebTurnTypeOK, Session
  <2> QED BY <1>0, <2>1, <2>2, ReducerKeeps
<1> QED BY <1>1, <1>2, <1>3, <1>4, <1>5, <1>6 DEF Daemon

\* What else the daemon leaves alone.
LEMMA DaemonLeaves ==
  ASSUME WebTurnTypeOK, Daemon
  PROVE  /\ broker'.st = broker.st /\ broker'.rev = broker.rev
         /\ sess.aborted => sess'.aborted
         /\ sess'.broken => sess.broken \/ sess'.aborted
         /\ sess'.outstanding = sess.outstanding
<1>1. sess' \in {sess, Broken(sess)} \/ HandleText \/ HandleOutcome
  BY DEF Daemon, HandleSendActivated, HandleSubmitted, HandleFact, HandleRebound, HandleObserved, HandleBegin,
         HandleCommit
<1>2. /\ Broken(sess).aborted /\ Broken(sess).outstanding = sess.outstanding
  BY DEF Broken, WebTurnTypeOK, Session
<1>3. HandleText => \/ sess' = Broken(sess)
                    \/ /\ sess'.aborted = sess.aborted /\ sess'.broken = sess.broken
                       /\ sess'.outstanding = sess.outstanding
  BY DEF HandleText, WebTurnTypeOK, Session
<1>4. HandleOutcome => /\ sess'.aborted = sess.aborted /\ sess'.broken = sess.broken
                       /\ sess'.outstanding = sess.outstanding
  BY DEF HandleOutcome, MergeOutcome, WebTurnTypeOK, Session
<1>5. broker'.st = broker.st /\ broker'.rev = broker.rev
  <2>1. UNCHANGED broker \/ broker' = [broker EXCEPT !.committed = Line.rev]
    BY DaemonMoves
  <2> QED BY <2>1 DEF WebTurnTypeOK, Broker
<1> QED BY <1>1, <1>2, <1>3, <1>4, <1>5

LEMMA KeptNext == KeptInv /\ [Next]_vars => KeptInv'
<1> SUFFICES ASSUME KeptInv, [Next]_vars PROVE AuthorityKept'
  BY PipeNext DEF KeptInv
<1>0. WebTurnTypeOK /\ auth \in Authority /\ QuietInv
  BY DEF KeptInv, PipeInv, PageInv, BatchInv, QuietInv, WebTurnTypeOK
<1> DEFINE Delivered(b) == {c \in Calls : b.st[c] = "delivered"}
<1>1. ASSUME UNCHANGED auth, sess'.outcome = sess.outcome, sess'.broken = sess.broken,
             sess.aborted => sess'.aborted, Delivered(broker) \subseteq Delivered(broker')
      PROVE  AuthorityKept'
  BY <1>1 DEF KeptInv, AuthorityKept
<1>2. ASSUME CancelTurn PROVE AuthorityKept'
  <2>1. /\ sess'.aborted /\ sess'.outcome = sess.outcome /\ auth' = Close(auth, "cancelled")
        /\ broker'.st = broker.st
    BY <1>0, <1>2, CancelEffects, CancelIsQuiet DEF CancelTurn
  <2>2. CASE IsTerminal(auth)
    <3>1. auth' = auth
      BY <2>1, <2>2 DEF Close
    <3> QED BY <2>1, <2>2, <3>1 DEF KeptInv, AuthorityKept
  <2>3. CASE ~IsTerminal(auth)
    <3>1. auth'.terminal.kind = "cancelled"
      BY <1>0, <2>1, <2>3 DEF Close, Authority
    <3> QED BY <2>1, <3>1 DEF AuthorityKept, IsTerminal
  <2> QED BY <2>2, <2>3
<1>3. CASE Worker \/ UNCHANGED vars
  <2>1. UNCHANGED <<auth, broker, sess>>
    BY <1>3, WorkerIsApart DEF vars
  <2> QED BY <1>1, <2>1
<1>4. CASE ChatGPT
  <2>1. UNCHANGED <<auth, sess>>
    BY <1>4 DEF ChatGPT, ChatClaims, ChatInvokes, ChatSettles, ChatWrites, ChatShowsEnd, ChatResumes,
                WireConcludes, WireIsLost
  <2>2. ASSUME NEW c \in Calls, broker.st[c] = "delivered" PROVE broker'.st[c] = "delivered"
    <3>1. CASE UNCHANGED broker
      BY <2>2, <3>1
    <3>2. ASSUME NEW d \in Calls, ChatClaims(d) \/ ChatInvokes(d) \/ ChatSettles(d)
          PROVE  broker'.st[c] = "delivered"
      <4>1. c # d
        BY <2>2, <3>2 DEF ChatClaims, ChatInvokes, ChatSettles
      <4>2. \/ broker'.st = [broker.st EXCEPT ![d] = "claimed"]
            \/ broker'.st = [broker.st EXCEPT ![d] = "queued"]
            \/ broker'.st = [broker.st EXCEPT ![d] = "done"]
        BY <1>0, <3>2 DEF ChatClaims, ChatInvokes, ChatSettles, WebTurnTypeOK, Broker
      <4> QED BY <1>0, <2>2, <4>1, <4>2 DEF WebTurnTypeOK, Broker
    <3> QED BY <1>4, <3>1, <3>2 DEF ChatGPT, ChatWrites, ChatShowsEnd, ChatResumes, WireConcludes, WireIsLost
  <2> QED BY <1>1, <2>1, <2>2
<1>5. CASE Daemon
  <2>0. /\ broker'.st = broker.st /\ (sess.aborted => sess'.aborted)
        /\ sess'.broken => sess.broken \/ sess'.aborted
        /\ sess.outcome = "pending"
    <3>1. up # <<>>
      BY <1>5, DaemonConsumes
    <3> QED BY <1>0, <1>5, <3>1, DaemonLeaves DEF KeptInv, PipeInv, PipeOrdered, WorkerInPlace
  <2>1. auth.terminal.kind # "error"
    BY <2>0 DEF KeptInv, AuthorityKept
  <2>2. CASE Keeps(auth, auth')
    <3>1. /\ auth'.terminal.kind = auth.terminal.kind \/ auth'.terminal.kind = "final"
          /\ FencedRight(auth) => FencedRight(auth')
          /\ auth'.toolCalls = auth.toolCalls
      BY <2>2 DEF Keeps
    <3>2. ~IsTerminal(auth') => ~IsTerminal(auth)
      BY <3>1 DEF IsTerminal
    <3>3. FencedRight(auth)
      BY DEF KeptInv, AuthorityKept, FencedRight
    <3> QED BY <2>0, <2>1, <3>1, <3>2, <3>3 DEF KeptInv, AuthorityKept, FencedRight
  <2>3. CASE auth' = Close(auth, "error") /\ sess'.outcome = "error"
    <3>1. CASE IsTerminal(auth)
      <4>1. auth' = auth
        BY <2>3, <3>1 DEF Close
      <4> QED BY <2>0, <2>1, <3>1, <4>1 DEF KeptInv, AuthorityKept
    <3>2. CASE ~IsTerminal(auth)
      <4>1. auth'.terminal.kind = "error"
        BY <1>0, <2>3, <3>2 DEF Close, Authority
      <4> QED BY <2>0, <2>3, <4>1 DEF KeptInv, AuthorityKept, IsTerminal
    <3> QED BY <3>1, <3>2
  <2> QED BY <1>5, <2>2, <2>3, DaemonKeeps
<1>6. CASE TakeBatch /\ ~FailRound("tool_batch")
  <2> DEFINE proven == IF auth.submission = "send_activated" THEN Submitted(auth) ELSE auth
             revision == prog.rev + 1
  <2>1. /\ auth' = ToolBatch(proven, round'.batch, revision) /\ UNCHANGED sess
        /\ round'.batch \subseteq Calls
        /\ \A c \in Calls : broker'.st[c] = IF c \in round'.batch THEN "delivered" ELSE broker.st[c]
    BY <1>0, <1>6, TakeBatchFacts, NextToolBatchFacts
  <2>2. proven \in Authority /\ proven.terminal = auth.terminal
    <3>1. auth \in Authority /\ Submitted(auth) \in Authority
      BY <1>0, AuthorityTypes
    <3>2. Submitted(auth).terminal = auth.terminal
      BY <1>0 DEF Submitted, Authority
    <3> QED BY <3>1, <3>2
  <2>3. IsTerminal(auth) => proven = auth
    BY DEF Submitted
  <2> HIDE DEF proven, revision
  <2>4. CASE IsTerminal(auth)
    <3>1. auth' = auth
      BY <2>1, <2>3, <2>4 DEF ToolBatch
    <3> QED BY <2>1, <2>4, <3>1 DEF KeptInv, AuthorityKept
  <2>5. CASE ~IsTerminal(auth)
    <3>1. /\ auth'.terminal = auth.terminal /\ auth'.fence = NoRev /\ ~auth'.fenceCommitted
          /\ auth'.toolCalls = round'.batch
      BY <2>1, <2>2, <2>5 DEF ToolBatch, Authority, IsTerminal
    <3> QED BY <2>1, <3>1 DEF KeptInv, AuthorityKept, IsTerminal
  <2> QED BY <2>4, <2>5
<1>7. CASE ReturnResults /\ ~FailRound("retired")
  <2>1. /\ auth' = [auth EXCEPT !.toolCalls = IF IsTerminal(auth) THEN @ ELSE @ \ sess.outstanding]
        /\ sess' = [sess EXCEPT !.outstanding = {}]
        /\ \A c \in Calls : broker'.st[c] = IF c \in sess.outstanding THEN "answered" ELSE broker.st[c]
    BY <1>0, <1>7, ReturnResultsFacts
  <2>2. sess'.aborted = sess.aborted /\ sess'.broken = sess.broken /\ sess'.outcome = sess.outcome
    BY <1>0, <2>1 DEF WebTurnTypeOK, Session
  <2>3. /\ auth'.terminal = auth.terminal /\ auth'.fence = auth.fence /\ auth'.submission = auth.submission
        /\ auth'.fenceCommitted = auth.fenceCommitted /\ auth'.candidate = auth.candidate
        /\ ~IsTerminal(auth) => auth'.toolCalls = auth.toolCalls \ sess.outstanding
    BY <1>0, <2>1 DEF Authority
  <2> QED BY <2>1, <2>2, <2>3 DEF KeptInv, AuthorityKept, IsTerminal
<1>8. CASE CapabilityRetires \/ EmitBatch \/ Disconnect \/ Reconnect
  <2>1. /\ UNCHANGED auth /\ broker'.st = broker.st /\ sess'.outcome = sess.outcome
        /\ sess'.broken = sess.broken /\ (sess.aborted => sess'.aborted)
    BY <1>0, <1>8 DEF CapabilityRetires, Revoked, EmitBatch, Disconnect, Reconnect, WebTurnTypeOK, Session, Broker
  <2> QED BY <1>1, <2>1
<1>9. CASE FinishRound
  <2>1. ASSUME UNCHANGED <<auth, sess>>, broker' = Revoked(broker) PROVE AuthorityKept'
    <3>1. broker'.st = broker.st
      BY <1>0, <2>1 DEF Revoked, WebTurnTypeOK, Broker
    <3> QED BY <1>1, <2>1, <3>1
  <2>2. ASSUME NEW why, FailRound(why) PROVE AuthorityKept'
    BY <1>2, <2>2 DEF FailRound
  <2> QED BY <1>9, <2>1, <2>2, FinishRoundFacts
<1>10. CASE FailBoundary \/ NativeCancels \/ FailRound("tool_batch") \/ FailRound("retired")
  BY <1>2, <1>10 DEF FailBoundary, NativeCancels, FailRound
<1> QED BY <1>3, <1>4, <1>5, <1>6, <1>7, <1>8, <1>9, <1>10 DEF Next, Over, Round

LEMMA KeptInit == Init => KeptInv
<1> SUFFICES ASSUME Init PROVE AuthorityKept
  BY PipeInit DEF KeptInv
<1> QED BY DEF Init, AuthorityKept, InitialAuthority, IsTerminal, Open

-----------------------------------------------------------------------------
(* What Codex is shown, line after line, is what the worker has published.   *)

\* Reading the lines u turns the text "from" into the text "to".
Fed(g, u, from, to) ==
  /\ g \in [0..Len(u) -> Text] /\ g[0] = from /\ g[Len(u)] = to
  /\ \A i \in 1..Len(u) : g[i] = IF u[i].type = "text" THEN g[i - 1] \o u[i].text ELSE g[i - 1]
Feeds(u, from, to) == \E g : Fed(g, u, from, to)

LEMMA FeedsPlain ==
  ASSUME NEW u \in Seq(Message), NEW t \in Text, \A i \in 1..Len(u) : u[i].type # "text"
  PROVE  Feeds(u, t, t)
<1> DEFINE g == [i \in 0..Len(u) |-> t]
<1>0. Len(u) \in Nat
  OBVIOUS
<1>1. g \in [0..Len(u) -> Text] /\ g[0] = t /\ g[Len(u)] = t
  BY <1>0
<1>2. ASSUME NEW i \in 1..Len(u) PROVE g[i] = g[i - 1]
  <2>1. i \in 0..Len(u) /\ i - 1 \in 0..Len(u)
    BY <1>0
  <2> QED BY <2>1
<1> HIDE DEF g
<1>3. Fed(g, u, t, t)
  BY <1>1, <1>2 DEF Fed
<1> QED BY <1>3 DEF Feeds

LEMMA FeedsConcat ==
  ASSUME NEW u \in Seq(Message), NEW v \in Seq(Message), NEW a, NEW b, NEW c, Feeds(u, a, b), Feeds(v, b, c)
  PROVE  Feeds(u \o v, a, c)
<1>1. PICK g : Fed(g, u, a, b)
  BY DEF Feeds
<1>2. PICK h : Fed(h, v, b, c)
  BY DEF Feeds
<1> DEFINE w == u \o v
           k == [i \in 0..Len(w) |-> IF i <= Len(u) THEN g[i] ELSE h[i - Len(u)]]
<1>3. /\ w \in Seq(Message) /\ Len(w) = Len(u) + Len(v) /\ Len(u) \in Nat /\ Len(v) \in Nat
      /\ \A i \in 1..Len(u) : w[i] = u[i]
      /\ \A i \in 1..Len(v) : w[Len(u) + i] = v[i]
  BY ConcatFacts
<1> HIDE DEF w
<1>4. k \in [0..Len(w) -> Text]
  <2> SUFFICES ASSUME NEW i \in 0..Len(w) PROVE (IF i <= Len(u) THEN g[i] ELSE h[i - Len(u)]) \in Text
    OBVIOUS
  <2>1. CASE i <= Len(u)
    <3>1. i \in 0..Len(u)
      BY <1>3, <2>1
    <3> QED BY <1>1, <2>1, <3>1 DEF Fed
  <2>2. CASE ~(i <= Len(u))
    <3>1. i - Len(u) \in 0..Len(v)
      BY <1>3, <2>2
    <3> QED BY <1>2, <2>2, <3>1 DEF Fed
  <2> QED BY <2>1, <2>2
<1>5. ASSUME NEW i \in 0..Len(v) PROVE k[Len(u) + i] = h[i]
  <2>1. Len(u) + i \in 0..Len(w) /\ (Len(u) + i <= Len(u) <=> i = 0) /\ (Len(u) + i) - Len(u) = i
    BY <1>3
  <2>2. g[Len(u)] = h[0]
    BY <1>1, <1>2 DEF Fed
  <2>3. CASE i = 0
    <3>1. Len(u) + i = Len(u)
      BY <1>3, <2>3
    <3> QED BY <1>3, <2>1, <2>2, <2>3, <3>1
  <2>4. CASE i # 0
    BY <2>1, <2>4
  <2> QED BY <2>3, <2>4
<1>6. ASSUME NEW i \in 0..Len(u) PROVE k[i] = g[i]
  <2>1. i \in 0..Len(w) /\ i <= Len(u)
    BY <1>3
  <2> QED BY <2>1
<1> HIDE DEF k
<1>7. k[0] = a /\ k[Len(w)] = c
  <2>1. 0 \in 0..Len(u) /\ Len(v) \in 0..Len(v)
    BY <1>3
  <2> QED BY <1>1, <1>2, <1>3, <1>5, <1>6, <2>1 DEF Fed
<1>8. ASSUME NEW i \in 1..Len(w)
      PROVE  k[i] = IF w[i].type = "text" THEN k[i - 1] \o w[i].text ELSE k[i - 1]
  <2>1. CASE i <= Len(u)
    <3>1. i \in 1..Len(u) /\ i \in 0..Len(u) /\ i - 1 \in 0..Len(u)
      BY <1>3, <2>1
    <3>2. w[i] = u[i] /\ k[i] = g[i] /\ k[i - 1] = g[i - 1]
      BY <1>3, <1>6, <3>1
    <3> QED BY <1>1, <3>1, <3>2 DEF Fed
  <2>2. CASE ~(i <= Len(u))
    <3> DEFINE j == i - Len(u)
    <3>1. j \in 1..Len(v) /\ j \in 0..Len(v) /\ j - 1 \in 0..Len(v)
          /\ Len(u) + j = i /\ Len(u) + (j - 1) = i - 1
      BY <1>3, <2>2
    <3> HIDE DEF j
    <3>2. w[i] = v[j] /\ k[i] = h[j] /\ k[i - 1] = h[j - 1]
      BY <1>3, <1>5, <3>1
    <3> QED BY <1>2, <3>1, <3>2 DEF Fed
  <2> QED BY <2>1, <2>2
<1>9. Fed(k, w, a, c)
  BY <1>4, <1>7, <1>8 DEF Fed
<1> QED BY <1>9 DEF Feeds, w

LEMMA FeedsTail ==
  ASSUME NEW u \in Seq(Message), u # <<>>, NEW a, NEW b, Feeds(u, a, b)
  PROVE  Feeds(Tail(u), IF u[1].type = "text" THEN a \o u[1].text ELSE a, b)
<1>1. PICK g : Fed(g, u, a, b)
  BY DEF Feeds
<1> DEFINE w == Tail(u)
           k == [i \in 0..Len(w) |-> g[i + 1]]
<1>2. /\ w \in Seq(Message) /\ Len(w) = Len(u) - 1 /\ Len(u) \in Nat \ {0}
      /\ \A i \in 1..Len(w) : w[i] = u[i + 1]
  BY ConsumeFacts
<1> HIDE DEF w
<1>3. ASSUME NEW i \in 0..Len(w) PROVE i + 1 \in 0..Len(u) /\ i + 1 \in 1..Len(u) /\ k[i] = g[i + 1]
  BY <1>2
<1>4. k \in [0..Len(w) -> Text]
  BY <1>1, <1>3 DEF Fed
<1> HIDE DEF k
<1>5. k[0] = (IF u[1].type = "text" THEN a \o u[1].text ELSE a) /\ k[Len(w)] = b
  <2>1. 0 \in 0..Len(w) /\ Len(w) \in 0..Len(w) /\ Len(w) + 1 = Len(u) /\ 1 \in 1..Len(u) /\ 0 + 1 = 1
    BY <1>2
  <2>2. k[0] = g[1] /\ k[Len(w)] = g[Len(u)]
    BY <1>3, <2>1
  <2>3. g[1] = IF u[1].type = "text" THEN g[1 - 1] \o u[1].text ELSE g[1 - 1]
    BY <1>1, <2>1 DEF Fed
  <2>4. g[1 - 1] = a /\ g[Len(u)] = b
    BY <1>1 DEF Fed
  <2> QED BY <2>2, <2>3, <2>4
<1>6. ASSUME NEW i \in 1..Len(w)
      PROVE  k[i] = IF w[i].type = "text" THEN k[i - 1] \o w[i].text ELSE k[i - 1]
  <2>1. i \in 0..Len(w) /\ i - 1 \in 0..Len(w) /\ (i - 1) + 1 = i /\ (i + 1) - 1 = i
    BY <1>2
  <2>2. k[i] = g[i + 1] /\ k[i - 1] = g[i] /\ w[i] = u[i + 1] /\ i + 1 \in 1..Len(u)
    BY <1>2, <1>3, <2>1
  <2>3. g[i + 1] = IF u[i + 1].type = "text" THEN g[(i + 1) - 1] \o u[i + 1].text ELSE g[(i + 1) - 1]
    BY <1>1, <2>2 DEF Fed
  <2> QED BY <2>1, <2>2, <2>3
<1> DEFINE from == IF u[1].type = "text" THEN a \o u[1].text ELSE a
<1> HIDE DEF from
<1>7. k[0] = from
  BY <1>5 DEF from
<1>8. Fed(k, w, from, b)
  BY <1>4, <1>5, <1>6, <1>7 DEF Fed
<1>9. Feeds(w, from, b)
  BY <1>8 DEF Feeds
<1> QED BY <1>9 DEF from, w

LEMMA FeedsNothing ==
  ASSUME NEW u \in Seq(Message), Len(u) = 1, u[1].type # "text", NEW a, NEW b, Feeds(u, a, b)
  PROVE  a = b
<1>1. PICK g : Fed(g, u, a, b)
  BY DEF Feeds
<1>2. 1 \in 1..Len(u)
  OBVIOUS
<1>3. g[1] = g[1 - 1] /\ g[1 - 1] = a /\ g[1] = b
  BY <1>1, <1>2 DEF Fed
<1> QED BY <1>3

LEMMA FeedsOne ==
  ASSUME NEW m \in Message, m.type = "text", NEW t \in Text
  PROVE  Feeds(<<m>>, t, t \o m.text)
<1> DEFINE u == <<m>>
           g == [i \in 0..Len(u) |-> IF i = 0 THEN t ELSE t \o m.text]
<1>1. u \in Seq(Message) /\ Len(u) = 1 /\ u[1] = m
  OBVIOUS
<1>2. t \o m.text \in Text
  BY DEF Message, Text
<1> HIDE DEF u
<1>3. g \in [0..Len(u) -> Text] /\ g[0] = t /\ g[Len(u)] = t \o m.text
  BY <1>1, <1>2
<1>4. ASSUME NEW i \in 1..Len(u) PROVE i = 1 /\ g[i] = t \o m.text /\ g[i - 1] = t /\ u[i] = m
  <2>1. i = 1 /\ 1 \in 0..Len(u) /\ 0 \in 0..Len(u) /\ 1 - 1 = 0
    BY <1>1
  <2> QED BY <1>1, <2>1
<1> HIDE DEF g
<1>5. Fed(g, u, t, t \o m.text)
  BY <1>3, <1>4 DEF Fed
<1> QED BY <1>5 DEF Feeds, u

\* The lines of a successful publication bring the text to the answer.
LEMMA FeedsAnswer ==
  ASSUME NEW rest \in Seq(Message), NEW msgs \in Seq(Message), NEW answer \in Text, NEW fresh,
         WebTurnTypeOK, Published(rest, answer, fresh, msgs), work'.pc = "finished",
         \A i \in 1..Len(msgs) : msgs[i].type = "final_candidate"
  PROVE  Feeds(rest, work.published, answer)
<1> DEFINE n == Len(msgs)
           g == [i \in 0..Len(rest) |-> IF i <= n THEN work.published ELSE answer]
<1>0. n \in Nat /\ Len(rest) \in Nat /\ n < Len(rest) /\ work.published \in Text
  BY DEF Published, WebTurnTypeOK, Work
<1>1. /\ \A i \in 1..Len(rest) : i <= n => rest[i].type = "final_candidate"
      /\ \A i \in 1..Len(rest) : i > n /\ i < Len(rest) =>
            rest[i].type = "text" /\ i = n + 1 /\ work.published \o rest[i].text = answer
      /\ rest[Len(rest)].type = "result"
      /\ Len(rest) = n + 1 => work.published = answer
  <2>1. ASSUME NEW i \in 1..Len(rest), i <= n PROVE rest[i].type = "final_candidate"
    <3>1. i \in 1..Len(msgs)
      BY <1>0, <2>1
    <3> QED BY <3>1 DEF Published
  <2> QED BY <2>1 DEF Published
<1> HIDE DEF n
<1>2. g \in [0..Len(rest) -> Text] /\ g[0] = work.published /\ g[Len(rest)] = answer
  BY <1>0
<1>3. ASSUME NEW i \in 1..Len(rest)
      PROVE  g[i] = IF rest[i].type = "text" THEN g[i - 1] \o rest[i].text ELSE g[i - 1]
  <2>0. /\ i \in 0..Len(rest) /\ i - 1 \in 0..Len(rest)
        /\ g[i] = (IF i <= n THEN work.published ELSE answer)
        /\ g[i - 1] = (IF i - 1 <= n THEN work.published ELSE answer)
    BY <1>0
  <2>1. CASE i <= n
    <3>1. i - 1 <= n
      BY <1>0, <2>1
    <3> QED BY <1>1, <2>0, <2>1, <3>1
  <2>2. CASE i > n /\ i < Len(rest)
    <3>0. i = n + 1
      BY <1>1, <2>2
    <3>1. i - 1 <= n /\ ~(i <= n)
      BY <1>0, <3>0
    <3> QED BY <1>1, <2>0, <2>2, <3>1
  <2>3. CASE i = Len(rest)
    <3>1. ~(i <= n) /\ (i - 1 <= n => Len(rest) = n + 1)
      BY <1>0, <2>3
    <3>2. rest[i].type # "text"
      BY <1>1, <2>3
    <3> QED BY <1>1, <2>0, <3>1, <3>2
  <2> QED BY <1>0, <2>1, <2>2, <2>3
<1> HIDE DEF g
<1>4. Fed(g, rest, work.published, answer)
  BY <1>2, <1>3 DEF Fed
<1> QED BY <1>4 DEF Feeds

-----------------------------------------------------------------------------
(* The fence that was granted, and the revisions that are held.              *)

FenceInv == KeptInv /\ GrantKept /\ HeldKept /\ OutcomeKept

Holds(rev) ==
  /\ rev # NoRev
  /\ \/ rev = work.fence
     \/ reply.type = "begin" /\ rev = reply.rev
     \/ \E i \in 1..Len(up) : up[i].type = "commit" /\ up[i].rev = rev
Granted == reply.type = "commit" /\ reply.ok
Returned == \E i \in 1..Len(up) : up[i].type = "result"
Beginning == work.pc = "wire_begin" /\ \E i \in 1..Len(up) : up[i].type = "begin"

LEMMA HeldMeans ==
  ASSUME NEW rev
  PROVE  (rev \in HeldFences <=> Holds(rev)) /\ (rev \in HeldFences' <=> Holds(rev)')
BY DEF HeldFences, Holds

\* The two properties in these terms, in a state and in the next one.
LEMMA GrantMeans ==
  ASSUME GrantKept, HeldKept, ~sess.aborted, work.pc # "failed"
  PROVE  /\ Granted \/ Returned => IsTerminal(auth) \/ auth.fenceCommitted
         /\ broker.committed # NoRev => work.pc = "finished" \/ Granted
         /\ broker.committed = NoRev => \A rev : Holds(rev) =>
               /\ rev <= broker.rev
               /\ broker.rev = rev => Quiet(broker) /\ (IsTerminal(auth) \/ auth.fence = rev \/ Beginning)
BY HeldMeans DEF GrantKept, HeldKept, Granted, Returned, Beginning

LEMMA GrantNext ==
  ASSUME ~sess'.aborted /\ work'.pc # "failed" =>
            /\ Granted' \/ Returned' => IsTerminal(auth') \/ auth'.fenceCommitted
            /\ broker'.committed # NoRev => work'.pc = "finished" \/ Granted'
            /\ broker'.committed = NoRev => \A rev : Holds(rev)' =>
                  /\ rev <= broker'.rev
                  /\ broker'.rev = rev =>
                        Quiet(broker') /\ (IsTerminal(auth') \/ auth'.fence = rev \/ Beginning')
  PROVE  GrantKept' /\ HeldKept'
<1>1. GrantKept'
  BY DEF GrantKept, Granted, Returned
<1>2. HeldKept'
  <2> SUFFICES ASSUME ~sess'.aborted /\ work'.pc # "failed" /\ broker'.committed = NoRev, NEW rev \in HeldFences'
               PROVE  /\ rev <= broker'.rev
                      /\ broker'.rev = rev =>
                            Quiet(broker') /\ (IsTerminal(auth') \/ auth'.fence = rev \/ Beginning')
    BY DEF HeldKept, Beginning
  <2>1. Holds(rev)'
    BY HeldMeans
  <2> QED BY <2>1
<1> QED BY <1>1, <1>2

\* What the worker posts on its way to the outcome: it asks to commit only what it holds.
Carries(m) ==
  /\ m.type \notin {"result", "error"} /\ (m.type = "text" => PublishDelta)
  /\ m.type = "commit" => m.rev = work.fence \/ (reply.type = "begin" /\ m.rev = reply.rev)
Posts == \E rest \in Seq(Message) : up' = up \o rest /\ \A i \in 1..Len(rest) : Carries(rest[i])

LEMMA PostsNone == ASSUME WebTurnTypeOK, UNCHANGED up PROVE Posts
<1>1. PICK rest \in Seq(Message) : up' = up \o rest /\ Len(rest) = 0
  BY PostNothing
<1>2. \A i \in 1..Len(rest) : FALSE
  BY <1>1
<1> QED BY <1>1, <1>2 DEF Posts

LEMMA PostsOne == ASSUME NEW m \in Message, Carries(m), Post(<<m>>) PROVE Posts
<1> DEFINE rest == <<m>>
<1>1. rest \in Seq(Message) /\ Len(rest) = 1 /\ rest[1] = m /\ up' = up \o rest
  BY DEF Post
<1> HIDE DEF rest
<1>2. \A i \in 1..Len(rest) : rest[i] = m
  BY <1>1
<1> QED BY <1>1, <1>2 DEF Posts

LEMMA PostsTwo ==
  ASSUME NEW m \in Message, NEW n \in Message, Carries(m), Carries(n), Post(<<m, n>>) PROVE Posts
<1> DEFINE rest == <<m, n>>
<1>1. rest \in Seq(Message) /\ up' = up \o rest /\ \A i \in 1..Len(rest) : rest[i] = m \/ rest[i] = n
  BY DEF Post
<1> HIDE DEF rest
<1> QED BY <1>1 DEF Posts

\* A step of the worker that neither ends its turn nor only reads a progress frame.
Concludes == WorkerFails \/ (Granted /\ (WireFenceDecided \/ DomFenceDecided))
LEMMA WorkerPosts ==
  ASSUME WebTurnTypeOK, Worker, ~ReceiveProgress, ~Concludes
  PROVE  /\ Posts /\ work'.pc \notin {"finished", "failed"}
         /\ UNCHANGED reply \/ (reply'.type = "none" /\ ~Granted)
         /\ work'.fence \in {work.fence, NoRev} \/ (reply.type = "begin" /\ work'.fence = reply.rev)
         /\ work'.fresh = work.fresh /\ (work'.pc = "dom_commit" => CommitDomFence)
         /\ work'.published = work.published \/ PublishDelta
<1> DEFINE Settled == /\ work'.pc \notin {"finished", "failed"}
                      /\ UNCHANGED reply \/ (reply'.type = "none" /\ ~Granted)
                      /\ work'.fence \in {work.fence, NoRev} \/ (reply.type = "begin" /\ work'.fence = reply.rev)
                      /\ work'.fresh = work.fresh /\ (work'.pc = "dom_commit" => CommitDomFence)
                      /\ work'.published = work.published \/ PublishDelta
<1> USE KindsOfLines, MessageTypes, FrameTypes DEF Carries
<1>1. CASE ActivateSend
  <2>1. Settled
    BY <1>1 DEF ActivateSend, WebTurnTypeOK, Work
  <2>2. Posts
    BY <1>1, PostsOne DEF ActivateSend
  <2> QED BY <2>1, <2>2
<1>2. CASE PressSend
  <2>1. Settled
    BY <1>2 DEF PressSend, WebTurnTypeOK, Work, NoReply, Granted
  <2> QED BY <1>2, <2>1, PostsNone DEF PressSend
<1>3. CASE AcceptSubmission
  <2>1. Settled
    BY <1>3 DEF AcceptSubmission, WebTurnTypeOK, Work
  <2>2. Posts
    BY <1>3, PostsOne DEF AcceptSubmission
  <2> QED BY <2>1, <2>2
<1>4. CASE ObserveBoundary
  <2>1. Settled
    BY <1>4 DEF ObserveBoundary, Watching, WebTurnTypeOK, Work
  <2>2. mirror.batch \in Rev
    BY DEF WebTurnTypeOK, Mirror, Rev
  <2> DEFINE first == Numbered("observed", mirror.batch)
             second == Fact("tool_boundary_observed", mirror.batch, NoText, "none")
  <2>3. first \in Message /\ second \in Message /\ Post(<<first, second>>)
        /\ first.type = "observed" /\ second.type = "tool_boundary_observed"
    BY <1>4, <2>2 DEF ObserveBoundary
  <2> HIDE DEF first, second
  <2>4. Posts
    BY <2>3, PostsTwo
  <2> QED BY <2>1, <2>4
<1>5. CASE PublishDelta
  <2>1. Settled
    BY <1>5 DEF PublishDelta, At, WebTurnTypeOK, Work
  <2> DEFINE m == Msg("text", NoRev, SubSeq(chat.dom, Len(work.published) + 1, Len(chat.dom)), "dom")
  <2>2. m \in Message /\ m.type = "text" /\ Post(<<m>>)
    <3>1. chat.dom \in Text /\ work.published \in Text /\ Extends(chat.dom, work.published)
      BY <1>5, TextOfPage DEF PublishDelta, WebTurnTypeOK, Page, Work
    <3> QED BY <1>5, <3>1, MissingText DEF PublishDelta
  <2> HIDE DEF m
  <2>3. Posts
    BY <1>5, <2>2, PostsOne
  <2> QED BY <2>1, <2>3
<1>6. CASE OfferWire
  <2>1. Settled
    BY <1>6 DEF OfferWire, WebTurnTypeOK, Work
  <2> DEFINE first == Fact("final_candidate", NoRev, Wire, "wire")
             second == Signal("begin")
  <2>2. first \in Message /\ second \in Message /\ Post(<<first, second>>)
        /\ first.type = "final_candidate" /\ second.type = "begin"
    BY <1>6, WireText DEF OfferWire
  <2> HIDE DEF first, second
  <2>3. Posts
    BY <2>2, PostsTwo
  <2> QED BY <2>1, <2>3
<1>7. CASE WireFenceBegun
  <2>1. Settled
    BY <1>7 DEF WireFenceBegun, WebTurnTypeOK, Work, NoReply, Granted
  <2>2. reply.rev \in Rev /\ reply.type = "begin"
    BY <1>7 DEF WireFenceBegun, WebTurnTypeOK, Answer
  <2>3. Posts
    <3>1. CASE Post(<<Numbered("commit", reply.rev)>>)
      BY <2>2, <3>1, PostsOne
    <3>2. CASE UNCHANGED up
      BY <3>2, PostsNone
    <3> QED BY <1>7, <3>1, <3>2 DEF WireFenceBegun
  <2> QED BY <2>1, <2>3
<1>8. CASE WireFenceDecided
  <2>1. work' = [work EXCEPT !.pc = "loop"] /\ UNCHANGED up /\ reply' = NoReply
    BY <1>8 DEF WireFenceDecided, Concludes, Granted
  <2>2. Settled
    BY <1>8, <2>1 DEF WebTurnTypeOK, Work, NoReply, Concludes
  <2> QED BY <2>1, <2>2, PostsNone
<1>9. CASE BeginDomFence
  <2>1. Settled
    BY <1>9 DEF BeginDomFence, WebTurnTypeOK, Work
  <2>2. Posts
    BY <1>9, PostsOne DEF BeginDomFence
  <2> QED BY <2>1, <2>2
<1>10. CASE DomFenceBegun
  <2>1. Settled
    BY <1>10 DEF DomFenceBegun, WebTurnTypeOK, Work, NoReply, Granted
  <2> QED BY <1>10, <2>1, PostsNone DEF DomFenceBegun
<1>11. CASE DropDomFence
  <2>1. Settled
    BY <1>11 DEF DropDomFence, DomPath, At, WebTurnTypeOK, Work
  <2> QED BY <1>11, <2>1, PostsNone DEF DropDomFence
<1>12. CASE CommitDomFence
  <2>1. Settled
    BY <1>12 DEF CommitDomFence, WebTurnTypeOK, Work
  <2>2. Posts
    <3>1. work.fence \in Rev
      BY DEF WebTurnTypeOK, Work
    <3> QED BY <1>12, <3>1, PostsOne DEF CommitDomFence
  <2> QED BY <2>1, <2>2
<1>13. CASE DomFenceDecided
  <2>1. work' = [work EXCEPT !.pc = "loop", !.fence = NoRev] /\ UNCHANGED up /\ reply' = NoReply
    BY <1>13 DEF DomFenceDecided, Concludes, Granted
  <2>2. Settled
    BY <1>13, <2>1 DEF WebTurnTypeOK, Work, NoReply, Concludes
  <2> QED BY <2>1, <2>2, PostsNone
<1>14. CASE ContinueAfterStop
  <2>1. Settled
    BY <1>14 DEF ContinueAfterStop, DomPath, At, WebTurnTypeOK, Work
  <2> QED BY <1>14, <2>1, PostsNone DEF ContinueAfterStop
<1>15. CASE RebindPage
  <2>1. Settled
    BY <1>15 DEF RebindPage, Watching, WebTurnTypeOK, Work
  <2> DEFINE m == [Signal("browser_rebound") EXCEPT !.epoch = work.epoch + 1]
  <2>2. m \in Message /\ m.type = "browser_rebound" /\ Post(<<m>>)
    <3>1. \A x \in Message, n \in Nat :
             [x EXCEPT !.epoch = n] \in Message /\ [x EXCEPT !.epoch = n].type = x.type
      BY DEF Message
    <3>2. Signal("browser_rebound") \in Message /\ Signal("browser_rebound").type = "browser_rebound"
          /\ work.epoch + 1 \in Nat
      BY DEF WebTurnTypeOK, Work
    <3> QED BY <1>15, <3>1, <3>2 DEF RebindPage
  <2> HIDE DEF m
  <2>3. Posts
    BY <1>5, <2>2, PostsOne
  <2> QED BY <2>1, <2>3
<1> QED BY <1>1, <1>2, <1>3, <1>4, <1>5, <1>6, <1>7, <1>8, <1>9, <1>10, <1>11, <1>12, <1>13, <1>14, <1>15
        DEF Worker, Concludes

\* The step that publishes the answer leaves nothing to ask for.
LEMMA WorkerConcludes ==
  ASSUME WebTurnTypeOK, Worker, ~WorkerFails, Granted, WireFenceDecided \/ DomFenceDecided
  PROVE  /\ work'.fence = NoRev /\ reply'.type = "none" /\ work'.pc \in {"finished", "failed"}
         /\ work.fresh /\ (work.pc = "dom_commit" => Len(chat.dom) > chat.after) => work'.fresh
         /\ \E rest \in Seq(Message) :
               /\ up' = up \o rest
               /\ \A i \in 1..Len(rest) : rest[i].type \notin Asking
               /\ work'.pc = "finished" => Feeds(rest, work.published, work'.published)
<1>0. reply' = NoReply
  BY DEF WireFenceDecided, DomFenceDecided
<1>1. ASSUME NEW answer \in Text, NEW source \in {"wire", "dom"}, NEW fresh \in BOOLEAN,
             NEW msgs \in Seq(Message), \A i \in 1..Len(msgs) : msgs[i].type = "final_candidate",
             Publish(answer, source, fresh, msgs)
      PROVE  /\ work'.fence = NoRev /\ work'.pc \in {"finished", "failed"}
             /\ (fresh /\ work.fresh => work'.fresh)
             /\ \E rest \in Seq(Message) :
                   /\ up' = up \o rest
                   /\ \A i \in 1..Len(rest) : rest[i].type \notin Asking
                   /\ work'.pc = "finished" => Feeds(rest, work.published, work'.published)
  <2>1. PICK rest \in Seq(Message) : Published(rest, answer, fresh, msgs)
    BY <1>1, PublishFacts
  <2>2. ASSUME NEW i \in 1..Len(rest) PROVE rest[i].type \notin Asking
    <3>1. Len(msgs) \in Nat /\ Len(rest) \in Nat
      OBVIOUS
    <3>2. CASE i <= Len(msgs)
      <4>1. i \in 1..Len(msgs)
        BY <3>1, <3>2
      <4> QED BY <1>1, <2>1, <4>1 DEF Published, Asking
    <3>3. CASE i > Len(msgs) /\ i < Len(rest)
      BY <2>1, <3>3 DEF Published, Asking
    <3>4. CASE i = Len(rest)
      BY <2>1, <3>4 DEF Published, Asking
    <3> QED BY <3>1, <3>2, <3>3, <3>4
  <2>3. /\ up' = up \o rest /\ work'.fence = NoRev /\ work'.pc \in {"finished", "failed"}
        /\ (fresh /\ work.fresh => work'.fresh)
    BY <2>1 DEF Published
  <2>4. ASSUME work'.pc = "finished" PROVE Feeds(rest, work.published, work'.published)
    <3>1. Feeds(rest, work.published, answer)
      BY <1>1, <2>1, <2>4, FeedsAnswer
    <3>2. work'.published = answer
      BY <2>1, <2>4 DEF Published
    <3> QED BY <3>1, <3>2
  <2> QED BY <2>2, <2>3, <2>4
<1>2. CASE WireFenceDecided
  <2> DEFINE msgs == <<>>
  <2>1. Publish(work.offer, "wire", TRUE, msgs) \/ ~reply.ok
    BY <1>2 DEF WireFenceDecided
  <2>2. msgs \in Seq(Message) /\ Len(msgs) = 0
    OBVIOUS
  <2> HIDE DEF msgs
  <2>3. \A i \in 1..Len(msgs) : msgs[i].type = "final_candidate"
    BY <2>2
  <2>4. work.offer \in Text /\ reply.ok
    BY DEF WebTurnTypeOK, Work, Granted
  <2> QED BY <1>0, <1>1, <2>1, <2>2, <2>3, <2>4 DEF NoReply
<1>3. CASE DomFenceDecided
  <2> DEFINE final == IF Wire # NoText THEN Wire ELSE chat.dom
             source == IF final = chat.dom THEN "dom" ELSE "wire"
             msgs == <<Fact("final_candidate", NoRev, final, source)>>
             fresh == Len(chat.dom) > chat.after
  <2>1. Publish(final, source, fresh, msgs) /\ work.pc = "dom_commit"
    BY <1>3 DEF DomFenceDecided, Granted, At
  <2>0. Len(chat.dom) > chat.after => fresh
    OBVIOUS
  <2>2. final \in Text /\ source \in {"wire", "dom"} /\ fresh \in BOOLEAN
    <3>1. Wire \in Text /\ chat.dom \in Text
      BY WireText, TextOfPage DEF WebTurnTypeOK, Page
    <3> QED BY <3>1
  <2> HIDE DEF final, source, fresh
  <2>3. msgs \in Seq(Message) /\ \A i \in 1..Len(msgs) : msgs[i].type = "final_candidate"
    <3> DEFINE m == Fact("final_candidate", NoRev, final, source)
    <3>1. m \in Message /\ m.type = "final_candidate"
      BY <2>2, MessageTypes, KindsOfLines
    <3> HIDE DEF m
    <3>2. <<m>> \in Seq(Message) /\ \A i \in 1..Len(<<m>>) : <<m>>[i].type = "final_candidate"
      BY <3>1
    <3> QED BY <3>2 DEF m
  <2> HIDE DEF msgs
  <2> QED BY <1>0, <1>1, <2>0, <2>1, <2>2, <2>3 DEF NoReply
<1> QED BY <1>2, <1>3

LEMMA WorkerFence == ASSUME FenceInv, Worker PROVE GrantKept' /\ HeldKept' /\ OutcomeKept'
<1>0. /\ PipeInv /\ WebTurnTypeOK /\ UNCHANGED <<auth, broker, sess>> /\ GrantKept /\ HeldKept
  BY WorkerIsApart DEF FenceInv, KeptInv, PipeInv, PageInv, BatchInv, QuietInv
<1>1. OutcomeKept'
  BY <1>0 DEF FenceInv, OutcomeKept
<1>2. CASE WorkerFails
  <2>1. work'.pc = "failed"
    BY <1>0, <1>2 DEF WorkerFails, WebTurnTypeOK, Work
  <2> QED BY <1>1, <2>1, GrantNext
<1>3. CASE ReceiveProgress
  <2>1. UNCHANGED <<work, up, reply, auth, broker, sess>>
    BY <1>0, <1>3 DEF ReceiveProgress
  <2> QED BY <1>1, <2>1 DEF FenceInv, GrantKept, HeldKept, HeldFences
<1>4. CASE ~WorkerFails /\ ~ReceiveProgress
  <2>1. Watched /\ (Awaits(work.pc) = "nothing" \/ reply.type # "none")
    BY <1>4 DEF Worker, ActivateSend, PressSend, AcceptSubmission, ObserveBoundary, PublishDelta,
           OfferWire, WireFenceBegun, WireFenceDecided, BeginDomFence, DomFenceBegun, DropDomFence,
           CommitDomFence, DomFenceDecided, ContinueAfterStop, RebindPage, DomPath, Watching, At, Watched, Awaits
  <2>2. AllPlain /\ up \in Seq(Message) /\ work.pc \notin {"finished", "failed"}
    BY <1>0, <2>1, PlainPipe DEF Watched, WebTurnTypeOK
  <2>3. ~Beginning /\ \A i \in 1..Len(up) : up[i].type \notin Asking /\ up[i].type # "result"
    BY <2>2 DEF AllPlain, Plain, Beginning, Asking
  <2>4. CASE Concludes
    <3>1. Granted /\ (WireFenceDecided \/ DomFenceDecided)
      BY <1>4, <2>4 DEF Concludes
    <3>2. PICK rest \in Seq(Message) : up' = up \o rest /\ \A i \in 1..Len(rest) : rest[i].type \notin Asking
      BY <1>0, <1>4, <3>1, WorkerConcludes
    <3>3. work'.fence = NoRev /\ reply'.type = "none" /\ work'.pc \in {"finished", "failed"}
      BY <1>0, <1>4, <3>1, WorkerConcludes
    <3>4. ASSUME NEW rev PROVE ~Holds(rev)'
      <4>1. ASSUME NEW i \in 1..Len(up') PROVE up'[i].type \notin Asking
        <5>1. \/ i <= Len(up) /\ up'[i] = up[i]
              \/ i - Len(up) \in 1..Len(rest) /\ up'[i] = rest[i - Len(up)]
          BY <2>2, <3>2, PostFacts
        <5>2. i <= Len(up) => i \in 1..Len(up)
          BY <2>2
        <5> QED BY <2>3, <3>2, <5>1, <5>2
      <4> QED BY <3>3, <4>1 DEF Holds, Asking
    <3>5. ~sess'.aborted => IsTerminal(auth') \/ auth'.fenceCommitted
      BY <1>0, <2>2, <3>1, GrantMeans
    <3> QED BY <1>1, <3>3, <3>4, <3>5, GrantNext
  <2>5. CASE ~Concludes
    <3>1. /\ work'.pc \notin {"finished", "failed"}
          /\ UNCHANGED reply \/ (reply'.type = "none" /\ ~Granted)
          /\ work'.fence \in {work.fence, NoRev} \/ (reply.type = "begin" /\ work'.fence = reply.rev)
      BY <1>0, <1>4, <2>5, WorkerPosts
    <3>2. PICK rest \in Seq(Message) : up' = up \o rest /\ \A i \in 1..Len(rest) : Carries(rest[i])
      BY <1>0, <1>4, <2>5, WorkerPosts DEF Posts
    <3>3. ASSUME NEW i \in 1..Len(up')
          PROVE  /\ up'[i].type # "result"
                 /\ up'[i].type = "commit" =>
                       up'[i].rev = work.fence \/ (reply.type = "begin" /\ up'[i].rev = reply.rev)
      <4>1. \/ i <= Len(up) /\ up'[i] = up[i]
            \/ i - Len(up) \in 1..Len(rest) /\ up'[i] = rest[i - Len(up)]
        BY <2>2, <3>2, PostFacts
      <4>2. CASE i <= Len(up) /\ up'[i] = up[i]
        <5>1. i \in 1..Len(up)
          BY <2>2, <4>2
        <5> QED BY <2>3, <4>2, <5>1 DEF Asking
      <4>3. CASE i - Len(up) \in 1..Len(rest) /\ up'[i] = rest[i - Len(up)]
        BY <3>2, <4>3 DEF Carries
      <4> QED BY <4>1, <4>2, <4>3
    <3>4. ASSUME NEW rev, Holds(rev)' PROVE Holds(rev)
      BY <3>1, <3>3, <3>4 DEF Holds
    <3>5. ~Returned' /\ (Granted' => Granted) /\ (Granted => Granted')
      BY <3>1, <3>3 DEF Returned, Granted
    <3>6. ASSUME ~sess.aborted
          PROVE  /\ Granted => IsTerminal(auth) \/ auth.fenceCommitted
                 /\ broker.committed # NoRev => Granted
                 /\ broker.committed = NoRev => \A rev : Holds(rev) =>
                       /\ rev <= broker.rev
                       /\ broker.rev = rev => Quiet(broker) /\ (IsTerminal(auth) \/ auth.fence = rev)
      BY <1>0, <2>2, <2>3, <3>6, GrantMeans
    <3>7. UNCHANGED <<auth, broker, sess>>
      BY <1>0
    <3> HIDE DEF Holds, Granted, Returned, Beginning
    <3>8. ASSUME ~sess'.aborted
          PROVE  /\ Granted' \/ Returned' => IsTerminal(auth') \/ auth'.fenceCommitted
                 /\ broker'.committed # NoRev => Granted'
                 /\ broker'.committed = NoRev => \A rev : Holds(rev)' =>
                       /\ rev <= broker'.rev
                       /\ broker'.rev = rev => Quiet(broker') /\ (IsTerminal(auth') \/ auth'.fence = rev)
      BY <3>4, <3>5, <3>6, <3>7, <3>8
    <3> QED BY <1>1, <3>8, GrantNext
  <2> QED BY <2>4, <2>5
<1> QED BY <1>2, <1>3, <1>4

\* What is left of the pipe once a line has been read.
LEMMA TailOfPipe ==
  ASSUME FenceInv, Daemon
  PROVE  /\ WebTurnTypeOK /\ up # <<>> /\ Line = up[1] /\ UNCHANGED <<chat, work>>
         /\ Len(up) \in Nat \ {0} /\ 1 \in 1..Len(up) /\ Len(up') = Len(up) - 1
         /\ \A i \in 1..Len(up') : i + 1 \in 1..Len(up) /\ up'[i] = up[i + 1]
         /\ \A i \in 1..Len(up) : i = 1 \/ (i - 1 \in 1..Len(up') /\ up'[i - 1] = up[i])
         /\ LineInPlace(1) /\ WorkerInPlace /\ sess.outcome = "pending"
         /\ broker'.st = broker.st /\ broker'.rev = broker.rev
         /\ Line.rev \in Rev /\ Line.text \in Text /\ Line.epoch \in Nat /\ Line.source \in {"none", "wire", "dom"}
<1>1. WebTurnTypeOK /\ up # <<>> /\ up' = Tail(up) /\ UNCHANGED <<chat, work>> /\ Line = up[1]
  BY DaemonConsumes DEF Line, FenceInv, KeptInv, PipeInv, PageInv, BatchInv, QuietInv
<1>2. /\ Len(up) \in Nat \ {0} /\ Len(Tail(up)) = Len(up) - 1
      /\ \A i \in 1..Len(Tail(up)) : i + 1 \in 1..Len(up) /\ Tail(up)[i] = up[i + 1]
      /\ Line.rev \in Rev /\ Line.text \in Text /\ Line.epoch \in Nat /\ Line.source \in {"none", "wire", "dom"}
  BY <1>1, LineFacts
<1>3. 1 \in 1..Len(up)
  BY <1>2
<1>4. LineInPlace(1) /\ WorkerInPlace /\ sess.outcome = "pending"
  BY <1>1, <1>3 DEF FenceInv, KeptInv, PipeInv, PipeOrdered, WorkerInPlace
<1>5. broker'.st = broker.st /\ broker'.rev = broker.rev
  BY <1>1, DaemonLeaves
<1>6. ASSUME NEW i \in 1..Len(up), i # 1 PROVE i - 1 \in 1..Len(up') /\ up'[i - 1] = up[i]
  <2>1. i - 1 \in 1..Len(Tail(up)) /\ (i - 1) + 1 = i
    BY <1>2, <1>6
  <2> QED BY <1>1, <1>2, <2>1
<1> QED BY <1>1, <1>2, <1>3, <1>4, <1>5, <1>6

\* A line that is neither a request for the fence nor the outcome.
LEMMA PlainLine ==
  ASSUME FenceInv, Daemon, Line.type \notin {"begin", "commit", "result", "error"}, UNCHANGED broker,
         UNCHANGED reply \/ (reply.type = "none" /\ reply'.type = "send_activated"),
         IsTerminal(auth) => IsTerminal(auth'),
         auth.fenceCommitted => IsTerminal(auth') \/ auth'.fenceCommitted,
         ~sess'.aborted /\ work.pc # "failed" =>
            \/ auth'.fence = auth.fence \/ IsTerminal(auth')
            \/ Beginning' \/ \A rev : ~Holds(rev)'
  PROVE  GrantKept' /\ HeldKept'
<1>0. /\ up # <<>> /\ UNCHANGED work /\ Line = up[1]
      /\ \A i \in 1..Len(up') : i + 1 \in 1..Len(up) /\ up'[i] = up[i + 1]
      /\ \A i \in 1..Len(up) : i = 1 \/ (i - 1 \in 1..Len(up') /\ up'[i - 1] = up[i])
      /\ (sess.aborted => sess'.aborted) /\ GrantKept /\ HeldKept
  BY TailOfPipe, DaemonLeaves DEF FenceInv
<1>1. ASSUME NEW rev, Holds(rev)' PROVE Holds(rev)
  <2>1. CASE \E i \in 1..Len(up') : up'[i].type = "commit" /\ up'[i].rev = rev
    BY <1>0, <1>1, <2>1 DEF Holds
  <2>2. CASE ~\E i \in 1..Len(up') : up'[i].type = "commit" /\ up'[i].rev = rev
    BY <1>0, <1>1, <2>2 DEF Holds
  <2> QED BY <2>1, <2>2
<1>2. (Granted <=> Granted') /\ (Returned' => Returned) /\ (Beginning => Beginning')
  <2>1. Granted <=> Granted'
    BY DEF Granted
  <2>2. Returned' => Returned
    BY <1>0 DEF Returned
  <2>3. Beginning => Beginning'
    <3> SUFFICES ASSUME work.pc = "wire_begin", NEW i \in 1..Len(up), up[i].type = "begin" PROVE Beginning'
      BY DEF Beginning
    <3>1. i - 1 \in 1..Len(up') /\ up'[i - 1].type = "begin"
      BY <1>0
    <3> QED BY <1>0, <3>1 DEF Beginning
  <2> QED BY <2>1, <2>2, <2>3
<1>3. ASSUME ~sess'.aborted, work'.pc # "failed"
      PROVE  /\ Granted \/ Returned => IsTerminal(auth) \/ auth.fenceCommitted
             /\ broker.committed # NoRev => work.pc = "finished" \/ Granted
             /\ broker.committed = NoRev => \A rev : Holds(rev) =>
                   /\ rev <= broker.rev
                   /\ broker.rev = rev => Quiet(broker) /\ (IsTerminal(auth) \/ auth.fence = rev \/ Beginning)
  BY <1>0, <1>3, GrantMeans
<1> HIDE DEF Holds, Granted, Returned, Beginning
<1>4. ASSUME ~sess'.aborted, work'.pc # "failed"
      PROVE  /\ Granted' \/ Returned' => IsTerminal(auth') \/ auth'.fenceCommitted
             /\ broker'.committed # NoRev => work'.pc = "finished" \/ Granted'
  BY <1>0, <1>2, <1>3, <1>4
<1>5. ASSUME ~sess'.aborted, work'.pc # "failed", broker'.committed = NoRev, NEW rev, Holds(rev)'
      PROVE  /\ rev <= broker'.rev
             /\ broker'.rev = rev => Quiet(broker') /\ (IsTerminal(auth') \/ auth'.fence = rev \/ Beginning')
  BY <1>0, <1>1, <1>2, <1>3, <1>5
<1> QED BY <1>4, <1>5, GrantNext

LEMMA WaitsForAnswer ==
  ASSUME NEW pc \in Place
  PROVE  /\ Awaits(pc) = "commit" => pc \in {"wire_commit", "dom_commit"}
         /\ Awaits(pc) = "begin" => pc \in {"wire_begin", "dom_begin"}
BY DEF Awaits, Place

\* The commit of a revision the worker holds is the authority's fence.
LEMMA CommitFence == ASSUME FenceInv, Daemon, HandleCommit PROVE GrantKept' /\ HeldKept'
<1> SUFFICES ASSUME ~sess'.aborted, work'.pc # "failed" PROVE GrantKept' /\ HeldKept'
  BY GrantNext
<1>0. /\ WebTurnTypeOK /\ auth \in Authority /\ UNCHANGED work /\ Line = up[1] /\ Line.type = "commit" /\ LineInPlace(1)
      /\ Len(up) \in Nat \ {0} /\ Len(up') = Len(up) - 1 /\ 1 \in 1..Len(up)
      /\ broker'.st = broker.st /\ broker'.rev = broker.rev /\ Line.rev \in Rev
      /\ ~sess.aborted /\ GrantKept /\ HeldKept
  <2>1. Line.type = "commit"
    BY DEF HandleCommit, Arrives, Line
  <2> QED BY <2>1, TailOfPipe, DaemonLeaves DEF FenceInv, WebTurnTypeOK
<1>1. Len(up) = 1 /\ work.pc \in {"wire_commit", "dom_commit"} /\ reply.type = "none" /\ Len(up') = 0
  <2>1. work.pc \in Place
    BY <1>0 DEF WebTurnTypeOK, Work
  <2>2. 1 = Len(up) /\ Awaits(work.pc) = "commit" /\ reply.type = "none"
    BY <1>0 DEF LineInPlace, Asking
  <2>3. Len(up') = 0
    <3>1. Len(up) = 1
      BY <2>2
    <3>2. Len(up') = Len(up) - 1
      BY <1>0
    <3> QED BY <3>1, <3>2
  <2> QED BY <2>1, <2>2, <2>3, WaitsForAnswer
<1>2. broker.committed = NoRev
  BY <1>0, <1>1, GrantMeans DEF Granted
<1>3. ASSUME NEW rev, Holds(rev)
      PROVE  /\ rev <= broker.rev
             /\ broker.rev = rev => Quiet(broker) /\ (IsTerminal(auth) \/ auth.fence = rev)
  BY <1>0, <1>1, <1>2, <1>3, GrantMeans DEF Beginning
<1>4. Line.rev # NoRev => Holds(Line.rev)
  BY <1>0 DEF Holds
<1> DEFINE committed == Quiet(broker) /\ broker.rev = Line.rev
<1>5. /\ broker' = IF committed THEN [broker EXCEPT !.committed = Line.rev] ELSE broker
      /\ auth' = FenceDecided(auth, Line.rev, committed)
      /\ reply' = Reply("commit", Line.rev, committed)
  <2>1. sess' # Broken(sess)
    BY <1>0 DEF Broken, WebTurnTypeOK, Session
  <2> QED BY <1>0, <1>2, <2>1 DEF HandleCommit
<1>6. ~Returned'
  BY <1>1 DEF Returned
<1>7. committed \in BOOLEAN /\ broker.rev \in Nat
  BY <1>0 DEF Quiet, WebTurnTypeOK, Broker
<1>8. CASE committed
  <2>1. Line.rev # NoRev /\ Line.rev \in Nat
    BY <1>7, <1>8 DEF NoRev
  <2>2. IsTerminal(auth) \/ auth.fence = Line.rev
    BY <1>3, <1>4, <1>8, <2>1
  <2>3. auth' = FenceDecided(auth, Line.rev, TRUE) /\ reply'.type = "commit" /\ reply'.ok
        /\ broker' = [broker EXCEPT !.committed = Line.rev]
    <3> HIDE DEF committed
    <3>1. committed = TRUE
      BY <1>7, <1>8
    <3> QED BY <1>5, <3>1 DEF Reply
  <2>4. IsTerminal(auth') \/ auth'.fenceCommitted
    <3>1. CASE IsTerminal(auth)
      BY <2>3, <3>1 DEF FenceDecided
    <3>2. CASE ~IsTerminal(auth) /\ auth.candidate = NoCandidate
      <4>1. auth' = [auth EXCEPT !.fenceCommitted = TRUE]
        BY <2>2, <2>3, <3>2 DEF FenceDecided
      <4> QED BY <1>0, <4>1 DEF Authority
    <3>3. CASE ~IsTerminal(auth) /\ auth.candidate # NoCandidate
      <4>1. auth' = [auth EXCEPT !.terminal = [kind |-> "final", answer |-> auth.candidate.answer]]
        BY <2>2, <2>3, <3>3 DEF FenceDecided
      <4>2. auth'.terminal.kind = "final"
        BY <1>0, <4>1 DEF Authority
      <4> QED BY <4>2 DEF IsTerminal
    <3> QED BY <3>1, <3>2, <3>3
  <2>5. broker'.committed # NoRev
    BY <1>0, <2>1, <2>3 DEF WebTurnTypeOK, Broker
  <2> QED BY <1>6, <2>3, <2>4, <2>5, GrantNext DEF Granted
<1>9. CASE ~committed
  <2>1. auth' = FenceDecided(auth, Line.rev, FALSE) /\ reply'.type = "commit" /\ ~reply'.ok /\ UNCHANGED broker
    <3> HIDE DEF committed
    <3>1. committed = FALSE
      BY <1>7, <1>9
    <3> QED BY <1>5, <3>1 DEF Reply
  <2>2. ASSUME NEW rev, Holds(rev)' PROVE Holds(rev)
    BY <1>0, <1>1, <2>1, <2>2 DEF Holds
  <2>3. ASSUME NEW rev, Holds(rev)', broker'.rev = rev
        PROVE  Quiet(broker') /\ (IsTerminal(auth') \/ auth'.fence = rev)
    <3>1. Quiet(broker) /\ (IsTerminal(auth) \/ auth.fence = rev)
      BY <1>3, <2>1, <2>2, <2>3
    <3>2. Line.rev # rev
      BY <1>9, <2>1, <2>3, <3>1
    <3>3. auth' = auth
      BY <2>1, <3>1, <3>2 DEF FenceDecided
    <3> QED BY <2>1, <3>1, <3>3
  <2>4. ~Granted'
    BY <2>1 DEF Granted
  <2>5. ASSUME NEW rev, Holds(rev)' PROVE rev <= broker'.rev
    BY <1>3, <2>1, <2>2, <2>5
  <2> HIDE DEF Holds, committed
  <2> QED BY <1>2, <1>6, <2>1, <2>3, <2>4, <2>5, GrantNext
<1> QED BY <1>8, <1>9

LEMMA BeginFence == ASSUME FenceInv, Daemon, HandleBegin PROVE GrantKept' /\ HeldKept'
<1> SUFFICES ASSUME ~sess'.aborted, work'.pc # "failed" PROVE GrantKept' /\ HeldKept'
  BY GrantNext
<1>0. /\ WebTurnTypeOK /\ auth \in Authority /\ UNCHANGED work /\ Line = up[1] /\ Line.type = "begin" /\ LineInPlace(1)
      /\ Len(up) \in Nat \ {0} /\ Len(up') = Len(up) - 1 /\ 1 \in 1..Len(up)
      /\ ~sess.aborted /\ GrantKept /\ HeldKept /\ UNCHANGED broker
  <2>1. Line.type = "begin" /\ UNCHANGED broker
    BY DEF HandleBegin, Arrives, Line
  <2> QED BY <2>1, TailOfPipe, DaemonLeaves DEF FenceInv, WebTurnTypeOK
<1>1. Len(up) = 1 /\ work.pc \in {"wire_begin", "dom_begin"} /\ reply.type = "none" /\ Len(up') = 0
  <2>1. work.pc \in Place
    BY <1>0 DEF WebTurnTypeOK, Work
  <2>2. 1 = Len(up) /\ Awaits(work.pc) = "begin" /\ reply.type = "none"
    BY <1>0 DEF LineInPlace, Asking
  <2>3. Len(up') = 0
    <3>1. Len(up) = 1
      BY <2>2
    <3>2. Len(up') = Len(up) - 1
      BY <1>0
    <3> QED BY <3>1, <3>2
  <2> QED BY <2>1, <2>2, <2>3, WaitsForAnswer
<1>2. broker.committed = NoRev
  BY <1>0, <1>1, GrantMeans DEF Granted
<1> DEFINE revision == IF Quiet(broker) THEN broker.rev ELSE NoRev
<1>3. /\ auth' = IF revision = NoRev THEN auth ELSE FenceBegun(auth, revision)
      /\ reply' = Reply("begin", revision, TRUE)
  <2>1. sess' # Broken(sess)
    BY <1>0 DEF Broken, WebTurnTypeOK, Session
  <2> QED BY <1>0, <1>2, <2>1 DEF HandleBegin
<1>4. broker.rev \in Nat /\ broker.rev # NoRev
  BY <1>0 DEF WebTurnTypeOK, Broker, NoRev
<1>5. ~Returned' /\ ~Granted'
  BY <1>1, <1>3 DEF Returned, Granted, Reply
<1>6. ASSUME NEW rev, Holds(rev)'
      PROVE  /\ rev <= broker.rev
             /\ broker.rev = rev => Quiet(broker) /\ (IsTerminal(auth') \/ auth'.fence = rev)
  <2>1. (rev = revision /\ rev # NoRev) \/ Holds(rev)
    BY <1>0, <1>1, <1>3, <1>6 DEF Holds, Reply
  <2>2. rev <= broker.rev /\ (broker.rev = rev => Quiet(broker))
    <3>1. rev = revision /\ rev # NoRev => rev = broker.rev /\ Quiet(broker)
      OBVIOUS
    <3>2. Holds(rev) => rev <= broker.rev /\ (broker.rev = rev => Quiet(broker))
      BY <1>0, <1>2, GrantMeans
    <3> QED BY <1>4, <2>1, <3>1, <3>2
  <2>3. ASSUME broker.rev = rev PROVE IsTerminal(auth') \/ auth'.fence = rev
    <3>1. revision = rev /\ auth' = FenceBegun(auth, rev)
      BY <1>3, <1>4, <2>2, <2>3
    <3> QED BY <1>0, <3>1 DEF FenceBegun, Authority
  <2> QED BY <2>2, <2>3
<1> HIDE DEF Holds
<1> QED BY <1>0, <1>2, <1>5, <1>6, GrantNext

\* The answer that settles the turn is the one the committed fence was about.
LEMMA OutcomeFence ==
  ASSUME FenceInv, Daemon, HandleOutcome
  PROVE  GrantKept' /\ HeldKept' /\ OutcomeKept'
<1>0. /\ WebTurnTypeOK /\ auth \in Authority /\ UNCHANGED work /\ Line = up[1] /\ LineInPlace(1) /\ WorkerInPlace
      /\ Len(up') = Len(up) - 1 /\ 1 \in 1..Len(up) /\ Len(up) \in Nat /\ sess.outcome = "pending"
      /\ Line.text \in Text /\ GrantKept /\ HeldKept /\ UNCHANGED <<broker, reply>>
  BY TailOfPipe DEF FenceInv, WebTurnTypeOK, HandleOutcome
<1>1. Line.type \in {"result", "error"} /\ sess'.aborted = sess.aborted
  BY <1>0 DEF HandleOutcome, MergeOutcome, WebTurnTypeOK, Session
<1>2. Len(up) = 1 /\ work.pc = IF Line.type = "result" THEN "finished" ELSE "failed"
  BY <1>0, <1>1 DEF LineInPlace
<1>3. GrantKept' /\ HeldKept'
  <2> SUFFICES ASSUME work.pc = "finished" PROVE GrantKept' /\ HeldKept'
    BY <1>0, <1>2, GrantNext
  <2>1. reply.type = "none" /\ work.fence = NoRev
    BY <1>0 DEF WorkerInPlace, Awaits, WebTurnTypeOK, Answer
  <2>2. \A i \in 1..Len(up') : FALSE
    <3>1. Len(up') = Len(up) - 1 /\ Len(up) = 1
      BY <1>0, <1>2
    <3>2. Len(up') = 0
      BY <3>1
    <3> QED BY <3>2
  <2>3. \A rev : ~Holds(rev)'
    BY <1>0, <2>1, <2>2 DEF Holds
  <2>4. ~Granted' /\ ~Returned'
    BY <1>0, <2>1, <2>2 DEF Granted, Returned
  <2> QED BY <1>0, <2>3, <2>4, GrantNext
<1>4. OutcomeKept'
  <2> SUFFICES ASSUME ~sess'.aborted, sess'.outcome = "final" PROVE auth'.terminal.kind = "final"
    BY DEF OutcomeKept
  <2>1. CASE Line.type = "error"
    <3>1. \/ sess' \in {[sess EXCEPT !.outcome = "rejected"], [sess EXCEPT !.outcome = "error"]}
          \/ auth.terminal.kind = "final" /\ UNCHANGED auth
      BY <2>1 DEF HandleOutcome, MergeOutcome
    <3> QED BY <1>0, <3>1 DEF WebTurnTypeOK, Session
  <2>2. CASE Line.type = "result"
    <3>1. /\ ~sess.aborted /\ ~sess.broken /\ auth.terminal.kind \notin {"cancelled", "error"}
          /\ (~IsTerminal(auth) =>
                /\ auth.fenceCommitted => auth.submission = "accepted"
                /\ auth.fenceCommitted => auth.candidate = NoCandidate
                /\ auth.toolCalls \subseteq {c \in Calls : broker.st[c] = "delivered"})
      BY <1>0, <1>1 DEF FenceInv, KeptInv, AuthorityKept
    <3>2. IsTerminal(auth) \/ auth.fenceCommitted
      <4>1. Returned
        BY <1>0, <2>2 DEF Returned
      <4> QED BY <1>0, <1>2, <2>2, <3>1, <4>1, GrantMeans
    <3>3. auth' = IF auth.submission = "accepted" /\ auth.toolCalls = {}
                  THEN FinalCandidate(auth, Line.text, "dom") ELSE auth
      BY <2>2, <3>1 DEF HandleOutcome, MergeOutcome
    <3>4. CASE IsTerminal(auth)
      <4>1. auth' = auth
        BY <3>3, <3>4 DEF FinalCandidate
      <4> QED BY <1>0, <3>1, <3>4, <4>1 DEF IsTerminal, Authority
    <3>5. CASE ~IsTerminal(auth)
      <4>1. auth.fenceCommitted /\ auth.submission = "accepted" /\ auth.candidate = NoCandidate
        BY <3>1, <3>2, <3>5
      <4>2. Quiet(broker)
        BY <4>1 DEF FenceInv, KeptInv, PipeInv, PageInv, BatchInv, QuietInv, FenceCommits
      <4>3. auth.toolCalls = {}
        BY <3>1, <3>5, <4>2 DEF Quiet
      <4>4. Line.text # <<>> /\ auth.candidate # [answer |-> Line.text, source |-> "dom"]
        BY <1>0, <2>2, <4>1 DEF LineInPlace, NoCandidate
      <4>5. auth' = [auth EXCEPT !.candidate = [answer |-> Line.text, source |-> "dom"],
                                 !.terminal = [kind |-> "final", answer |-> Line.text]]
        BY <3>3, <3>5, <4>1, <4>3, <4>4 DEF FinalCandidate
      <4> QED BY <1>0, <4>5 DEF Authority
    <3> QED BY <3>4, <3>5
  <2> QED BY <1>1, <2>1, <2>2
<1> QED BY <1>3, <1>4

LEMMA DaemonFence == ASSUME FenceInv, Daemon PROVE GrantKept' /\ HeldKept' /\ OutcomeKept'
<1>0. /\ WebTurnTypeOK /\ auth \in Authority /\ UNCHANGED work /\ Line = up[1] /\ LineInPlace(1) /\ WorkerInPlace
      /\ Len(up) \in Nat \ {0} /\ Len(up') = Len(up) - 1 /\ 1 \in 1..Len(up) /\ sess.outcome = "pending"
      /\ \A i \in 1..Len(up') : i + 1 \in 1..Len(up) /\ up'[i] = up[i + 1]
      /\ \A i \in 1..Len(up) : i = 1 \/ (i - 1 \in 1..Len(up') /\ up'[i - 1] = up[i])
      /\ Line.rev \in Rev /\ Line.text \in Text /\ Line.epoch \in Nat /\ Line.source \in {"none", "wire", "dom"}
  BY TailOfPipe DEF FenceInv, WebTurnTypeOK
<1>1. Line.type \notin {"result", "error"} => OutcomeKept'
  BY <1>0, DaemonEffects DEF OutcomeKept
<1>2. CASE HandleSendActivated
  <2>1. /\ Line.type = "send_activated" /\ UNCHANGED broker /\ auth' = SendActivated(auth)
        /\ reply'.type = "send_activated"
    BY <1>0, <1>2 DEF HandleSendActivated, Arrives, Line, Reply
  <2>2. work.pc # "failed" => reply.type = "none"
    BY <1>0, <2>1 DEF LineInPlace, Asking
  <2>3. auth'.fence = auth.fence /\ auth'.terminal = auth.terminal /\ auth'.fenceCommitted = auth.fenceCommitted
    BY <1>0, <2>1 DEF SendActivated, Authority
  <2>4. CASE work.pc = "failed"
    BY <1>0, <1>1, <2>1, <2>4, GrantNext
  <2>5. CASE work.pc # "failed"
    BY <1>1, <2>1, <2>2, <2>3, <2>5, PlainLine DEF IsTerminal
  <2> QED BY <2>4, <2>5
<1>3. CASE HandleSubmitted \/ HandleText \/ HandleRebound \/ HandleObserved
  <2>1. Line.type \notin {"begin", "commit", "result", "error"} /\ UNCHANGED <<broker, reply>>
    BY <1>3 DEF HandleSubmitted, HandleText, HandleRebound, HandleObserved, Arrives, Line
  <2>2. auth'.fence = auth.fence /\ auth'.terminal = auth.terminal /\ auth'.fenceCommitted = auth.fenceCommitted
    <3>1. auth' \in {auth, Submitted(auth), Rebound(auth, Line.epoch)}
      BY <1>3 DEF HandleSubmitted, HandleText, HandleRebound, HandleObserved
    <3> QED BY <1>0, <3>1 DEF Submitted, Rebound, Authority
  <2> QED BY <1>1, <2>1, <2>2, PlainLine DEF IsTerminal
<1>4. CASE HandleFact
  <2>1. Line.type \in {"final_candidate", "tool_boundary_observed"} /\ UNCHANGED <<broker, reply>>
    BY <1>4 DEF HandleFact
  <2>2. CASE Line.type = "tool_boundary_observed"
    <3>1. auth' \in {auth, BoundaryObserved(auth, Line.rev)}
      BY <1>4, <2>2 DEF HandleFact
    <3>2. auth'.fence = auth.fence /\ auth'.terminal = auth.terminal /\ auth'.fenceCommitted = auth.fenceCommitted
      BY <1>0, <3>1 DEF BoundaryObserved, Authority
    <3> QED BY <1>1, <2>1, <3>2, PlainLine DEF IsTerminal
  <2>3. CASE Line.type = "final_candidate"
    <3>1. auth' \in {auth, FinalCandidate(auth, Line.text, Line.source)}
      BY <1>4, <2>3 DEF HandleFact
    <3>2. /\ IsTerminal(auth) => IsTerminal(auth')
          /\ auth.fenceCommitted => IsTerminal(auth') \/ auth'.fenceCommitted
      BY <1>0, <3>1 DEF FinalCandidate, IsTerminal, Authority
    <3>3. ASSUME work.pc = "finished" PROVE \A rev : ~Holds(rev)'
      <4>1. reply.type = "none" /\ work.fence = NoRev
        BY <1>0, <3>3 DEF WorkerInPlace, Awaits, WebTurnTypeOK, Answer
      <4>2. ASSUME NEW i \in 1..Len(up') PROVE up'[i].type # "commit"
        <5>1. LineInPlace(i + 1) /\ up'[i] = up[i + 1]
          BY <1>0 DEF FenceInv, KeptInv, PipeInv, PipeOrdered
        <5> QED BY <3>3, <5>1 DEF LineInPlace, Asking, Awaits
      <4> QED BY <1>0, <2>1, <4>1, <4>2 DEF Holds
    <3>4. ASSUME work.pc = "wire_begin", up[Len(up)].type = "begin" PROVE Beginning'
      <4>1. Len(up) # 1 /\ Len(up) \in 1..Len(up)
        BY <1>0, <2>3, <3>4
      <4>2. Len(up) - 1 \in 1..Len(up') /\ up'[Len(up) - 1].type = "begin"
        BY <1>0, <3>4, <4>1
      <4> QED BY <1>0, <3>4, <4>2 DEF Beginning
    <3>5. work.pc # "failed" => work.pc = "finished" \/ (work.pc = "wire_begin" /\ up[Len(up)].type = "begin")
      BY <1>0, <2>3 DEF LineInPlace
    <3> QED BY <1>1, <2>1, <3>2, <3>3, <3>4, <3>5, PlainLine
  <2> QED BY <2>1, <2>2, <2>3
<1>5. CASE HandleBegin
  <2>1. Line.type = "begin"
    BY <1>5 DEF HandleBegin, Arrives, Line
  <2> QED BY <1>1, <1>5, <2>1, BeginFence
<1>6. CASE HandleCommit
  <2>1. Line.type = "commit"
    BY <1>6 DEF HandleCommit, Arrives, Line
  <2> QED BY <1>1, <1>6, <2>1, CommitFence
<1>7. CASE HandleOutcome
  BY <1>7, OutcomeFence
<1> QED BY <1>2, <1>3, <1>4, <1>5, <1>6, <1>7 DEF Daemon

\* A step of another party, for which the broker's turn moves on or stays as it is.
LEMMA BesideFence ==
  ASSUME FenceInv, UNCHANGED <<work, up, reply>>, sess'.outcome = sess.outcome, sess.aborted => sess'.aborted,
         ~sess'.aborted =>
            /\ broker'.committed = broker.committed /\ auth'.terminal = auth.terminal
            /\ auth.fenceCommitted => IsTerminal(auth) \/ auth'.fenceCommitted
            /\ broker.rev \in Nat /\ broker'.rev \in Nat
            /\ \/ broker'.rev = broker.rev /\ broker'.st = broker.st /\ auth'.fence = auth.fence
               \/ broker'.rev > broker.rev
               \/ broker'.rev = broker.rev /\ ~Quiet(broker)
  PROVE  GrantKept' /\ HeldKept' /\ OutcomeKept'
<1>1. OutcomeKept'
  BY DEF FenceInv, OutcomeKept
<1> SUFFICES ASSUME ~sess'.aborted, work'.pc # "failed" PROVE GrantKept' /\ HeldKept'
  BY <1>1, GrantNext
<1>2. /\ Granted \/ Returned => IsTerminal(auth) \/ auth.fenceCommitted
      /\ broker.committed # NoRev => work.pc = "finished" \/ Granted
      /\ broker.committed = NoRev => \A rev : Holds(rev) =>
            /\ rev <= broker.rev
            /\ broker.rev = rev => Quiet(broker) /\ (IsTerminal(auth) \/ auth.fence = rev \/ Beginning)
  BY GrantMeans DEF FenceInv
<1>3. /\ (Granted <=> Granted') /\ (Returned <=> Returned') /\ (Beginning <=> Beginning')
      /\ \A rev : (Holds(rev)' <=> Holds(rev))
      /\ (IsTerminal(auth) <=> IsTerminal(auth'))
  BY DEF Granted, Returned, Beginning, Holds, IsTerminal
<1>4. ASSUME NEW rev, Holds(rev) PROVE rev \in Nat
  <2>1. WebTurnTypeOK
    BY DEF FenceInv, KeptInv, PipeInv, PageInv, BatchInv, QuietInv
  <2>2. \A i \in 1..Len(up) : up[i].rev \in Rev
    <3>1. up \in Seq(Message)
      BY <2>1 DEF WebTurnTypeOK
    <3>2. ASSUME NEW i \in 1..Len(up) PROVE up[i] \in Message
      BY <3>1, ElementOfSeq
    <3> QED BY <3>2 DEF Message
  <2>3. work.fence \in Rev /\ reply.rev \in Rev
    BY <2>1 DEF WebTurnTypeOK, Work, Answer
  <2> QED BY <1>4, <2>2, <2>3 DEF Holds, Rev
<1>5. broker'.st = broker.st => (Quiet(broker) <=> Quiet(broker'))
  BY DEF Quiet
<1> HIDE DEF Granted, Returned, Beginning, Holds
<1>6. /\ Granted' \/ Returned' => IsTerminal(auth') \/ auth'.fenceCommitted
      /\ broker'.committed # NoRev => work'.pc = "finished" \/ Granted'
  BY <1>2, <1>3
<1>7. ASSUME broker'.committed = NoRev, NEW rev, Holds(rev)'
      PROVE  /\ rev <= broker'.rev
             /\ broker'.rev = rev => Quiet(broker') /\ (IsTerminal(auth') \/ auth'.fence = rev \/ Beginning')
  <2>1. /\ rev <= broker.rev /\ rev \in Nat
        /\ broker.rev = rev => Quiet(broker) /\ (IsTerminal(auth) \/ auth.fence = rev \/ Beginning)
    BY <1>2, <1>3, <1>4, <1>7
  <2>2. rev <= broker'.rev
    BY <2>1
  <2>3. broker'.rev = rev => broker.rev = rev /\ Quiet(broker)
    BY <2>1
  <2> QED BY <1>3, <1>5, <2>1, <2>2, <2>3
<1> QED BY <1>6, <1>7, GrantNext

LEMMA ChatGPTFence == ASSUME FenceInv, ChatGPT PROVE GrantKept' /\ HeldKept' /\ OutcomeKept'
<1>0. /\ WebTurnTypeOK /\ WebTurnTypeOK' /\ UNCHANGED <<auth, work, up, reply, sess>>
      /\ broker.rev \in Nat /\ broker'.rev \in Nat
  <2>1. WebTurnTypeOK /\ WebTurnTypeOK'
    BY ChatGPTTypes DEF FenceInv, KeptInv, PipeInv, PageInv, BatchInv, QuietInv
  <2>2. UNCHANGED <<auth, work, up, reply, sess>>
    BY DEF ChatGPT, ChatClaims, ChatInvokes, ChatSettles, ChatWrites, ChatShowsEnd, ChatResumes,
           WireConcludes, WireIsLost
  <2> QED BY <2>1, <2>2 DEF WebTurnTypeOK, Broker
<1>1. CASE UNCHANGED broker
  BY <1>0, <1>1, BesideFence
<1>2. ASSUME NEW c \in Calls, ChatClaims(c) \/ ChatSettles(c) PROVE GrantKept' /\ HeldKept' /\ OutcomeKept'
  <2>1. broker'.rev = broker.rev + 1 /\ broker'.committed = broker.committed
    BY <1>0, <1>2 DEF ChatClaims, ChatSettles, WebTurnTypeOK, Broker
  <2>2. broker'.rev > broker.rev
    BY <1>0, <2>1
  <2> QED BY <1>0, <2>1, <2>2, BesideFence
<1>3. ASSUME NEW c \in Calls, ChatInvokes(c) PROVE GrantKept' /\ HeldKept' /\ OutcomeKept'
  <2>1. broker'.rev = broker.rev /\ broker'.committed = broker.committed /\ ~Quiet(broker)
    BY <1>0, <1>3 DEF ChatInvokes, Quiet, WebTurnTypeOK, Broker
  <2> QED BY <1>0, <2>1, BesideFence
<1> QED BY <1>1, <1>2, <1>3 DEF ChatGPT, ChatWrites, ChatShowsEnd, ChatResumes, WireConcludes, WireIsLost

\* A batch that is taken or answered is out, so that no fence is current.
LEMMA RoundFence ==
  ASSUME FenceInv, Round \/ CapabilityRetires \/ NativeCancels
  PROVE  GrantKept' /\ HeldKept' /\ OutcomeKept'
<1>0. /\ WebTurnTypeOK /\ auth \in Authority /\ UNCHANGED <<work, up, reply>> /\ sess'.outcome = sess.outcome
      /\ (sess.aborted => sess'.aborted) /\ broker.rev \in Nat
  <2>1. WebTurnTypeOK
    BY DEF FenceInv, KeptInv, PipeInv, PageInv, BatchInv, QuietInv
  <2> QED BY <2>1, OtherEffects DEF WebTurnTypeOK, Broker
<1>1. ASSUME CancelTurn PROVE GrantKept' /\ HeldKept' /\ OutcomeKept'
  BY <1>0, <1>1, CancelEffects, BesideFence
<1>2. ASSUME UNCHANGED auth, broker'.st = broker.st, broker'.rev = broker.rev, broker'.committed = broker.committed
      PROVE  GrantKept' /\ HeldKept' /\ OutcomeKept'
  BY <1>0, <1>2, BesideFence
<1>3. CASE TakeBatch
  <2>1. CASE FailRound("tool_batch")
    BY <1>1, <2>1 DEF FailRound
  <2>2. CASE ~FailRound("tool_batch")
    <3> DEFINE proven == IF auth.submission = "send_activated" THEN Submitted(auth) ELSE auth
               revision == prog.rev + 1
    <3>1. /\ auth' = ToolBatch(proven, round'.batch, revision)
          /\ broker'.rev = broker.rev /\ broker'.committed = broker.committed
          /\ round'.batch # {} /\ round'.batch \subseteq Invoked(broker)
      BY <1>0, <1>3, <2>2, TakeBatchFacts
    <3>2. ~Quiet(broker)
      BY <3>1 DEF Quiet, Invoked
    <3>3. ~auth.fenceCommitted
      BY <3>2 DEF FenceInv, KeptInv, PipeInv, PageInv, BatchInv, QuietInv, FenceCommits
    <3>4. proven.terminal = auth.terminal /\ (IsTerminal(auth) => proven = auth)
      BY <1>0 DEF Submitted, Authority
    <3>5. proven \in Authority
      BY <1>0, AuthorityTypes
    <3> HIDE DEF proven, revision
    <3>6. auth'.terminal = auth.terminal
      BY <3>1, <3>4, <3>5 DEF ToolBatch, Authority
    <3> QED BY <1>0, <3>1, <3>2, <3>3, <3>6, BesideFence
  <2> QED BY <2>1, <2>2
<1>4. CASE ReturnResults
  <2>1. CASE FailRound("retired")
    BY <1>1, <2>1 DEF FailRound
  <2>2. CASE ~FailRound("retired")
    <3>1. /\ auth' = [auth EXCEPT !.toolCalls = IF IsTerminal(auth) THEN @ ELSE @ \ sess.outstanding]
          /\ broker'.rev = broker.rev /\ broker'.committed = broker.committed
          /\ round.pc = "emitted"
      BY <1>0, <1>4, <2>2, ReturnResultsFacts
    <3>2. ~Quiet(broker)
      <4>1. sess.outstanding # {} /\ sess.outstanding \subseteq {c \in Calls : broker.st[c] = "delivered"}
        BY <3>1 DEF FenceInv, KeptInv, PipeInv, PageInv, BatchInv, QuietInv, BatchHeld
      <4> QED BY <4>1 DEF Quiet
    <3>3. auth'.terminal = auth.terminal /\ auth'.fenceCommitted = auth.fenceCommitted
      BY <1>0, <3>1 DEF Authority
    <3> QED BY <1>0, <3>1, <3>2, <3>3, BesideFence
  <2> QED BY <2>1, <2>2
<1>5. CASE FinishRound
  <2>1. ASSUME UNCHANGED auth, broker' = Revoked(broker) PROVE GrantKept' /\ HeldKept' /\ OutcomeKept'
    BY <1>0, <1>2, <2>1 DEF Revoked, WebTurnTypeOK, Broker
  <2>2. ASSUME NEW why, FailRound(why) PROVE GrantKept' /\ HeldKept' /\ OutcomeKept'
    BY <1>1, <2>2 DEF FailRound
  <2> QED BY <1>5, <2>1, <2>2, FinishRoundFacts
<1>6. CASE EmitBatch \/ Disconnect \/ Reconnect \/ CapabilityRetires
  <2>1. UNCHANGED auth /\ (UNCHANGED broker \/ broker' = Revoked(broker))
    BY <1>6 DEF EmitBatch, Disconnect, Reconnect, CapabilityRetires
  <2> QED BY <1>0, <1>2, <2>1 DEF Revoked, WebTurnTypeOK, Broker
<1>7. CASE FailBoundary \/ NativeCancels
  BY <1>1, <1>7 DEF FailBoundary, NativeCancels, FailRound
<1> QED BY <1>3, <1>4, <1>5, <1>6, <1>7 DEF Round

LEMMA FenceInit == Init => FenceInv
<1> SUFFICES ASSUME Init PROVE GrantKept /\ HeldKept /\ OutcomeKept
  BY KeptInit DEF FenceInv
<1>1. \A i \in 1..Len(up) : FALSE
  BY DEF Init
<1>2. GrantKept /\ OutcomeKept
  BY <1>1 DEF Init, GrantKept, OutcomeKept, NoReply
<1>3. HeldFences = {}
  BY <1>1 DEF Init, HeldFences, NoReply
<1> QED BY <1>2, <1>3 DEF HeldKept

LEMMA FenceNext == FenceInv /\ [Next]_vars => FenceInv'
<1> SUFFICES ASSUME FenceInv, [Next]_vars PROVE GrantKept' /\ HeldKept' /\ OutcomeKept'
  BY KeptNext DEF FenceInv
<1>1. CASE UNCHANGED vars
  BY <1>1 DEF vars, FenceInv, GrantKept, HeldKept, HeldFences, OutcomeKept
<1> QED BY <1>1, WorkerFence, DaemonFence, ChatGPTFence, RoundFence DEF Next, Over

-----------------------------------------------------------------------------
(* An answer read off the page follows the tools, and a completed turn is fenced. *)

AnswerInv == FenceInv /\ AnswerIsNew /\ AnswerFollowsTools /\ CompletedTurnIsFenced

\* A page that shows something else than at the last tool boundary has grown since the last result.
LEMMA ReadyIsNew ==
  ASSUME PageInv, DomReady
  PROVE  Len(chat.dom) > chat.after
<1>0. chat.dom \in Text /\ chat.dom # <<>> /\ chat.after \in Nat /\ work.base \in Text /\ chat.dom # work.base
  <2>1. WebTurnTypeOK
    BY DEF PageInv, BatchInv, QuietInv
  <2>2. chat.dom \in Seq(Nat) /\ chat.after \in Nat /\ work.base \in Text
    BY <2>1 DEF WebTurnTypeOK, Page, Work
  <2> QED BY <2>2, TextOfPage DEF DomReady, PageInv, PageWaits
<1>1. Len(chat.dom) \in Nat /\ Len(chat.dom) # 0 /\ Len(work.base) \in Nat
  BY <1>0 DEF Text
<1>2. CASE work.base = NoText
  <2>1. chat.after <= 0
    BY <1>2 DEF PageInv, PageWaits
  <2> QED BY <1>0, <1>1, <2>1
<1>3. CASE work.base # NoText
  <2>1. chat.after <= Len(work.base) /\ Extends(chat.dom, work.base)
    BY <1>3 DEF PageInv, PageWaits
  <2>2. Len(work.base) < Len(chat.dom)
    BY <1>0, <2>1, ShorterText
  <2> QED BY <1>0, <1>1, <2>1, <2>2
<1> QED BY <1>2, <1>3

LEMMA AnswerBasics ==
  ASSUME AnswerInv
  PROVE  /\ WebTurnTypeOK /\ QuietInv /\ PageInv /\ PipeInv /\ GrantKept /\ HeldKept /\ OutcomeKept /\ FenceInv
         /\ chat.dom \in Text /\ Len(chat.dom) \in Nat /\ chat.after \in Nat /\ broker.rev \in Nat
         /\ Granted => broker.committed # NoRev
         /\ work.pc = "dom_commit" =>
               /\ Granted => Len(chat.dom) > chat.after
               /\ ~sess.aborted /\ broker.committed = NoRev /\ broker.rev = work.fence
                     => Len(chat.dom) > chat.after
         /\ work.fresh
<1>1. FenceInv /\ PipeInv /\ PageInv /\ QuietInv /\ WebTurnTypeOK /\ GrantKept /\ HeldKept /\ OutcomeKept
  BY DEF AnswerInv, FenceInv, KeptInv, PipeInv, PageInv, BatchInv, QuietInv
<1>2. chat.dom \in Seq(Nat) /\ chat.after \in Nat /\ broker.rev \in Nat
  BY <1>1 DEF WebTurnTypeOK, Page, Broker
<1>3. chat.dom \in Text /\ Len(chat.dom) \in Nat
  BY <1>2, TextOfPage
<1> QED BY <1>1, <1>2, <1>3 DEF AnswerInv, AnswerIsNew, AnswerFollowsTools, Granted

\* The revision that is asked to be committed is one the worker holds.
LEMMA CommitIsHeld ==
  ASSUME AnswerInv, ~sess.aborted, work.pc = "dom_commit", broker.committed = NoRev
  PROVE  /\ work.fence # NoRev => work.fence <= broker.rev
         /\ broker.rev = work.fence => Quiet(broker)
<1>1. work.fence # NoRev => Holds(work.fence)
  BY DEF Holds
<1>2. broker.rev = work.fence => work.fence # NoRev
  BY AnswerBasics DEF NoRev
<1> QED BY <1>1, <1>2, AnswerBasics, GrantMeans

LEMMA AnswerSame ==
  ASSUME AnswerInv, work'.pc = "dom_commit" => work.pc = "dom_commit" /\ work'.fence = work.fence,
         Granted' => Granted, broker.committed # NoRev => broker'.committed # NoRev,
         sess.aborted => sess'.aborted,
         Len(chat'.dom) \in Nat, Len(chat'.dom) >= Len(chat.dom), chat'.after = chat.after,
         broker'.rev = broker.rev \/ broker'.rev = broker.rev + 1,
         work'.fresh = work.fresh
  PROVE  AnswerIsNew' /\ AnswerFollowsTools'
<1>0. /\ Len(chat.dom) \in Nat /\ chat.after \in Nat /\ broker.rev \in Nat
      /\ (Granted => broker.committed # NoRev) /\ work.fresh
      /\ Len(chat.dom) > chat.after => Len(chat'.dom) > chat'.after
  <2>1. /\ Len(chat.dom) \in Nat /\ chat.after \in Nat /\ broker.rev \in Nat
        /\ (Granted => broker.committed # NoRev) /\ work.fresh
    BY AnswerBasics
  <2> QED BY <2>1
<1>1. Granted' => broker'.committed # NoRev
  BY <1>0
<1>2. ASSUME work'.pc = "dom_commit", Granted' PROVE Len(chat'.dom) > chat'.after
  BY <1>0, <1>2, AnswerBasics
<1>3. ASSUME work'.pc = "dom_commit", ~sess'.aborted, broker'.committed = NoRev, broker'.rev = work'.fence
      PROVE  Len(chat'.dom) > chat'.after
  <2>1. work.pc = "dom_commit" /\ ~sess.aborted /\ broker.committed = NoRev /\ work'.fence = work.fence
    BY <1>3
  <2>2. work.fence # NoRev => work.fence <= broker.rev
    BY <2>1, CommitIsHeld
  <2>3. work.fence # NoRev
    BY <1>0, <1>3, <2>1 DEF NoRev
  <2>4. broker.rev = work.fence
    BY <1>0, <1>3, <2>1, <2>2, <2>3
  <2> QED BY <1>0, <2>1, <2>4, AnswerBasics
<1> HIDE DEF Granted
<1>4. Granted' <=> reply'.type = "commit" /\ reply'.ok
  BY DEF Granted
<1> QED BY <1>0, <1>1, <1>2, <1>3, <1>4 DEF AnswerIsNew, AnswerFollowsTools

LEMMA WorkerAnswer == ASSUME AnswerInv, Worker PROVE AnswerIsNew' /\ AnswerFollowsTools'
<1>0. /\ WebTurnTypeOK /\ UNCHANGED <<auth, broker, sess>> /\ Len(chat.dom) \in Nat /\ PipeInv /\ PageInv
      /\ work.fresh
  BY AnswerBasics, WorkerIsApart
<1>1. CASE ContinueAfterStop
  <2>1. /\ work'.pc # "dom_commit" /\ work'.fresh = work.fresh /\ UNCHANGED reply
    BY <1>0, <1>1 DEF ContinueAfterStop, DomPath, At, WebTurnTypeOK, Work
  <2>2. reply.type = "commit" /\ reply.ok => broker.committed # NoRev
    BY DEF AnswerInv, AnswerIsNew
  <2> QED BY <1>0, <2>1, <2>2 DEF AnswerIsNew, AnswerFollowsTools
<1>2. CASE ObserveBoundary
  <2>1. /\ work'.pc = work.pc /\ work'.fence = work.fence /\ work'.fresh = work.fresh /\ UNCHANGED <<reply, chat>>
    BY <1>0, <1>2 DEF ObserveBoundary, WebTurnTypeOK, Work
  <2> QED BY <1>0, <2>1, AnswerSame DEF Granted
<1>3. CASE ~ObserveBoundary /\ ~ContinueAfterStop
  <2>1. chat'.dom = chat.dom /\ chat'.after = chat.after
    BY <1>0, <1>3, WorkerLeavesPage
  <2>2. CASE ReceiveProgress
    <3>1. UNCHANGED <<work, reply, chat, broker, sess>>
      BY <2>2 DEF ReceiveProgress
    <3> QED BY <3>1 DEF AnswerInv, AnswerIsNew, AnswerFollowsTools
  <2>3. CASE WorkerFails
    <3>1. work'.pc = "failed" /\ reply'.type = "none" /\ work'.fresh = work.fresh
      BY <1>0, <2>3 DEF WorkerFails, WebTurnTypeOK, Work, NoReply
    <3> QED BY <1>0, <3>1 DEF AnswerIsNew, AnswerFollowsTools
  <2>4. CASE ~WorkerFails /\ Concludes
    <3>1. Granted /\ (WireFenceDecided \/ DomFenceDecided)
      BY <2>4 DEF Concludes
    <3>2. work.pc = "dom_commit" => Len(chat.dom) > chat.after
      BY <3>1, AnswerBasics
    <3>3. reply'.type = "none" /\ work'.pc \in {"finished", "failed"} /\ work'.fresh
      BY <1>0, <2>4, <3>1, <3>2, WorkerConcludes
    <3> QED BY <3>3 DEF AnswerIsNew, AnswerFollowsTools
  <2>5. CASE ~ReceiveProgress /\ ~Concludes
    <3>1. /\ UNCHANGED reply \/ (reply'.type = "none" /\ ~Granted)
          /\ work'.fresh = work.fresh /\ (work'.pc = "dom_commit" => CommitDomFence)
      BY <1>0, <2>5, WorkerPosts
    <3>2. CASE CommitDomFence
      <4>1. Len(chat.dom) > chat.after
        BY <1>0, <3>2, ReadyIsNew DEF CommitDomFence
      <4>2. reply'.type = "none"
        BY <1>0, <3>2, NoReplyPending DEF CommitDomFence, DomPath, At, Awaits, Watched
      <4>3. Len(chat'.dom) > chat'.after /\ reply'.type # "commit"
        BY <2>1, <4>1, <4>2
      <4>4. work'.fresh
        BY <3>1, AnswerBasics
      <4>5. AnswerIsNew'
        BY <4>3 DEF AnswerIsNew
      <4> QED BY <4>4, <4>5 DEF AnswerFollowsTools
    <3>3. CASE ~CommitDomFence
      <4>1. Granted' => Granted
        BY <3>1 DEF Granted
      <4> QED BY <1>0, <2>1, <3>1, <3>3, <4>1, AnswerSame
    <3> QED BY <3>2, <3>3
  <2> QED BY <2>2, <2>3, <2>4, <2>5 DEF Concludes
<1> QED BY <1>1, <1>2, <1>3

LEMMA DaemonAnswer == ASSUME AnswerInv, Daemon PROVE AnswerIsNew' /\ AnswerFollowsTools'
<1>0. /\ WebTurnTypeOK /\ UNCHANGED <<chat, work>> /\ Len(chat.dom) \in Nat /\ broker'.rev = broker.rev
      /\ (sess.aborted => sess'.aborted) /\ Line = up[1] /\ LineInPlace(1) /\ FenceInv /\ Line.rev \in Rev
      /\ broker.rev \in Nat /\ work.fresh /\ 1 \in 1..Len(up)
  <2>1. FenceInv /\ WebTurnTypeOK /\ Len(chat.dom) \in Nat /\ broker.rev \in Nat /\ work.fresh
    BY AnswerBasics
  <2> QED BY <2>1, TailOfPipe, DaemonLeaves
<1>1. broker.committed # NoRev => broker'.committed # NoRev
  <2>1. CASE UNCHANGED broker
    BY <2>1
  <2>2. CASE broker' = [broker EXCEPT !.committed = Line.rev] /\ (broker.committed # NoRev => broker.committed = Line.rev)
    BY <1>0, <2>2 DEF WebTurnTypeOK, Broker
  <2> QED BY <1>0, <2>1, <2>2, DaemonMoves
<1>2. CASE Granted' => Granted
  <2>1. /\ Len(chat'.dom) \in Nat /\ Len(chat'.dom) >= Len(chat.dom) /\ chat'.after = chat.after
        /\ work'.pc = work.pc /\ work'.fence = work.fence /\ work'.fresh = work.fresh
    <3>1. UNCHANGED <<chat, work>>
      BY <1>0
    <3>2. Len(chat'.dom) = Len(chat.dom) /\ chat'.after = chat.after
      BY <3>1
    <3>3. work'.pc = work.pc /\ work'.fence = work.fence /\ work'.fresh = work.fresh
      BY <3>1
    <3>4. Len(chat.dom) \in Nat
      BY <1>0
    <3>5. Len(chat'.dom) \in Nat /\ Len(chat'.dom) >= Len(chat.dom)
      BY <3>2, <3>4
    <3> QED BY <3>2, <3>3, <3>5
  <2> HIDE DEF Granted
  <2> QED BY <1>0, <1>1, <1>2, <2>1, AnswerSame
<1>3. CASE Granted' /\ ~Granted
  <2>1. reply' # reply /\ Line.type = "commit"
    BY <1>0, <1>3, DaemonEffects DEF Granted
  <2>2. HandleCommit
    BY <2>1 DEF Daemon, HandleSendActivated, HandleSubmitted, HandleText, HandleFact, HandleRebound,
                HandleObserved, HandleBegin, HandleOutcome, Arrives, Line
  <2> DEFINE committed == IF broker.committed # NoRev THEN broker.committed = Line.rev
                          ELSE Quiet(broker) /\ broker.rev = Line.rev
  <2>3. /\ ~sess.aborted /\ reply' = Reply("commit", Line.rev, committed)
        /\ broker' = IF committed THEN [broker EXCEPT !.committed = Line.rev] ELSE broker
    BY <2>1, <2>2 DEF HandleCommit
  <2>4. committed
    BY <1>3, <2>3 DEF Granted, Reply
  <2>5. Line.rev # NoRev /\ broker'.committed = Line.rev
    <3>1. Line.rev # NoRev
      BY <1>0, <2>4 DEF NoRev
    <3> QED BY <1>0, <2>3, <2>4, <3>1 DEF WebTurnTypeOK, Broker
  <2>6. ASSUME work.pc = "dom_commit" PROVE Len(chat.dom) > chat.after
    <3>1. reply.type = "none" /\ Line.rev = work.fence
      BY <1>0, <2>1, <2>6 DEF LineInPlace, Asking
    <3>2. broker.committed = NoRev
      BY <2>3, <2>6, <3>1, AnswerBasics, GrantMeans DEF Granted
    <3>3. broker.rev = work.fence
      BY <2>4, <3>1, <3>2
    <3> QED BY <2>3, <2>6, <3>2, <3>3, AnswerBasics
  <2> QED BY <1>0, <2>5, <2>6 DEF AnswerIsNew, AnswerFollowsTools
<1> QED BY <1>2, <1>3

LEMMA AnswerNext == AnswerInv /\ [Next]_vars => AnswerInv'
<1> SUFFICES ASSUME AnswerInv, [Next]_vars
             PROVE  AnswerIsNew' /\ AnswerFollowsTools' /\ CompletedTurnIsFenced'
  BY FenceNext DEF AnswerInv
<1>0. /\ WebTurnTypeOK /\ WebTurnTypeOK' /\ Len(chat.dom) \in Nat /\ Len(chat'.dom) \in Nat /\ QuietInv
      /\ broker.rev \in Nat /\ OutcomeKept /\ work.fresh /\ round.why # "no_fence"
  <2>1. WebTurnTypeOK /\ WebTurnTypeOK'
    BY AnswerBasics, TypesNext
  <2>2. Len(chat'.dom) \in Nat
    BY <2>1 DEF WebTurnTypeOK, Page
  <2> QED BY <2>1, <2>2, AnswerBasics DEF AnswerInv, CompletedTurnIsFenced
<1>1. CASE Worker
  <2>1. UNCHANGED round
    BY <1>1, WorkerIsApart
  <2> QED BY <1>0, <1>1, <2>1, WorkerAnswer DEF CompletedTurnIsFenced
<1>2. CASE Daemon
  <2>1. UNCHANGED round
    BY <1>2, DaemonConsumes
  <2> QED BY <1>0, <1>2, <2>1, DaemonAnswer DEF CompletedTurnIsFenced
<1>3. CASE ChatGPT
  <2>1. UNCHANGED <<auth, work, up, reply, sess, round>>
    BY <1>3 DEF ChatGPT, ChatClaims, ChatInvokes, ChatSettles, ChatWrites, ChatShowsEnd, ChatResumes,
           WireConcludes, WireIsLost
  <2>2. /\ broker'.rev = broker.rev \/ broker'.rev = broker.rev + 1
        /\ broker'.committed = broker.committed
    BY <1>0, <1>3 DEF ChatGPT, ChatClaims, ChatInvokes, ChatSettles, ChatWrites, ChatShowsEnd, ChatResumes,
           WireConcludes, WireIsLost, WebTurnTypeOK, Broker
  <2>3. chat'.after = chat.after /\ Len(chat'.dom) >= Len(chat.dom)
    <3>1. CASE ChatWrites
      <4>1. chat'.dom = Append(chat.dom, Len(chat.dom) + 1) /\ chat'.after = chat.after
        BY <1>0, <3>1 DEF ChatWrites, WebTurnTypeOK, Page
      <4>2. Len(chat'.dom) = Len(chat.dom) + 1
        BY <1>0, <4>1 DEF WebTurnTypeOK, Page
      <4> QED BY <1>0, <4>1, <4>2
    <3>2. CASE ~ChatWrites
      <4>1. chat'.dom = chat.dom /\ chat'.after = chat.after
        BY <1>0, <1>3, <3>2 DEF ChatGPT, ChatClaims, ChatInvokes, ChatSettles, ChatShowsEnd, ChatResumes,
               WireConcludes, WireIsLost, WebTurnTypeOK, Page
      <4> QED BY <1>0, <4>1
    <3> QED BY <3>1, <3>2
  <2> QED BY <1>0, <2>1, <2>2, <2>3, AnswerSame DEF Granted, CompletedTurnIsFenced
<1>4. ASSUME UNCHANGED <<work, reply>>, chat'.dom = chat.dom, chat'.after = chat.after,
             broker'.rev = broker.rev, broker'.committed = broker.committed, sess.aborted => sess'.aborted
      PROVE  AnswerIsNew' /\ AnswerFollowsTools'
  <2>1. /\ Len(chat'.dom) >= Len(chat.dom) /\ (broker.committed # NoRev => broker'.committed # NoRev)
        /\ work'.pc = work.pc /\ work'.fence = work.fence /\ work'.fresh = work.fresh
    <3>1. Len(chat'.dom) = Len(chat.dom)
      BY <1>4
    <3>2. work'.pc = work.pc /\ work'.fence = work.fence /\ work'.fresh = work.fresh
      BY <1>4
    <3>3. Len(chat.dom) \in Nat
      BY <1>0
    <3>4. Len(chat'.dom) >= Len(chat.dom)
      BY <3>1, <3>3
    <3> QED BY <1>4, <3>2, <3>4
  <2>2. Granted' => Granted
    BY <1>4 DEF Granted
  <2> QED BY <1>0, <1>4, <2>1, <2>2, AnswerSame
<1>5. ASSUME CancelTurn, UNCHANGED <<work, reply>>, chat'.dom = chat.dom, chat'.after = chat.after
      PROVE  AnswerIsNew' /\ AnswerFollowsTools'
  <2>1. broker'.rev = broker.rev /\ broker'.committed = broker.committed /\ sess'.aborted
    BY <1>0, <1>5, CancelEffects DEF CancelTurn, Revoked, WebTurnTypeOK, Broker
  <2> QED BY <1>4, <1>5, <2>1
<1>6. CASE ReturnResults /\ ~FailRound("retired")
  <2>1. /\ round.pc = "emitted" /\ round'.why = round.why /\ broker'.rev = broker.rev
        /\ broker'.committed = broker.committed
    BY <1>0, <1>6, ReturnResultsFacts
  <2>2. ~Quiet(broker)
    <3>1. sess.outstanding # {} /\ sess.outstanding \subseteq {c \in Calls : broker.st[c] = "delivered"}
      BY <1>0, <2>1 DEF QuietInv, BatchHeld
    <3> QED BY <3>1 DEF Quiet
  <2>3. broker.committed = NoRev
    BY <1>0, <2>2 DEF QuietInv, FenceCommits
  <2>4. UNCHANGED <<work, reply>> /\ (sess.aborted => sess'.aborted)
    BY <1>0, <1>6, OtherEffects DEF Round
  <2>5. ~Granted
    BY <2>3, AnswerBasics
  <2>6. ~(work.pc = "dom_commit" /\ ~sess.aborted /\ broker.rev = work.fence)
    BY <2>2, <2>3, CommitIsHeld
  <2> QED BY <1>0, <2>1, <2>4, <2>5, <2>6 DEF AnswerIsNew, AnswerFollowsTools, CompletedTurnIsFenced, Granted
<1>7. ASSUME NEW why, FailRound(why), why # "no_fence" PROVE CancelTurn /\ CompletedTurnIsFenced'
  <2>1. round'.why = why
    BY <1>0, <1>7 DEF FailRound, WebTurnTypeOK, Serving
  <2> QED BY <1>7, <2>1 DEF FailRound, CompletedTurnIsFenced
<1>8. CASE (Round /\ (ReturnResults => FailRound("retired"))) \/ CapabilityRetires \/ NativeCancels
  <2>1. /\ UNCHANGED <<work, reply>> /\ chat'.dom = chat.dom /\ (sess.aborted => sess'.aborted)
    BY <1>0, <1>8, OtherEffects
  <2>2. chat'.after = chat.after
    <3>1. ASSUME NEW why, FailRound(why) PROVE round'.pc = "failed"
      BY <1>0, <3>1 DEF FailRound, WebTurnTypeOK, Serving
    <3>2. CASE ReturnResults
      BY <1>0, <1>8, <3>1, <3>2, ReturnResultsFacts DEF CapabilityRetires, NativeCancels
    <3>3. CASE ~ReturnResults
      <4>1. UNCHANGED chat
        BY <1>0, <1>8, <3>3, OtherEffects
      <4> QED BY <4>1
    <3> QED BY <3>2, <3>3
  <2>3. ASSUME NEW why, FailRound(why), why # "no_fence"
        PROVE  AnswerIsNew' /\ AnswerFollowsTools' /\ CompletedTurnIsFenced'
    BY <1>5, <1>7, <2>1, <2>2, <2>3
  <2>4. CASE TakeBatch /\ ~FailRound("tool_batch")
    <3>1. broker'.rev = broker.rev /\ broker'.committed = broker.committed /\ round'.why = round.why
      BY <1>0, <2>4, TakeBatchFacts
    <3> QED BY <1>0, <1>4, <2>1, <2>2, <3>1 DEF CompletedTurnIsFenced
  <2>5. CASE FinishRound
    <3>1. \/ \E why \in {"rejected", "error", "text", "cancelled"} : FailRound(why)
          \/ round' = [round EXCEPT !.pc = "completed", !.batch = {}] /\ broker' = Revoked(broker)
      BY <1>0, <2>5 DEF FinishRound, OutcomeKept
    <3>2. CASE \E why \in {"rejected", "error", "text", "cancelled"} : FailRound(why)
      BY <2>3, <3>2
    <3>3. CASE round' = [round EXCEPT !.pc = "completed", !.batch = {}] /\ broker' = Revoked(broker)
      <4>1. broker'.rev = broker.rev /\ broker'.committed = broker.committed /\ round'.why = round.why
        BY <1>0, <3>3 DEF Revoked, WebTurnTypeOK, Broker, Serving
      <4> QED BY <1>0, <1>4, <2>1, <2>2, <4>1 DEF CompletedTurnIsFenced
    <3> QED BY <3>1, <3>2, <3>3
  <2>6. CASE EmitBatch \/ Disconnect \/ Reconnect \/ CapabilityRetires
    <3>1. broker'.rev = broker.rev /\ broker'.committed = broker.committed /\ round'.why = round.why
      BY <1>0, <2>6 DEF EmitBatch, Disconnect, Reconnect, CapabilityRetires, Revoked, WebTurnTypeOK, Broker, Serving
    <3> QED BY <1>0, <1>4, <2>1, <2>2, <3>1 DEF CompletedTurnIsFenced
  <2>7. CASE NativeCancels
    BY <1>0, <1>5, <2>1, <2>2, <2>7 DEF NativeCancels, CompletedTurnIsFenced
  <2>8. CASE FailBoundary \/ FailRound("tool_batch") \/ FailRound("retired")
    BY <2>3, <2>8 DEF FailBoundary
  <2> QED BY <1>8, <2>4, <2>5, <2>6, <2>7, <2>8 DEF Round
<1>9. CASE UNCHANGED vars
  BY <1>9 DEF vars, AnswerInv, AnswerIsNew, AnswerFollowsTools, CompletedTurnIsFenced
<1> QED BY <1>1, <1>2, <1>3, <1>6, <1>8, <1>9 DEF Next, Over, Round

LEMMA AnswerInit == Init => AnswerInv
<1> SUFFICES ASSUME Init PROVE AnswerIsNew /\ AnswerFollowsTools /\ CompletedTurnIsFenced
  BY FenceInit DEF AnswerInv
<1> QED BY DEF Init, AnswerIsNew, AnswerFollowsTools, CompletedTurnIsFenced, NoReply

-----------------------------------------------------------------------------
(* What Codex was shown is the answer it is given.                            *)

\* As long as the worker publishes and the turn accepts, what Codex was shown and the lines on
\* the pipe together are what the worker has published.
Flowing == ~sess.broken /\ work.pc # "failed" /\ sess.outcome = "pending"
Streamed ==
  /\ sess.outcome = "final" => sess.feed = sess.answer
  /\ Flowing => Feeds(up, sess.feed, work.published)
StreamInv == AnswerInv /\ Streamed /\ StreamMatchesAnswer

LEMMA WorkerStream == ASSUME StreamInv, Worker PROVE Streamed'
<1>0. /\ WebTurnTypeOK /\ WebTurnTypeOK' /\ UNCHANGED sess /\ Streamed /\ up \in Seq(Message)
      /\ work.published \in Text
  <2>1. WebTurnTypeOK /\ UNCHANGED sess /\ Streamed
    BY AnswerBasics, WorkerIsApart DEF StreamInv
  <2> QED BY <2>1, WorkerTypes DEF WebTurnTypeOK, Work
<1> SUFFICES ASSUME Flowing' PROVE Feeds(up', sess.feed, work'.published)
  BY <1>0 DEF Streamed
<1>1. CASE WorkerFails
  BY <1>0, <1>1 DEF WorkerFails, Flowing, WebTurnTypeOK, Work
<1>2. CASE ReceiveProgress
  <2>1. UNCHANGED <<work, up>>
    BY <1>2 DEF ReceiveProgress
  <2> QED BY <1>0, <2>1 DEF Streamed, Flowing
<1>3. CASE ~WorkerFails /\ ~ReceiveProgress
  <2>1. Feeds(up, sess.feed, work.published)
    <3>1. Watched
      BY <1>3 DEF Worker, ActivateSend, PressSend, AcceptSubmission, ObserveBoundary, PublishDelta,
             OfferWire, WireFenceBegun, WireFenceDecided, BeginDomFence, DomFenceBegun, DropDomFence,
             CommitDomFence, DomFenceDecided, ContinueAfterStop, RebindPage, DomPath, Watching, At, Watched
    <3> QED BY <1>0, <3>1 DEF Streamed, Flowing, Watched
  <2>2. CASE Concludes
    <3>1. Granted /\ (WireFenceDecided \/ DomFenceDecided)
      BY <1>3, <2>2 DEF Concludes
    <3>2. work'.pc = "finished"
      <4>1. work'.pc \in {"finished", "failed"}
        BY <1>0, <1>3, <3>1, WorkerConcludes
      <4> QED BY <4>1 DEF Flowing
    <3>3. PICK rest \in Seq(Message) : up' = up \o rest /\ Feeds(rest, work.published, work'.published)
      BY <1>0, <1>3, <3>1, <3>2, WorkerConcludes
    <3> QED BY <1>0, <2>1, <3>3, FeedsConcat
  <2>3. CASE PublishDelta
    <3> DEFINE missing == SubSeq(chat.dom, Len(work.published) + 1, Len(chat.dom))
               m == Msg("text", NoRev, missing, "dom")
    <3>1. chat.dom \in Text /\ Extends(chat.dom, work.published)
      BY <1>0, <2>3, TextOfPage DEF PublishDelta, WebTurnTypeOK, Page
    <3>2. missing \in Text /\ work.published \o missing = chat.dom
      BY <1>0, <3>1, MissingText
    <3>3. up' = up \o <<m>> /\ work'.published = chat.dom
      BY <1>0, <2>3 DEF PublishDelta, Post, WebTurnTypeOK, Work
    <3> HIDE DEF missing
    <3>4. m \in Message /\ m.type = "text" /\ m.text = missing
      BY <3>2, MessageTypes, KindsOfLines, FrameTypes
    <3> HIDE DEF m
    <3>5. Feeds(<<m>>, work.published, work'.published)
      <4>1. work'.published = work.published \o m.text
        BY <3>2, <3>3, <3>4
      <4>2. Feeds(<<m>>, work.published, work.published \o m.text)
        BY <1>0, <3>4, FeedsOne
      <4> QED BY <4>1, <4>2
    <3>6. <<m>> \in Seq(Message)
      BY <3>4
    <3> QED BY <1>0, <2>1, <3>3, <3>5, <3>6, FeedsConcat
  <2>4. CASE ~Concludes /\ ~PublishDelta
    <3>1. work'.published = work.published
      BY <1>0, <1>3, <2>4, WorkerPosts
    <3>2. PICK rest \in Seq(Message) : up' = up \o rest /\ \A i \in 1..Len(rest) : Carries(rest[i])
      BY <1>0, <1>3, <2>4, WorkerPosts DEF Posts
    <3>3. Feeds(rest, work.published, work.published)
      BY <1>0, <2>4, <3>2, FeedsPlain DEF Carries
    <3> QED BY <1>0, <2>1, <3>1, <3>2, <3>3, FeedsConcat
  <2> QED BY <2>2, <2>3, <2>4
<1> QED BY <1>1, <1>2, <1>3

\* The outcome comes last: by then everything that was published has been shown.
LEMMA OutcomeStream == ASSUME StreamInv, Daemon, HandleOutcome PROVE Streamed'
<1>0. /\ WebTurnTypeOK /\ FenceInv /\ UNCHANGED work /\ Line = up[1] /\ up \in Seq(Message)
      /\ LineInPlace(1) /\ 1 \in 1..Len(up) /\ Line.type \in {"result", "error"}
      /\ auth.terminal.kind = "final" => auth.terminal.answer \in Text
  <2>1. WebTurnTypeOK /\ FenceInv
    BY AnswerBasics DEF StreamInv
  <2> QED BY <2>1, TailOfPipe DEF HandleOutcome, WebTurnTypeOK, Authority
<1>1. Len(up) = 1 /\ sess.outcome = "pending"
  BY <1>0 DEF LineInPlace
<1>2. sess'.outcome # "pending"
  BY <1>0 DEF HandleOutcome, MergeOutcome, WebTurnTypeOK, Session
<1>3. ASSUME sess'.outcome = "final" PROVE sess'.feed = sess'.answer
  <2>1. CASE Line.type = "result" /\ ~sess.broken
    <3>1. sess' = [sess EXCEPT !.outcome = "final", !.answer = Line.text]
      BY <2>1 DEF HandleOutcome, MergeOutcome
    <3>2. work.pc = "finished" /\ Line.text = work.published
      BY <1>0, <2>1 DEF LineInPlace
    <3>3. Feeds(up, sess.feed, work.published)
      BY <1>1, <2>1, <3>2 DEF StreamInv, Streamed, Flowing
    <3>4. sess.feed = work.published
      BY <1>0, <1>1, <2>1, <3>3, FeedsNothing
    <3> QED BY <1>0, <3>1, <3>2, <3>4 DEF WebTurnTypeOK, Session
  <2>2. CASE ~(Line.type = "result" /\ ~sess.broken)
    <3>1. \/ sess' = [sess EXCEPT !.outcome = "final", !.answer = auth.terminal.answer,
                                  !.feed = auth.terminal.answer]
          \/ sess' \in {[sess EXCEPT !.outcome = "rejected"], [sess EXCEPT !.outcome = "error"]}
      BY <1>0, <2>2 DEF HandleOutcome, MergeOutcome
    <3> QED BY <1>0, <1>3, <3>1 DEF WebTurnTypeOK, Session
  <2> QED BY <2>1, <2>2
<1> QED BY <1>2, <1>3 DEF Streamed, Flowing

LEMMA DaemonStream == ASSUME StreamInv, Daemon PROVE Streamed'
<1>0. /\ WebTurnTypeOK /\ FenceInv /\ UNCHANGED work /\ Line = up[1] /\ up \in Seq(Message) /\ up # <<>>
      /\ up' = Tail(up) /\ sess.outcome = "pending" /\ Streamed
  <2>1. WebTurnTypeOK /\ FenceInv /\ Streamed
    BY AnswerBasics DEF StreamInv
  <2> QED BY <2>1, TailOfPipe, DaemonConsumes DEF WebTurnTypeOK
<1>1. CASE HandleOutcome
  BY <1>1, OutcomeStream
<1>2. CASE ~HandleOutcome
  <2>1. \/ sess' = Broken(sess)
        \/ sess' = [sess EXCEPT !.feed = @ \o Line.text] /\ Line.type = "text"
        \/ sess' = sess /\ Line.type # "text"
    BY <1>2 DEF Daemon, HandleSendActivated, HandleSubmitted, HandleText, HandleFact, HandleRebound, HandleObserved,
           HandleBegin, HandleCommit, Arrives, Line
  <2>2. CASE sess' = Broken(sess)
    <3>1. sess'.broken /\ sess'.outcome = "pending"
      BY <1>0, <2>2 DEF Broken, WebTurnTypeOK, Session
    <3> QED BY <3>1 DEF Streamed, Flowing
  <2>3. CASE sess' # Broken(sess)
    <3>1. /\ sess'.outcome = "pending" /\ sess'.broken = sess.broken
          /\ sess'.feed = IF up[1].type = "text" THEN sess.feed \o up[1].text ELSE sess.feed
      BY <1>0, <2>1, <2>3 DEF WebTurnTypeOK, Session
    <3>2. ASSUME Flowing' PROVE Feeds(up', sess'.feed, work'.published)
      <4>1. Feeds(up, sess.feed, work.published)
        BY <1>0, <3>1, <3>2 DEF Streamed, Flowing
      <4>2. Feeds(Tail(up), IF up[1].type = "text" THEN sess.feed \o up[1].text ELSE sess.feed, work.published)
        BY <1>0, <4>1, FeedsTail
      <4> QED BY <1>0, <3>1, <4>2
    <3> QED BY <3>1, <3>2 DEF Streamed
  <2> QED BY <2>2, <2>3
<1> QED BY <1>1, <1>2

LEMMA StreamNext == StreamInv /\ [Next]_vars => StreamInv'
<1> SUFFICES ASSUME StreamInv, [Next]_vars PROVE Streamed' /\ StreamMatchesAnswer'
  BY AnswerNext DEF StreamInv
<1>0. /\ WebTurnTypeOK /\ round.why # "text" /\ Streamed
      /\ (sess.outcome = "final" => sess.feed = sess.answer)
  BY AnswerBasics DEF StreamInv, Streamed, StreamMatchesAnswer
<1>1. ASSUME UNCHANGED <<work, up>>, sess'.outcome = sess.outcome, sess'.feed = sess.feed,
             sess'.answer = sess.answer, sess'.broken = sess.broken
      PROVE  Streamed'
  <2>1. Flowing' => Flowing
    BY <1>1 DEF Flowing
  <2>2. Flowing' => Feeds(up', sess'.feed, work'.published)
    BY <1>0, <1>1, <2>1 DEF Streamed
  <2> QED BY <1>0, <1>1, <2>2 DEF Streamed
<1>2. CASE Worker
  BY <1>0, <1>2, WorkerIsApart, WorkerStream DEF StreamMatchesAnswer
<1>3. CASE Daemon
  BY <1>0, <1>3, DaemonConsumes, DaemonStream DEF StreamMatchesAnswer
<1>4. CASE ChatGPT
  <2>1. UNCHANGED <<work, up, sess, round>>
    BY <1>4 DEF ChatGPT, ChatClaims, ChatInvokes, ChatSettles, ChatWrites, ChatShowsEnd, ChatResumes,
           WireConcludes, WireIsLost
  <2> QED BY <1>0, <1>1, <2>1 DEF StreamMatchesAnswer
<1>5. CASE Round \/ CapabilityRetires \/ NativeCancels
  <2>1. Streamed'
    BY <1>0, <1>1, <1>5, OtherEffects
  <2>2. ASSUME NEW why, FailRound(why), why # "text" PROVE StreamMatchesAnswer'
    <3>1. round'.why = why
      BY <1>0, <2>2 DEF FailRound, WebTurnTypeOK, Serving
    <3> QED BY <2>2, <3>1 DEF StreamMatchesAnswer
  <2>3. CASE TakeBatch \/ ReturnResults
    <3>1. CASE FailRound("tool_batch") \/ FailRound("retired")
      BY <2>1, <2>2, <3>1
    <3>2. CASE ~FailRound("tool_batch") /\ ~FailRound("retired")
      <4>1. round'.why = round.why
        BY <1>0, <2>3, <3>2, TakeBatchFacts, ReturnResultsFacts
      <4> QED BY <1>0, <2>1, <4>1 DEF StreamMatchesAnswer
    <3> QED BY <3>1, <3>2
  <2>4. CASE FinishRound
    <3>1. \/ \E why \in {"rejected", "error", "cancelled", "no_fence"} : FailRound(why)
          \/ round' = [round EXCEPT !.pc = "completed", !.batch = {}]
      BY <1>0, <2>4 DEF FinishRound
    <3>2. CASE \E why \in {"rejected", "error", "cancelled", "no_fence"} : FailRound(why)
      BY <2>1, <2>2, <3>2
    <3>3. CASE round' = [round EXCEPT !.pc = "completed", !.batch = {}]
      BY <1>0, <2>1, <3>3 DEF StreamMatchesAnswer, WebTurnTypeOK, Serving
    <3> QED BY <3>1, <3>2, <3>3
  <2>5. CASE EmitBatch \/ Disconnect \/ Reconnect \/ CapabilityRetires \/ NativeCancels
    <3>1. round'.why = round.why
      BY <1>0, <2>5 DEF EmitBatch, Disconnect, Reconnect, CapabilityRetires, NativeCancels, WebTurnTypeOK, Serving
    <3> QED BY <1>0, <2>1, <3>1 DEF StreamMatchesAnswer
  <2>6. CASE FailBoundary
    BY <2>1, <2>2, <2>6 DEF FailBoundary
  <2> QED BY <1>5, <2>1, <2>3, <2>4, <2>5, <2>6 DEF Round
<1>6. CASE UNCHANGED vars
  BY <1>0, <1>1, <1>6 DEF vars, StreamMatchesAnswer
<1> QED BY <1>2, <1>3, <1>4, <1>5, <1>6 DEF Next, Over

LEMMA StreamInit == Init => StreamInv
<1> SUFFICES ASSUME Init PROVE Streamed /\ StreamMatchesAnswer
  BY AnswerInit DEF StreamInv
<1>1. up \in Seq(Message) /\ Len(up) = 0 /\ sess.feed = work.published /\ work.published \in Text
  BY AnswerInit, AnswerBasics DEF Init, WebTurnTypeOK, Work
<1>2. \A i \in 1..Len(up) : FALSE
  BY <1>1
<1>3. Feeds(up, sess.feed, work.published)
  BY <1>1, <1>2, FeedsPlain
<1> QED BY <1>3 DEF Init, Streamed, StreamMatchesAnswer

\* Every state satisfies the whole of the inductive invariant.
THEOREM TurnInvariant == Spec => []StreamInv
<1>1. Init => StreamInv
  BY StreamInit
<1>2. StreamInv /\ [Next]_vars => StreamInv'
  BY StreamNext
<1> QED BY <1>1, <1>2, PTL DEF Spec

\* Authority, broker, progress, page, worker, pipe, session and round keep their types.
THEOREM TurnsKeepTheirTypes == Spec => []WebTurnTypeOK
<1>1. StreamInv => WebTurnTypeOK
  BY AnswerBasics DEF StreamInv
<1> QED BY <1>1, TurnInvariant, PTL

(* The answer a turn completes with follows its last tool result: the page's text before the   *)
(* tools, shown there as a finished message, is never taken for the answer.                    *)
THEOREM AnswersFollowTools == Spec => []AnswerFollowsTools
<1>1. StreamInv => AnswerFollowsTools
  BY DEF StreamInv, AnswerInv
<1> QED BY <1>1, TurnInvariant, PTL

(* A turn that returned an answer is never refused for want of a fence: no order of            *)
(* candidates, fences, batches and rebinds loses the commit that the worker was granted.       *)
THEOREM CompletedTurnsAreFenced == Spec => []CompletedTurnIsFenced
<1>1. StreamInv => CompletedTurnIsFenced
  BY DEF StreamInv, AnswerInv
<1> QED BY <1>1, TurnInvariant, PTL

(* What Codex is given as the final answer is what was streamed to it: no round is refused     *)
(* because the text it was shown differs from the answer.                                      *)
THEOREM StreamsMatchAnswers == Spec => []StreamMatchesAnswer
<1>1. StreamInv => StreamMatchesAnswer
  BY DEF StreamInv
<1> QED BY <1>1, TurnInvariant, PTL

================================================================================
