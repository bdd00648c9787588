---------------------------- MODULE TurnSessions ----------------------------
(***************************************************************************)
(* The backend's registry of browser turns (ChatGptTurnSessions) and the   *)
(* compactions that share its surfaces (runStructuredCompactionOnce and    *)
(* the run the adapter hands it).  A surface is one run of the browser     *)
(* worker: the answer to a Responses request, the checkpoint message on a  *)
(* retained chat, or one fresh summarization turn.  A run ends when its    *)
(* worker promise settles; if the page or the Launcher lease was not       *)
(* released, its physical settlement fails and never succeeds later.       *)
(*                                                                         *)
(* JavaScript runs each synchronous stretch of code alone, so an action is *)
(* the code between two awaits.                                            *)
(***************************************************************************)
EXTENDS Naturals, FiniteSets, TLC

CONSTANTS
    Session,        \* surfaces that may ever be started (bound of the model)
    Request,        \* HTTP requests for a response that may be open at once
    Key,            \* exact executions: one native turn revision each
    CompactKey,     \* those whose compaction may be asked for
    Owner, Conv, Turn,
    OwnerOf,        \* the native thread of an execution
    ConvOf,         \* the retained conversation it uses
    TurnOf,         \* the native turn it belongs to
    Instruction,    \* the canonical instruction it answers
    Predecessors,   \* the instructions its history proves older
    MaxAsks,        \* requests and compactions asked for (bound of the model)
    MaxCancels,     \* disconnects and cancellations (bound of the model)
    MaxFailures,    \* surfaces whose release may fail (bound of the model)
    None

ASSUME SessionsAssumption ==
    /\ CompactKey \subseteq Key
    /\ OwnerOf \in [Key -> Owner] /\ ConvOf \in [Key -> Conv] /\ TurnOf \in [Key -> Turn]
    /\ \A k \in Key : Instruction[k] \notin Predecessors[k]
    /\ None \notin Session \union Key

VARIABLES
    surface,          \* [Session -> record]: what each browser run is and how it stands
    entries,          \* [Key -> Session or None]: the registry
    heads,            \* [Conv -> Session or None]: the last surface of a conversation
    keyRetirement,    \* [Key -> Session or None]: retirements that did not succeed yet
    ownerRetirement,  \* [Owner -> SUBSET Session]: the same by native thread
    convRetirement,   \* [Conv -> SUBSET Session]: the same by conversation
    request,          \* [Request -> record]: where each HTTP request stands
    run,              \* [CompactKey -> record]: the structured compaction of an execution
    gate,             \* [Owner -> CompactKey or None]: structuredCompactionOwners
    interrupted,      \* native turns Codex interrupted
    calls             \* [asks, cancels]: how many so far

registry == <<entries, heads, keyRetirement, ownerRetirement, convRetirement>>
compactions == <<run, gate>>
outside == <<interrupted, calls>>
vars == <<surface, registry, request, compactions, outside>>

-----------------------------------------------------------------------------
(* Surfaces *)

Unused == {s \in Session : surface[s].kind = "unused"}
Started(kind, k) ==
    [kind |-> kind, key |-> k, phase |-> "running", outcome |-> "pending",
     cancelled |-> FALSE, attached |-> kind = "response", superseded |-> FALSE]

Running(s)  == surface[s].phase = "running"
Released(s) == surface[s].phase = "released"
Failed(s)   == surface[s].phase = "failed"
Active(s)   == surface[s].outcome = "pending"
Answered(s) == surface[s].outcome = "final"

AllReleased(S) == \A s \in S : Released(s)
SomeFailed(S)  == \E s \in S : Failed(s)
Settled(S)     == AllReleased(S) \/ SomeFailed(S)      \* Promise.all over their settlements

(* cancel aborts a running worker; only a reason also ends the response at once. *)
Cancelled(x, withReason) ==
    [x EXCEPT !.cancelled = x.phase = "running",
              !.outcome = IF withReason /\ @ = "pending" THEN "error" ELSE @]

Registered == {entries[k] : k \in Key} \ {None}

(* What is left of a conversation's combined retirement: a failure forgets it. *)
Pending(S) == IF SomeFailed(S) THEN {} ELSE {s \in S : ~Released(s)}

(***************************************************************************)
(* beginRetirement of every surface of S.  A key that is already being     *)
(* retired returns the older retirement and does nothing else; the others  *)
(* are cancelled and remembered until they are released.                   *)
(***************************************************************************)
Retirable(S) == {s \in S : keyRetirement[surface[s].key] = None}
CancelledAll(S, withReason) ==
    [s \in Session |-> IF s \in S THEN Cancelled(surface[s], withReason) ELSE surface[s]]
BeginRetirement(S) ==
    LET held == {s \in Retirable(S) : ~Released(s)} IN
    /\ keyRetirement' = [k \in Key |->
         IF \E s \in held : surface[s].key = k
         THEN CHOOSE s \in held : surface[s].key = k ELSE keyRetirement[k]]
    /\ ownerRetirement' = [o \in Owner |->
         ownerRetirement[o] \union {s \in held : OwnerOf[surface[s].key] = o}]
    /\ convRetirement' = [c \in Conv |->
         LET mine == {s \in held : surface[s].attached /\ ConvOf[surface[s].key] = c}
         IN  IF mine = {} THEN convRetirement[c] ELSE Pending(convRetirement[c] \union mine)]

HeadsWithout(S) ==
    [c \in Conv |-> IF heads[c] \in {s \in S : surface[s].attached} THEN None ELSE heads[c]]
EntriesWithout(S) == [k \in Key |-> IF entries[k] \in S THEN None ELSE entries[k]]

(* Entries leave the registry and their surfaces begin to retire. *)
RemoveAndRetire(S) ==
    /\ entries' = EntriesWithout(S)
    /\ heads' = HeadsWithout(S)
    /\ BeginRetirement(S)

(***************************************************************************)
(* The worker's promise settles: with an answer or an error, and with the  *)
(* surface released or not.  Retirements forget a released surface; the    *)
(* conversation's also forgets a failed one.                               *)
(***************************************************************************)
NotForgotten(S, s, phase) == S    \* mutant: the thread's set keeps its members
Remembered(S, s, phase) == IF phase = "released" THEN S \ {s} ELSE S
RunEnds(s, phase, outcome) ==
    /\ Running(s)
    /\ surface' = [surface EXCEPT ![s].phase = phase, ![s].cancelled = FALSE,
                                  ![s].outcome = IF @ = "pending" THEN outcome ELSE @]
    /\ keyRetirement' = [k \in Key |->
         IF keyRetirement[k] = s /\ phase = "released" THEN None ELSE keyRetirement[k]]
    /\ ownerRetirement' = [o \in Owner |-> Remembered(ownerRetirement[o], s, phase)]
    /\ convRetirement' = [c \in Conv |->
         IF s \notin convRetirement[c] THEN convRetirement[c]
         ELSE IF phase = "failed" THEN {} ELSE convRetirement[c] \ {s}]
    /\ UNCHANGED <<entries, heads, request, compactions, outside>>

-----------------------------------------------------------------------------
(* Requests for a response: getOrCreateAfterOwnerRetirement *)

NoRequest == [pc |-> "idle", key |-> None, on |-> {}]
Asks    == calls.asks < MaxAsks /\ calls' = [calls EXCEPT !.asks = @ + 1]
Cancels == calls.cancels < MaxCancels /\ calls' = [calls EXCEPT !.cancels = @ + 1]
Ended(r) == request' = [request EXCEPT ![r] = NoRequest]
GoesOn(r, pc, S) == request' = [request EXCEPT ![r].pc = pc, ![r].on = S]

(***************************************************************************)
(* An abort ends a request at once, wherever it waits: every await and     *)
(* every round of the loop looks at the signal.  The HTTP layer aborts one *)
(* whose native turn was interrupted before it came.                       *)
(***************************************************************************)
Arrive(r, k) ==
    /\ Asks /\ request[r].pc = "idle" /\ TurnOf[k] \notin interrupted
    /\ request' = [request EXCEPT ![r] = [pc |-> "waiting", key |-> k, on |-> {}]]
    /\ UNCHANGED <<surface, registry, compactions, interrupted>>

(* One round of the loop, when what the last one waited for is released. *)
Looks(r, k) == request[r].pc = "waiting" /\ request[r].key = k /\ AllReleased(request[r].on)
RetiringKey(k) == {keyRetirement[k]} \ {None}    \* mutant: forgets the thread
Retiring(k) ==
    IF keyRetirement[k] # None THEN {keyRetirement[k]} ELSE ownerRetirement[OwnerOf[k]]
(* Another execution of the same thread whose surface is still held. *)
Predecessor(k) ==
    {s \in Registered : /\ surface[s].key # k
                        /\ OwnerOf[surface[s].key] = OwnerOf[k]
                        /\ ~Released(s)}
Differs(s, k) == Active(s) /\ Instruction[surface[s].key] # Instruction[k]

(* An exact reconnect joins the entry, unless a newer instruction superseded it. *)
FindExisting(r, k) ==
    /\ Looks(r, k) /\ entries[k] # None
    /\ IF surface[entries[k]].superseded THEN Ended(r) ELSE GoesOn(r, "attached", {entries[k]})
    /\ UNCHANGED <<surface, registry, compactions, outside>>

WaitForRetirement(r, k) ==
    /\ Looks(r, k) /\ entries[k] = None /\ Retiring(k) # {}
    /\ GoesOn(r, "waiting", Retiring(k))
    /\ UNCHANGED <<surface, registry, compactions, outside>>

Clear(r, k) == Looks(r, k) /\ entries[k] = None /\ Retiring(k) = {}

(* A proven newer instruction takes the thread over; the old entry stays as a tombstone. *)
Supersede(r, k, s) ==
    /\ Clear(r, k) /\ s \in Predecessor(k) /\ Differs(s, k)
    /\ Instruction[surface[s].key] \in Predecessors[k]
    /\ surface' = [CancelledAll(Retirable({s}), TRUE) EXCEPT ![s].superseded = TRUE]
    /\ heads' = HeadsWithout({s})
    /\ BeginRetirement({s})
    /\ GoesOn(r, "waiting", {s})
    /\ UNCHANGED <<entries, compactions, outside>>

RefuseOlder(r, k, s) ==
    /\ Clear(r, k) /\ s \in Predecessor(k) /\ Differs(s, k)
    /\ Instruction[surface[s].key] \notin Predecessors[k]
    /\ Ended(r)
    /\ UNCHANGED <<surface, registry, compactions, outside>>

WaitForPredecessor(r, k, s) ==
    /\ Clear(r, k) /\ s \in Predecessor(k) /\ ~Differs(s, k)
    /\ GoesOn(r, "waiting", {s})
    /\ UNCHANGED <<surface, registry, compactions, outside>>

StartResponse(r, k, s) ==
    /\ Clear(r, k) /\ Predecessor(k) = {} /\ s \in Unused
    /\ surface' = [surface EXCEPT ![s] = Started("response", k)]
    /\ entries' = [entries EXCEPT ![k] = s]
    /\ heads' = [heads EXCEPT ![ConvOf[k]] = s]
    /\ GoesOn(r, "attached", {s})
    /\ UNCHANGED <<keyRetirement, ownerRetirement, convRetirement, compactions, outside>>

(* The journal answers or refuses the execution, or the tab limit is reached. *)
StartRefused(r, k) ==
    /\ Clear(r, k) /\ Predecessor(k) = {}
    /\ Ended(r)
    /\ UNCHANGED <<surface, registry, compactions, outside>>

(* A rejected retirement ends the request; it never opens the way. *)
WaitFails(r) ==
    /\ request[r].pc = "waiting" /\ SomeFailed(request[r].on)
    /\ Ended(r)
    /\ UNCHANGED <<surface, registry, compactions, outside>>

(* The client is gone: an automatic turn goes on without it. *)
ClientDisconnects(r) ==
    /\ Cancels /\ request[r].pc # "idle"
    /\ Ended(r)
    /\ UNCHANGED <<surface, registry, compactions, interrupted>>

ObserverDone(r) ==
    /\ request[r].pc = "attached" /\ \A s \in request[r].on : Answered(s)
    /\ Ended(r)
    /\ UNCHANGED <<surface, registry, compactions, outside>>

(* A round fails for good: the surface is cancelled and its entry stays for replays. *)
ObserverFails(r, s) ==
    /\ request[r].pc = "attached" /\ s \in request[r].on /\ ~Answered(s)
    /\ surface' = [surface EXCEPT ![s] = Cancelled(@, FALSE)]
    /\ Ended(r)
    /\ UNCHANGED <<registry, compactions, outside>>

(* A retryable failure, or a Zero Risk stream that closed: the next request starts anew. *)
ObserverRetires(r, s) ==
    /\ request[r].pc = "attached" /\ s \in request[r].on
    /\ ~Answered(s) /\ ~surface[s].superseded
    /\ IF s \in Registered
       THEN surface' = CancelledAll(Retirable({s}), FALSE) /\ RemoveAndRetire({s})
       ELSE UNCHANGED <<surface, registry>>
    /\ Ended(r)
    /\ UNCHANGED <<compactions, outside>>

-----------------------------------------------------------------------------
(* Compactions: runStructuredCompactionOnce *)

NoRun == [pc |-> "idle", prev |-> None, aborted |-> FALSE, failed |-> FALSE, preserve |-> FALSE,
          source |-> None, surf |-> None, on |-> {}, next |-> "fail", accepted |-> FALSE]
Goes(k, pc) == run' = [run EXCEPT ![k].pc = pc]
Fails(k)    == run' = [run EXCEPT ![k].pc = "winding", ![k].failed = TRUE]
Succeeds(k) == Goes(k, "winding")

Ongoing(k) == run[k].pc \notin {"idle", "cached"}
At(k, pc)  == run[k].pc = pc /\ ~run[k].aborted

(* The abort signal of a run reaches the surface it is driving at once. *)
Driven(k) == IF run[k].pc \in {"handoff", "grace", "accepted", "fresh"} THEN {run[k].surf} ELSE {}
AbortNoRun(K) == run' = run    \* mutant: the signal is lost
AbortRuns(K) ==
    run' = [k \in CompactKey |-> IF k \in K /\ Ongoing(k) THEN [run[k] EXCEPT !.aborted = TRUE] ELSE run[k]]
AbortDriven(K, surfaces) ==
    [s \in Session |-> IF \E k \in K : Ongoing(k) /\ s \in Driven(k)
                       THEN Cancelled(surfaces[s], surfaces[s].kind = "fresh") ELSE surfaces[s]]

(* One run per compaction key, queued behind its thread's previous one. *)
Register(k) ==
    /\ Asks /\ run[k].pc = "idle" /\ TurnOf[k] \notin interrupted
    /\ run' = [run EXCEPT ![k] = [NoRun EXCEPT !.pc = "gate", !.prev = gate[OwnerOf[k]]]]
    /\ gate' = [gate EXCEPT ![OwnerOf[k]] = k]
    /\ UNCHANGED <<surface, registry, request, interrupted>>

GateOpens(k) ==
    /\ At(k, "gate") /\ run[k].prev = None
    /\ run' = [run EXCEPT ![k].pc = "conversation", ![k].on = convRetirement[ConvOf[k]]]
    /\ UNCHANGED <<surface, registry, request, gate, outside>>

(* Nothing is started yet: an abort or a failed retirement of the conversation ends the run. *)
EndsEarly(k) ==
    /\ \/ run[k].pc \in {"gate", "conversation"} /\ run[k].aborted
       \/ run[k].pc = "conversation" /\ SomeFailed(run[k].on)
    /\ Fails(k)
    /\ UNCHANGED <<surface, registry, request, gate, outside>>

(***************************************************************************)
(* closeConversationAndWait: wait for a retirement already under way, or   *)
(* take every entry of the conversation out of the registry (but the       *)
(* preserved final), cancel those still active and wait for all.  The run  *)
(* goes to pc and waits there.                                             *)
(***************************************************************************)
Attached(c) == {s \in Registered : surface[s].attached /\ ConvOf[surface[s].key] = c}
CloseConversation(k, pc, next) ==
    LET c       == ConvOf[k]
        matches == Attached(c)
        kept(s) == run[k].preserve /\ s = run[k].source /\ surface[s].key = k
        foreign == run[k].preserve /\ run[k].source \notin matches   \* throws
    IN  IF convRetirement[c] # {} \/ matches = {} \/ foreign
        THEN /\ run' = [run EXCEPT ![k].pc = pc, ![k].on = convRetirement[c],
                  ![k].next = IF convRetirement[c] = {} /\ matches # {} THEN "fail" ELSE next]
             /\ UNCHANGED <<surface, registry>>
        ELSE /\ run' = [run EXCEPT ![k].pc = pc, ![k].next = next, ![k].on = matches]
             /\ surface' = [s \in Session |->
                  IF s \notin matches THEN surface[s]
                  ELSE [(IF Active(s) THEN Cancelled(surface[s], FALSE) ELSE surface[s])
                          EXCEPT !.attached = FALSE]]
             /\ entries' = EntriesWithout({s \in matches : ~kept(s)})
             /\ heads' = [heads EXCEPT ![c] = None]
             /\ convRetirement' = [convRetirement EXCEPT ![c] = Pending(matches)]
             /\ UNCHANGED <<keyRetirement, ownerRetirement>>

(***************************************************************************)
(* The error path of a run.  Without a source still attached it rejects;   *)
(* otherwise it retires the conversation first and then rejects, or starts *)
(* afresh if the error says that the retained chat is of no use.           *)
(***************************************************************************)
GivesUp(k, next) ==
    IF run[k].source # None /\ surface[run[k].source].attached
    THEN CloseConversation(k, "retiring", next)
    ELSE Fails(k) /\ UNCHANGED <<surface, registry>>

(* A fresh summarization turn: no entry of the registry, only the run knows it. *)
StartFresh(k) ==
    \/ /\ Unused = {} /\ Fails(k) /\ UNCHANGED surface
    \/ \E s \in Unused :
         /\ IF run[k].aborted THEN Fails(k) ELSE run' = [run EXCEPT ![k].pc = "fresh", ![k].surf = s]
         /\ surface' = [surface EXCEPT ![s] =
              IF run[k].aborted THEN Cancelled(Started("fresh", k), TRUE) ELSE Started("fresh", k)]

(* The checkpoint message on the retained tab, with its one-shot transaction. *)
StartHandoff(k, source, preserve) ==
    \/ /\ Unused = {}
       /\ run' = [run EXCEPT ![k].pc = "unwinding", ![k].source = source, ![k].preserve = preserve]
       /\ UNCHANGED surface
    \/ \E s \in Unused :
         /\ run' = [run EXCEPT ![k].pc = "handoff", ![k].source = source,
                              ![k].preserve = preserve, ![k].surf = s]
         /\ surface' = [surface EXCEPT ![s] = Started("handoff", k)]

Inspect(k) ==
    LET source == heads[ConvOf[k]] IN
    /\ At(k, "conversation") /\ AllReleased(run[k].on)
    /\ IF source = None THEN StartFresh(k)
       ELSE IF Active(source)
       THEN run' = [run EXCEPT ![k].pc = "settling", ![k].source = source] /\ UNCHANGED surface
       ELSE StartHandoff(k, source, Answered(source))
    /\ UNCHANGED <<registry, request, gate, outside>>

(* The source answered: with the compaction instruction delivered, or an ordinary final. *)
SourceSettles(k) ==
    /\ At(k, "settling")
    /\ Answered(run[k].source) /\ Released(run[k].source)
    /\ \E preserve \in BOOLEAN : StartHandoff(k, run[k].source, preserve)
    /\ UNCHANGED <<registry, request, gate, outside>>

SourceFails(k) ==
    /\ At(k, "settling")
    /\ surface[run[k].source].outcome = "error" \/ Failed(run[k].source)
    /\ \E next \in {"fresh", "fail"} : GivesUp(k, next)
    /\ UNCHANGED <<request, gate, outside>>

(* A tool-capable source is cancelled with the run; a read-only one is left to the retirement. *)
AbortedSettling(k) ==
    /\ run[k].pc = "settling" /\ run[k].aborted
    /\ GivesUp(k, "fail")
    /\ UNCHANGED <<request, gate, outside>>

(* CompactionTransactionStore.submit: ChatGPT is told that its checkpoint was accepted. *)
Submit(k) ==
    /\ run[k].pc \in {"handoff", "grace"} /\ ~run[k].aborted
    /\ run' = [run EXCEPT ![k].pc = "accepted", ![k].accepted = TRUE]
    /\ surface' = [surface EXCEPT ![run[k].surf] = Cancelled(@, FALSE)]
    /\ UNCHANGED <<registry, request, gate, outside>>

(* The browser is done and no handoff came: some errors leave it a moment longer. *)
HandoffMissing(k) ==
    /\ At(k, "handoff") /\ ~Running(run[k].surf)
    /\ \E pc \in IF Answered(run[k].surf) THEN {"grace"} ELSE {"grace", "unwinding"} : Goes(k, pc)
    /\ UNCHANGED <<surface, registry, request, gate, outside>>

(* The grace is over, or the run is aborted: the transaction is closed. *)
HandoffLost(k) ==
    /\ \/ At(k, "grace")
       \/ run[k].pc \in {"handoff", "grace", "accepted"} /\ run[k].aborted
    /\ Goes(k, "unwinding")
    /\ surface' = [surface EXCEPT ![run[k].surf] = Cancelled(@, FALSE)]
    /\ UNCHANGED <<registry, request, gate, outside>>

(* The helper's end is awaited only as long as the run is not aborted. *)
Unwound(k) ==
    /\ run[k].pc = "unwinding"
    /\ run[k].aborted \/ (\A s \in Session \intersect {run[k].surf} : ~Running(s))
    /\ \E next \in IF run[k].aborted THEN {"fail"} ELSE {"fresh", "fail"} : GivesUp(k, next)
    /\ UNCHANGED <<request, gate, outside>>

(* The accepted summary is committed and its conversation retired. *)
Commit(k) ==
    /\ At(k, "accepted") /\ ~Running(run[k].surf)
    /\ CloseConversation(k, "cleaning", "fail")
    /\ UNCHANGED <<request, gate, outside>>

(* Whatever becomes of the cleanup, the committed summary is the result. *)
CleanedUp(k) ==
    /\ run[k].pc = "cleaning" /\ (Settled(run[k].on) \/ run[k].aborted)
    /\ Succeeds(k)
    /\ UNCHANGED <<surface, registry, request, gate, outside>>

Retired(k) ==
    /\ run[k].pc = "retiring" /\ Settled(run[k].on)
    /\ IF run[k].next = "fresh" /\ AllReleased(run[k].on) THEN StartFresh(k)
       ELSE Fails(k) /\ UNCHANGED surface
    /\ UNCHANGED <<registry, request, gate, outside>>

(* One segment of the history is summarized; the last one, or the merge, is the result. *)
FreshAnswered(k) ==
    /\ At(k, "fresh") /\ Answered(run[k].surf) /\ Released(run[k].surf)
    /\ StartFresh(k) \/ (Succeeds(k) /\ UNCHANGED surface)
    /\ UNCHANGED <<registry, request, gate, outside>>

FreshFails(k) ==
    /\ run[k].pc = "fresh"
    /\ run[k].aborted \/ surface[run[k].surf].outcome = "error" \/ Failed(run[k].surf)
    /\ surface' = [surface EXCEPT ![run[k].surf] = Cancelled(@, TRUE)]
    /\ Fails(k)
    /\ UNCHANGED <<registry, request, gate, outside>>

PromiseSettled(k) == run[k].pc = "winding"    \* mutant: does not wait for the browser
FreshTurnsEnded(k) ==
    \A s \in Session : surface[s].kind = "fresh" /\ surface[s].key = k => ~Running(s)

(* The shared promise is settled; the thread stays owned until every fresh surface ended. *)
OwnerSettles(k) ==
    /\ run[k].pc = "winding" /\ run[k].prev = None
    /\ FreshTurnsEnded(k)
    /\ run' = [q \in CompactKey |->
         IF q = k THEN [NoRun EXCEPT !.pc = IF run[k].failed THEN "idle" ELSE "cached"]
         ELSE [run[q] EXCEPT !.prev = IF @ = k THEN None ELSE @]]
    /\ gate' = [gate EXCEPT ![OwnerOf[k]] = IF @ = k THEN None ELSE @]
    /\ UNCHANGED <<surface, registry, request, outside>>

(* The transport or generation budget of the run is used up. *)
DeadlinePasses(k) ==
    /\ Ongoing(k) /\ run[k].pc \notin {"gate", "winding"} /\ ~run[k].aborted
    /\ AbortRuns({k})
    /\ surface' = AbortDriven({k}, surface)
    /\ UNCHANGED <<registry, request, gate, outside>>

-----------------------------------------------------------------------------
(* The Launcher's control routes *)

(* /admin/interrupt-turn: registry, compactions and HTTP requests, without waiting. *)
Interrupt(t) ==
    LET runs == {k \in CompactKey : TurnOf[k] = t}
        S    == {s \in Registered : TurnOf[surface[s].key] = t}
    IN  /\ Cancels /\ t \notin interrupted
        /\ interrupted' = interrupted \union {t}
        /\ AbortRuns(runs)
        /\ request' = [r \in Request |->
             IF request[r].pc # "idle" /\ TurnOf[request[r].key] = t THEN NoRequest ELSE request[r]]
        /\ surface' = AbortDriven(runs, CancelledAll(Retirable(S), TRUE))
        /\ RemoveAndRetire(S)
        /\ UNCHANGED gate

(* /admin/cancel-turn for the trace of a response, and for the trace of a compaction. *)
CancelTrace(k) ==
    /\ Cancels
    /\ \/ /\ entries[k] # None /\ Active(entries[k])
          /\ surface' = [surface EXCEPT ![entries[k]] = Cancelled(@, TRUE)]
          /\ UNCHANGED run
       \/ /\ k \in CompactKey /\ Ongoing(k) /\ ~run[k].aborted
          /\ AbortRuns({k})
          /\ surface' = AbortDriven({k}, surface)
    /\ UNCHANGED <<registry, request, gate, interrupted>>

(* /admin/cancel-turns: compactions first, then the whole registry and every request. *)
CancelAll ==
    /\ Cancels
    /\ AbortRuns(CompactKey)
    /\ surface' = AbortDriven(CompactKey, CancelledAll(Retirable(Registered), FALSE))
    /\ entries' = EntriesWithout(Registered)
    /\ heads' = [c \in Conv |-> None]
    /\ BeginRetirement(Registered)
    /\ request' = [r \in Request |-> NoRequest]
    /\ UNCHANGED <<gate, interrupted>>

-----------------------------------------------------------------------------
Init ==
    /\ surface = [s \in Session |->
         [kind |-> "unused", key |-> None, phase |-> "none", outcome |-> "none",
          cancelled |-> FALSE, attached |-> FALSE, superseded |-> FALSE]]
    /\ entries = [k \in Key |-> None]
    /\ heads = [c \in Conv |-> None]
    /\ keyRetirement = [k \in Key |-> None]
    /\ ownerRetirement = [o \in Owner |-> {}]
    /\ convRetirement = [c \in Conv |-> {}]
    /\ request = [r \in Request |-> NoRequest]
    /\ run = [k \in CompactKey |-> NoRun]
    /\ gate = [o \in Owner |-> None]
    /\ interrupted = {}
    /\ calls = [asks |-> 0, cancels |-> 0]

Failures == Cardinality({s \in Session : Failed(s)})
Ends(s) ==   \* an aborted worker rejects; nobody looks at a handoff's release
    \E phase \in {"released", "failed"}, outcome \in {"final", "error"} :
        /\ phase = "failed" => Failures < MaxFailures /\ surface[s].kind # "handoff"
        /\ surface[s].cancelled => outcome = "error"
        /\ RunEnds(s, phase, outcome)

Lookup(r) ==
    \E k \in Key :
        \/ FindExisting(r, k) \/ WaitForRetirement(r, k) \/ StartRefused(r, k)
        \/ \E s \in Session :
             \/ Supersede(r, k, s) \/ RefuseOlder(r, k, s)
             \/ WaitForPredecessor(r, k, s) \/ StartResponse(r, k, s)

Observes(r) ==
    \/ ObserverDone(r)
    \/ \E s \in Session : ObserverFails(r, s) \/ ObserverRetires(r, s)

RequestGoesOn(r) == Lookup(r) \/ WaitFails(r)

RunGoesOn(k) ==
    \/ GateOpens(k) \/ EndsEarly(k) \/ Inspect(k) \/ SourceSettles(k) \/ SourceFails(k)
    \/ AbortedSettling(k) \/ HandoffMissing(k) \/ HandoffLost(k)
    \/ Unwound(k) \/ Commit(k) \/ CleanedUp(k) \/ Retired(k) \/ FreshAnswered(k)
    \/ FreshFails(k) \/ OwnerSettles(k)

Next ==
    \/ \E s \in Session : Ends(s)
    \/ \E r \in Request :
         \/ \E k \in Key : Arrive(r, k)
         \/ RequestGoesOn(r) \/ ClientDisconnects(r) \/ Observes(r)
    \/ \E k \in CompactKey : Register(k) \/ RunGoesOn(k) \/ Submit(k) \/ DeadlinePasses(k)
    \/ \E t \in Turn : Interrupt(t)
    \/ \E k \in Key : CancelTrace(k)
    \/ CancelAll

Spec == Init /\ [][Next]_vars

(***************************************************************************)
(* Fairness: settled promises resume their awaits, the budgets of a        *)
(* compaction run out, and a worker whose run was aborted ends it.  A live *)
(* answer may take for ever.                                               *)
(***************************************************************************)
AbortedRunEnds(s) == surface[s].cancelled /\ Ends(s)
FairSpec ==
    /\ Spec
    /\ \A s \in Session : WF_vars(AbortedRunEnds(s))
    /\ \A r \in Request : WF_vars(RequestGoesOn(r))
    /\ \A k \in CompactKey : WF_vars(RunGoesOn(k)) /\ WF_vars(DeadlinePasses(k))

-----------------------------------------------------------------------------
(* Properties *)

Responses(o) == {s \in Session : surface[s].kind = "response" /\ OwnerOf[surface[s].key] = o}

(***************************************************************************)
(* A native thread's next response opens a browser surface only when every *)
(* earlier response of the thread has released its own or was taken out by *)
(* the retirement of its conversation: however requests, steering,         *)
(* reconnects, cancellations and failed releases interleave with the waits *)
(* of getOrCreateAfterOwnerRetirement (turn-execution.ts:637-676).         *)
(***************************************************************************)
StartsAfterPredecessors ==
    [][\A s \in Unused : \A o \in Owner :
          s \in Responses(o)' =>
             \A p \in Responses(o) : Released(p) \/ ~surface[p].attached]_vars

(***************************************************************************)
(* Interrupting a native turn reaches everything that works for it: every  *)
(* browser run of the turn that is still going has been aborted, whether   *)
(* it is in the registry, already retiring, detached, or known only to a   *)
(* detached compaction, and nothing of it starts later                     *)
(* (server.ts:1018-1029, compaction-handoff.ts:597-610).                   *)
(***************************************************************************)
InterruptReaches ==
    \A s \in Session : Running(s) /\ TurnOf[surface[s].key] \in interrupted => surface[s].cancelled

(***************************************************************************)
(* The fresh summarization turns of one thread never overlap: neither a    *)
(* deadline nor a cancellation, of a running or of a queued compaction,    *)
(* lets a retry open a competing one (compaction-handoff.ts:558-566).      *)
(***************************************************************************)
FreshTurnsSerialize ==
    \A s, p \in Session :
        /\ surface[s].kind = "fresh" /\ surface[p].kind = "fresh" /\ Running(s) /\ Running(p)
        /\ OwnerOf[surface[s].key] = OwnerOf[surface[p].key]
        => s = p

(***************************************************************************)
(* A request never waits for ever on surfaces that were given up: it gets  *)
(* a surface or an answer, unless some predecessor is still working.       *)
(***************************************************************************)
AbandonedSurfacesDoNotBlock ==
    \A r \in Request :
        request[r].pc = "waiting" ~>
            \/ request[r].pc # "waiting"
            \/ \E s \in request[r].on : Running(s) /\ ~surface[s].cancelled

(***************************************************************************)
(* Every compaction comes to an end and frees its thread, although runs    *)
(* wait for each other, for their source and for retirements; and one that *)
(* told ChatGPT that its checkpoint was accepted returns it, unless it was *)
(* aborted.                                                                *)
(***************************************************************************)
CompactionsFinish ==
    \A k \in CompactKey :
        /\ Ongoing(k) ~> ~Ongoing(k)
        /\ run[k].accepted /\ ~run[k].aborted ~> run[k].pc = "cached" \/ run[k].aborted

-----------------------------------------------------------------------------
(* The type invariant, and the inductive invariant of TurnSessionsProofs. *)

Surface ==
    [kind : {"unused", "response", "handoff", "fresh"}, key : Key \union {None},
     phase : {"none", "running", "released", "failed"},
     outcome : {"none", "pending", "final", "error"},
     cancelled : BOOLEAN, attached : BOOLEAN, superseded : BOOLEAN]
RequestState ==
    [pc : {"idle", "waiting", "attached"}, key : Key \union {None}, on : SUBSET Session]
Place ==
    {"idle", "gate", "conversation", "settling", "handoff", "grace", "accepted", "cleaning",
     "unwinding", "retiring", "fresh", "winding", "cached"}
Run ==
    [pc : Place, prev : CompactKey \union {None}, aborted : BOOLEAN, failed : BOOLEAN,
     preserve : BOOLEAN, source : Session \union {None}, surf : Session \union {None},
     on : SUBSET Session, next : {"fail", "fresh"}, accepted : BOOLEAN]

TypeOK ==
    /\ surface \in [Session -> Surface]
    /\ entries \in [Key -> Session \union {None}] /\ heads \in [Conv -> Session \union {None}]
    /\ keyRetirement \in [Key -> Session \union {None}]
    /\ ownerRetirement \in [Owner -> SUBSET Session]
    /\ convRetirement \in [Conv -> SUBSET Session]
    /\ request \in [Request -> RequestState]
    /\ run \in [CompactKey -> Run] /\ gate \in [Owner -> CompactKey \union {None}]
    /\ interrupted \in SUBSET Turn

(* Whose a surface is; a running one that was not cancelled has no outcome yet. *)
SurfacesSound ==
    \A s \in Session :
        /\ surface[s].kind = "unused" <=> surface[s].phase = "none"
        /\ surface[s].kind = "response" => surface[s].key \in Key
        /\ surface[s].kind \in {"handoff", "fresh"} => surface[s].key \in CompactKey
        /\ Running(s) => Active(s) \/ surface[s].cancelled

(* An entry is a response to its execution; one being retired is cancelled and keeps its key. *)
RegistrySound ==
    \A k \in Key :
        /\ entries[k] # None => surface[entries[k]].kind = "response" /\ surface[entries[k]].key = k
        /\ keyRetirement[k] # None =>
              /\ surface[keyRetirement[k]].kind = "response" /\ surface[keyRetirement[k]].key = k
              /\ keyRetirement[k] \in ownerRetirement[OwnerOf[k]]
              /\ entries[k] \in {None, keyRetirement[k]}

(* A response that still holds a surface is found by its execution or by its thread. *)
HeldOnRecord ==
    \A s \in Session :
        surface[s].kind = "response" /\ surface[s].attached /\ ~Released(s) =>
            \/ entries[surface[s].key] = s
            \/ s \in ownerRetirement[OwnerOf[surface[s].key]]

(* A run of the worker that nobody cancelled is found in the registry, not yet retiring, or is *)
(* driven by a compaction that was not aborted.                                                *)
RunsReachable ==
    \A s \in Session :
        Running(s) /\ ~surface[s].cancelled =>
            LET k == surface[s].key IN
            \/ surface[s].kind = "response" /\ entries[k] = s /\ keyRetirement[k] = None
            \/ surface[s].kind # "response" /\ s \in Driven(k) /\ ~run[k].aborted

(* Nothing goes on for an interrupted turn that could start a surface. *)
InterruptedStops ==
    /\ \A r \in Request : request[r].pc # "idle" =>
          request[r].key \in Key /\ TurnOf[request[r].key] \notin interrupted
    /\ \A k \in CompactKey : Ongoing(k) /\ ~run[k].aborted => TurnOf[k] \notin interrupted

(* A fresh turn that runs belongs to a compaction at the head of its thread's queue, and is its *)
(* only one.                                                                                    *)
FreshOwned ==
    /\ \A s \in Session : surface[s].kind = "fresh" /\ Running(s) =>
          LET k == surface[s].key IN
          /\ (run[k].pc = "fresh" /\ run[k].surf = s) \/ run[k].pc = "winding"
          /\ run[k].prev = None
    /\ \A s, p \in Session :
          /\ surface[s].kind = "fresh" /\ surface[p].kind = "fresh" /\ Running(s) /\ Running(p)
          /\ surface[s].key = surface[p].key
          => s = p
    /\ \A k \in CompactKey : Ongoing(k) /\ run[k].pc \notin {"gate", "winding"} => run[k].prev = None

(* The compactions of a thread queue up behind each other: no two behind the same one, none    *)
(* behind the gate, and no cycle.                                                               *)
ThreadsQueue ==
    /\ \A k \in CompactKey : Ongoing(k) /\ run[k].prev # None =>
          Ongoing(run[k].prev) /\ OwnerOf[run[k].prev] = OwnerOf[k]
    /\ \A k, q \in CompactKey :
          Ongoing(k) /\ Ongoing(q) /\ OwnerOf[k] = OwnerOf[q] /\ run[k].prev = run[q].prev => k = q
    /\ \A o \in Owner :
          /\ gate[o] # None => Ongoing(gate[o]) /\ OwnerOf[gate[o]] = o
          /\ \A k \in CompactKey : Ongoing(k) /\ OwnerOf[k] = o =>
                gate[o] # None /\ run[k].prev # gate[o]
    /\ \A K \in SUBSET {k \in CompactKey : Ongoing(k)} : K # {} => \E k \in K : run[k].prev \notin K

SessionsInv ==
    /\ SurfacesSound /\ RegistrySound /\ HeldOnRecord /\ RunsReachable
    /\ InterruptReaches /\ InterruptedStops
QueueInv == SurfacesSound /\ FreshOwned /\ ThreadsQueue
=============================================================================
