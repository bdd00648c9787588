---------------------------- MODULE BrowserTabs ----------------------------
(***************************************************************************)
(* The launcher's browser tabs for automatic turns (BrowserHost), and the  *)
(* workers of the browser helper that lease them over HTTP (runExclusive,  *)
(* LauncherHelperClient): start, heartbeats, end.  A request may be        *)
(* answered after its sender gave up; that is also what a lost answer      *)
(* looks like.  Tabs are reclaimed by the lease sweep, which has to tell a *)
(* dead helper from a computer that slept.  The unit of time is 60 s, the  *)
(* heartbeat timeout.  A conversation stands for one conversation key and  *)
(* connector identity.                                                     *)
(***************************************************************************)
EXTENDS Naturals, FiniteSets

CONSTANTS
    Traces,             \* browser turns
    Conversation,       \* [Traces -> conversations]
    Newer,              \* [Traces -> SUBSET Traces]: later turns of its Codex thread
    MaxTabs,            \* MAX_BROWSER_TABS
    HeartbeatTimeout,   \* TURN_HEARTBEAT_TIMEOUT_MS, in units of time
    BootstrapTimeout,   \* TURN_TAB_BOOTSTRAP_TIMEOUT_MS
    RetainedTtl,        \* RETAINED_TURN_TAB_TTL_MS
    LongestSleep,       \* units of one system sleep (bound of the model)
    MaxStarts,          \* [conversations -> Nat]: starts of its turns (bound of the model)
    MaxTroubles,        \* exits, sleeps, closed tabs in use, lost marks (bound of the model)
    None

ASSUME TabsAssumption ==
    /\ MaxTabs \in Nat \ {0}
    /\ HeartbeatTimeout \in Nat \ {0} /\ BootstrapTimeout \in Nat \ {0}
    /\ RetainedTtl \in Nat /\ LongestSleep \in Nat
    /\ None \notin Traces

(* A conversation key names one Codex thread, and the turns of a thread come one after another. *)
ASSUME ThreadAssumption ==
    \A t, u \in Traces : t # u /\ Conversation[t] = Conversation[u] =>
        u \in Newer[t] \/ t \in Newer[u]

VARIABLES
    tabs,           \* [1..MaxTabs -> tab]: turnTabs by ordinal
    creating,       \* createTurnTab calls that await their surface; slot 0 once it is gone
    closing,        \* [Traces -> record]: closeTab awaiting the runtime's cancellation
    closedOwners,   \* [Traces -> pid]: closedTurnOwners, 0 for no entry
    cancelled,      \* [Traces -> pid]: userCancelledTurnOwners
    slept,          \* units slept since the last sweep
    worker,         \* [Traces -> record]: the helper's run of a turn
    helper,         \* pid of the running helper; smaller ones have exited
    requests,       \* requests the launcher has not handled
    marred,         \* turns of which a tab failed its ownership marking (history)
    calls           \* starts and troubles so far

host == <<tabs, creating, closing, closedOwners, cancelled>>
(* What no schedule brings about more than MaxTroubles times. *)
Trouble ==
    /\ calls.troubles < MaxTroubles
    /\ calls' = [calls EXCEPT !.troubles = @ + 1]

vars == <<host, slept, worker, helper, requests, marred, calls>>

-----------------------------------------------------------------------------
(* Tabs.  turnTabs is ordered by insertion: a tab knows the older ones. *)

Slots == 1..MaxTabs
NoTab == [status |-> "none", trace |-> None, pid |-> 0, initializing |-> FALSE,
          booted |-> FALSE, age |-> 0, bootAge |-> 0, older |-> {}]
NewTab(t, pid, older) ==
    [NoTab EXCEPT !.status = "running", !.trace = t, !.pid = pid, !.initializing = TRUE,
                  !.older = older]

Status(s)   == tabs[s].status
FreeSlots   == {s \in Slots : Status(s) = "none"}
TabsOf(t)   == {s \in Slots : tabs[s].trace = t}
FirstOf(t)  == {s \in TabsOf(t) : tabs[s].older \intersect TabsOf(t) = {}}
Retained(k) == {s \in Slots : Status(s) = "ready" /\ Conversation[tabs[s].trace] = k}
ProcessRunning(pid) == pid = helper

(* An operation in progress on a tab that is removed finds it gone. *)
Without(operation, S) == [operation EXCEPT !.slot = IF @ \in S THEN 0 ELSE @]
Detach(S) ==
    /\ creating' = {Without(c, S) : c \in creating}
    /\ closing' = [t \in Traces |-> Without(closing[t], S)]

ClosedUnrecorded(S, abortRunning) == closedOwners        \* mutant: nothing is remembered

(* An aborted running tab leaves a record, so that its owner's end is acknowledged. *)
ClosedBy(S, abortRunning) ==
    [t \in Traces |->
        IF abortRunning /\ \E s \in S : Status(s) = "running" /\ tabs[s].trace = t
        THEN tabs[CHOOSE s \in S : Status(s) = "running" /\ tabs[s].trace = t].pid
        ELSE closedOwners[t]]

RemoveTabs(S, abortRunning) ==
    /\ tabs' = [s \in Slots |-> IF s \in S THEN NoTab ELSE tabs[s]]
    /\ closedOwners' = ClosedBy(S, abortRunning)
    /\ Detach(S)

-----------------------------------------------------------------------------
(* Workers of the helper, as the backend sees them *)

NoWorker == [phase |-> "idle", pid |-> 0, by |-> "worker"]
StartRequest(t) == [kind |-> "start", trace |-> t, pid |-> helper, by |-> "worker"]
EndRequest(t, by, keep) ==
    [kind |-> "end", trace |-> t, pid |-> worker[t].pid, by |-> by, keep |-> keep]

(* A helper's requests arrive before those of the helper started after it  *)
(* exited; any other two may overtake each other.                          *)
Deliverable(kind) ==
    {m \in requests : m.kind = kind /\ (m.by = "worker" =>
        \A r \in requests : r.by = "worker" => r.pid >= m.pid)}

(* The registry of sessions starts a turn of a conversation after the      *)
(* predecessor's surface is reported released, and never after a failure.  *)
Serialized(t) == \A u \in Traces : Conversation[u] = Conversation[t] => worker[u].phase = "idle"

(* A turn may be tried again, but a thread only goes on from its last turn. *)
Latest(t) == \A u \in Newer[t] : worker[u].pid = 0

Start(t) ==
    /\ calls.starts[Conversation[t]] < MaxStarts[Conversation[t]] /\ Serialized(t) /\ Latest(t)
    /\ worker' = [worker EXCEPT ![t] = [phase |-> "starting", pid |-> helper, by |-> "worker"]]
    /\ requests' = requests \union {StartRequest(t)}
    /\ calls' = [calls EXCEPT !.starts[Conversation[t]] = @ + 1]
    /\ UNCHANGED <<host, slept, helper, marred>>

(* A worker that got no lease throws before it can report a release, and   *)
(* the backend takes that for a surface that was not released.             *)
Leased(m, granted) ==
    IF worker[m.trace].phase = "starting" /\ worker[m.trace].pid = m.pid
    THEN [worker EXCEPT ![m.trace].phase = IF granted THEN "working" ELSE "unreleased"]
    ELSE worker

(* 5 s for a start, 15 s for an end: the launcher may still handle it later. *)
GiveUp(t) ==
    /\ worker[t].phase \in {"starting", "ending"}
    /\ worker' = [worker EXCEPT ![t].phase = "unreleased"]
    /\ UNCHANGED <<host, slept, helper, requests, marred, calls>>

(* The answer of a worker's own end reports a tab the user closed as one   *)
(* that was not released; an end sent for a dead helper does not look.     *)
Reported(m, acknowledged, byUser) ==
    IF acknowledged /\ (m.by = "parent" \/ ~byUser) THEN "idle" ELSE "unreleased"

Ended(m, acknowledged, byUser) ==
    IF worker[m.trace].phase = "ending" /\ worker[m.trace].pid = m.pid /\ worker[m.trace].by = m.by
    THEN [worker EXCEPT ![m.trace].phase = Reported(m, acknowledged, byUser)]
    ELSE worker

(* keep: the answer is complete and its chat retained, or it failed in a way a retry may resume. *)
End(t) ==
    /\ worker[t].phase = "working"
    /\ worker' = [worker EXCEPT ![t].phase = "ending"]
    /\ \E keep \in BOOLEAN : requests' = requests \union {EndRequest(t, "worker", keep)}
    /\ UNCHANGED <<host, slept, helper, marred, calls>>

Busy == {t \in Traces : worker[t].phase \in {"starting", "working", "ending"}}

(* The backend ends every turn of a helper that exited on its behalf. *)
HelperExits ==
    /\ Trouble
    /\ helper' = helper + 1
    /\ worker' = [t \in Traces |->
          IF t \in Busy THEN [worker[t] EXCEPT !.phase = "ending", !.by = "parent"] ELSE worker[t]]
    /\ requests' = requests \union {EndRequest(t, "parent", FALSE) : t \in Busy}
    /\ UNCHANGED <<host, slept, marred>>

(* A restarted backend knows no turn; its helper went with it. *)
BackendRestarts ==
    /\ Trouble
    /\ helper' = helper + 1
    /\ worker' = [t \in Traces |-> [NoWorker EXCEPT !.pid = worker[t].pid]]
    /\ UNCHANGED <<host, slept, requests, marred>>

-----------------------------------------------------------------------------
(* beginTurn *)

(* sameTrace: the first tab of the trace; 0 when it has none. *)
FirstTabs(t) == IF TabsOf(t) = {} THEN {0} ELSE FirstOf(t)
SameRuns(s) == s # 0 /\ Status(s) = "running"

OwnedByAnother(s, m) == SameRuns(s) /\ tabs[s].pid # m.pid /\ ProcessRunning(tabs[s].pid)
Ambiguous(k) == Cardinality(Retained(k)) > 1

ExistingRun(s, m) == IF SameRuns(s) THEN {s} ELSE {}   \* mutant: a retained tab is not found

Existing(s, m) == IF SameRuns(s) THEN {s} ELSE Retained(Conversation[m.trace])

(* A retained tab keeps its document; a running one starts its bootstrap again. *)
Lease(s, m) ==
    [tabs[s] EXCEPT !.status = "running", !.trace = m.trace, !.pid = m.pid, !.age = 0,
                    !.booted = @ /\ Status(s) = "ready", !.bootAge = 0]

Reclaimable == {s \in Slots : Status(s) = "ready"
                              /\ \A r \in Slots : Status(r) = "ready" => tabs[r].age <= tabs[s].age}

Refused(s, m) ==
    \/ cancelled[m.trace] # 0
    \/ Ambiguous(Conversation[m.trace])
    \/ OwnedByAnother(s, m)
    \/ Existing(s, m) = {} /\ FreeSlots \union Reclaimable = {}

RefuseStart(m) ==
    /\ \E s \in FirstTabs(m.trace) : Refused(s, m)
    /\ worker' = Leased(m, FALSE)
    /\ UNCHANGED <<host, slept>>

ReuseTab(m) ==
    /\ \E s \in FirstTabs(m.trace) : ~Refused(s, m) /\ \E e \in Existing(s, m) :
          tabs' = [tabs EXCEPT ![e] = Lease(e, m)]
    /\ worker' = Leased(m, TRUE)
    /\ UNCHANGED <<creating, closing, closedOwners, cancelled, slept>>

(* At the cap the oldest retained tab makes room.  The answer follows when the surface is loaded. *)
CreateTab(m) ==
    /\ \E s \in FirstTabs(m.trace) : ~Refused(s, m) /\ Existing(s, m) = {}
    /\ \E s \in IF FreeSlots # {} THEN {f \in FreeSlots : \A r \in FreeSlots : f <= r}
                ELSE Reclaimable :
          /\ tabs' = [r \in Slots |->
                IF r = s THEN NewTab(m.trace, m.pid, Slots \ (FreeSlots \union {s}))
                ELSE [tabs[r] EXCEPT !.older = @ \ {s}]]
          /\ creating' = {Without(c, {s}) : c \in creating}
                         \union {[slot |-> s, trace |-> m.trace, pid |-> m.pid]}
          /\ closing' = [t \in Traces |-> Without(closing[t], {s})]
    /\ UNCHANGED <<closedOwners, cancelled, slept, worker>>

HandleStart ==
    /\ \E m \in Deliverable("start") :
          /\ requests' = requests \ {m}
          /\ RefuseStart(m) \/ ReuseTab(m) \/ CreateTab(m)
    /\ UNCHANGED <<helper, marred, calls>>

FinishCreate ==
    /\ \E c \in creating :
          /\ c.slot # 0
          /\ tabs' = [tabs EXCEPT ![c.slot].initializing = FALSE]
          /\ creating' = creating \ {c}
          /\ worker' = Leased(c, TRUE)
    /\ UNCHANGED <<closing, closedOwners, cancelled, slept, helper, requests, marred, calls>>

(* The surface did not load, or the tab was removed while it did. *)
FailCreate ==
    /\ \E c \in creating :
          /\ tabs' = [s \in Slots |-> IF s = c.slot THEN NoTab ELSE tabs[s]]
          /\ closedOwners' = ClosedBy({c.slot} \ {0}, TRUE)
          /\ creating' = creating \ {c}
          /\ closing' = [t \in Traces |-> Without(closing[t], {c.slot})]
          /\ worker' = Leased(c, FALSE)
    /\ UNCHANGED <<cancelled, slept, helper, requests, marred, calls>>

(* The tab a worker has leased, and drives once its surface is there. *)
Holds(t, s) ==
    /\ worker[t].phase = "working" /\ ProcessRunning(worker[t].pid)
    /\ tabs[s].trace = t /\ tabs[s].pid = worker[t].pid /\ Status(s) = "running"
Drives(t, s) == Holds(t, s) /\ ~tabs[s].initializing

(* The worker's navigation reached ChatGPT. *)
Boot ==
    /\ \E t \in Traces, s \in Slots : Drives(t, s) /\ ~tabs[s].booted
          /\ tabs' = [tabs EXCEPT ![s].booted = TRUE, ![s].bootAge = 0]
    /\ UNCHANGED <<creating, closing, closedOwners, cancelled, slept, worker, helper,
                   requests, marred, calls>>

(* After a navigation the ownership mark could not be written. *)
MarkFails ==
    /\ Trouble
    /\ \E t \in Traces, s \in Slots : Drives(t, s)
          /\ tabs' = [tabs EXCEPT ![s].status = "error"]
          /\ marred' = marred \union {t}
    /\ UNCHANGED <<creating, closing, closedOwners, cancelled, slept, worker, helper,
                   requests>>

-----------------------------------------------------------------------------
(* endTurn *)

ByUser(m) == cancelled[m.trace] = m.pid

(* The tab is gone: only the recorded owner is acknowledged, and once. *)
EndClosed(m) ==
    /\ TabsOf(m.trace) = {}
    /\ worker' = Ended(m, closedOwners[m.trace] = m.pid, ByUser(m))
    /\ closedOwners' = [closedOwners EXCEPT ![m.trace] = IF @ = m.pid THEN 0 ELSE @]
    /\ UNCHANGED <<tabs, creating, closing>>

EndMismatch(m, s) ==
    /\ tabs[s].pid # m.pid
    /\ worker' = Ended(m, FALSE, FALSE)
    /\ UNCHANGED <<tabs, creating, closing, closedOwners>>

Retain(m, s) ==
    /\ tabs[s].pid = m.pid /\ m.keep
    /\ worker' = Ended(m, TRUE, ByUser(m))
    /\ tabs' = [tabs EXCEPT ![s].status = "ready", ![s].age = 0]
    /\ UNCHANGED <<creating, closing, closedOwners>>

Discard(m, s) ==
    /\ tabs[s].pid = m.pid /\ ~m.keep
    /\ worker' = Ended(m, TRUE, ByUser(m))
    /\ RemoveTabs({s}, FALSE)

HandleEnd ==
    /\ \E m \in Deliverable("end") :
          /\ requests' = requests \ {m}
          /\ \/ EndClosed(m)
             \/ \E s \in FirstOf(m.trace) : EndMismatch(m, s) \/ Retain(m, s) \/ Discard(m, s)
    /\ UNCHANGED <<cancelled, slept, helper, marred, calls>>

(* releaseRetainedConversation, when a compaction superseded the chat. *)
Release ==
    /\ \E t \in Traces : Retained(Conversation[t]) # {}
          /\ RemoveTabs(Retained(Conversation[t]), FALSE)
    /\ UNCHANGED <<cancelled, slept, worker, helper, requests, marred, calls>>

-----------------------------------------------------------------------------
(* closeTab: the user closes a tab *)

CloseIdleTab ==
    /\ \E s \in Slots : Status(s) \in {"ready", "error"} /\ RemoveTabs({s}, TRUE)
    /\ UNCHANGED <<cancelled, slept, worker, helper, requests, marred, calls>>

NotClosing == [waiting |-> FALSE, slot |-> 0, answered |-> FALSE]

CloseRunningTab ==
    /\ \E s \in Slots :
          /\ Status(s) = "running" /\ ~closing[tabs[s].trace].waiting
          /\ IF worker[tabs[s].trace].phase = "idle" THEN UNCHANGED calls ELSE Trouble
          /\ cancelled' = [cancelled EXCEPT ![tabs[s].trace] = tabs[s].pid]
          /\ closing' = [closing EXCEPT ![tabs[s].trace] =
                            [waiting |-> TRUE, slot |-> s, answered |-> FALSE]]
    /\ UNCHANGED <<tabs, creating, closedOwners, slept, worker, helper, requests, marred>>

(* cancelTrace answers when the turn's surface was reported released, or knows no such turn. *)
CancelAnswered ==
    /\ \E t \in Traces :
          /\ closing[t].waiting /\ ~closing[t].answered /\ worker[t].phase = "idle"
          /\ closing' = [closing EXCEPT ![t].answered = TRUE]
    /\ UNCHANGED <<tabs, creating, closedOwners, cancelled, slept, worker, helper, requests,
                   marred, calls>>

(* The runtime is unavailable, too late, or the settlement was rejected: the tab stays. *)
CancelFails ==
    /\ \E t \in Traces :
          /\ closing[t].waiting /\ ~closing[t].answered
          /\ closing' = [closing EXCEPT ![t] = NotClosing]
    /\ UNCHANGED <<tabs, creating, closedOwners, cancelled, slept, worker, helper, requests,
                   marred, calls>>

FinishClose ==
    /\ \E t \in Traces :
          /\ closing[t].answered
          /\ LET S == {closing[t].slot} \ {0} IN
             /\ tabs' = [s \in Slots |-> IF s \in S THEN NoTab ELSE tabs[s]]
             /\ closedOwners' = ClosedBy(S, TRUE)
             /\ creating' = {Without(c, S) : c \in creating}
             /\ closing' = [u \in Traces |->
                    IF u = t THEN NotClosing ELSE Without(closing[u], S)]
    /\ UNCHANGED <<cancelled, slept, worker, helper, requests, marred, calls>>

-----------------------------------------------------------------------------
(* Leases and time *)

Capped(n, bound) == IF n > bound THEN bound ELSE n
AgeLimit == IF HeartbeatTimeout > RetainedTtl THEN HeartbeatTimeout ELSE RetainedTtl

Aged(tab, n) ==
    IF tab.status \in {"running", "ready"}
    THEN [tab EXCEPT !.age = Capped(@ + n, AgeLimit),
                     !.bootAge = IF tab.booted THEN 0 ELSE Capped(@ + n, BootstrapTimeout)]
    ELSE tab

(* heartbeatTurn finds the first tab of the trace; an error tab may hide the running one. *)
Beats(s) == \E t \in Traces : Holds(t, s) /\ s \in FirstOf(t)
Heartbeat(s, tab) == IF Beats(s) THEN [tab EXCEPT !.age = 0] ELSE tab

(* refreshTurnLeases *)
Refreshed(tab) ==
    IF tab.status = "running" THEN [tab EXCEPT !.age = 0, !.bootAge = 0] ELSE tab

(* Both processes are frozen; the resume event, if the system sends one, comes first on waking. *)
Sleep ==
    /\ Trouble
    /\ \E n \in 1..LongestSleep, resumed \in BOOLEAN :
          /\ tabs' = [s \in Slots |-> IF resumed THEN Refreshed(Aged(tabs[s], n)) ELSE Aged(tabs[s], n)]
          /\ slept' = slept + n
    /\ UNCHANGED <<creating, closing, closedOwners, cancelled, worker, helper, requests, marred>>

ExpiredUnbooted(tab) ==     \* mutant: the heartbeat lease is forgotten
    \/ tab.status = "ready" /\ tab.age >= RetainedTtl
    \/ tab.status = "running" /\ ~tab.booted /\ tab.bootAge >= BootstrapTimeout

(* reapExpiredTurnTabs *)
Expired(tab) ==
    \/ tab.status = "ready" /\ tab.age >= RetainedTtl
    \/ tab.status = "running" /\ ~tab.booted /\ tab.bootAge >= BootstrapTimeout
    \/ tab.status = "running" /\ tab.booted /\ tab.age >= HeartbeatTimeout

SuspensionGap == 1      \* six sweep intervals, 30 s: at most a unit
SleepMissed == slept > SuspensionGap      \* mutant: off by one

SleepSuspected == slept >= SuspensionGap

Reap(aged) ==
    LET S == {s \in Slots : Expired(aged[s])} IN
    /\ tabs' = [s \in Slots |-> IF s \in S THEN NoTab ELSE aged[s]]
    /\ closedOwners' = ClosedBy(S, TRUE)
    /\ Detach(S)

(* One awake unit: heartbeats of live workers arrive every 10 s, requests  *)
(* reach the launcher's event loop over loopback, a start or an end was    *)
(* answered or given up, and sweeps run every 5 s, the last one at its end.*)
Awake ==
    /\ slept = 0 /\ requests = {}
    /\ \A t \in Traces : worker[t].phase \notin {"starting", "ending"}
    /\ Reap([s \in Slots |-> Heartbeat(s, Aged(tabs[s], 1))])
    /\ UNCHANGED <<cancelled, slept, worker, helper, requests, marred, calls>>

(* The first sweep after the computer slept. *)
WakingSweep ==
    /\ slept > 0
    /\ IF SleepSuspected
       THEN tabs' = [s \in Slots |-> Refreshed(tabs[s])] /\ UNCHANGED <<creating, closing, closedOwners>>
       ELSE Reap(tabs)
    /\ slept' = 0
    /\ UNCHANGED <<cancelled, worker, helper, requests, marred, calls>>

-----------------------------------------------------------------------------
Init ==
    /\ tabs = [s \in Slots |-> NoTab]
    /\ creating = {}
    /\ closing = [t \in Traces |-> NotClosing]
    /\ closedOwners = [t \in Traces |-> 0]
    /\ cancelled = [t \in Traces |-> 0]
    /\ slept = 0
    /\ worker = [t \in Traces |-> NoWorker]
    /\ helper = 1
    /\ requests = {}
    /\ marred = {}
    /\ calls = [starts |-> [k \in DOMAIN MaxStarts |-> 0], troubles |-> 0]

Next ==
    \/ \E t \in Traces : Start(t) \/ GiveUp(t) \/ End(t)
    \/ HelperExits \/ BackendRestarts
    \/ HandleStart \/ FinishCreate \/ FailCreate \/ Boot \/ MarkFails
    \/ HandleEnd \/ Release
    \/ CloseIdleTab \/ CloseRunningTab \/ CancelAnswered \/ CancelFails \/ FinishClose
    \/ Sleep \/ Awake \/ WakingSweep

(* Time passes with its sweeps, the launcher's event loop runs, timeouts fire. *)
Progress == Awake \/ WakingSweep \/ HandleStart \/ HandleEnd \/ \E t \in Traces : GiveUp(t)

Spec == Init /\ [][Next]_vars /\ WF_vars(Progress)

-----------------------------------------------------------------------------
(* A live worker with a lease has its tab, or the launcher remembers that  *)
(* it closed it, so that the worker's end is acknowledged: whatever the    *)
(* user closes, the sweep reclaims, or late starts do to the trace.        *)
LeaseOnRecord ==
    \A t \in Traces \ marred :
        worker[t].phase = "working" /\ ProcessRunning(worker[t].pid) =>
            \/ \E s \in TabsOf(t) : tabs[s].pid = worker[t].pid /\ Status(s) = "running"
            \/ closedOwners[t] = worker[t].pid

(* A turn is found by its trace and a chat by its conversation: neither    *)
(* ever names two tabs, which would cut a live turn off from its           *)
(* heartbeats, or block the conversation ("owns multiple browser tabs").   *)
TabsAreUnambiguous ==
    /\ \A t \in Traces \ marred : Cardinality(TabsOf(t)) <= 1
    /\ \A t \in Traces : ~Ambiguous(Conversation[t])

(* Sleep of the computer never costs a live turn its browser: a sweep that *)
(* removes the tab of a working turn found a page that never loaded.       *)
SuspensionSparesLiveTurns ==
    [][\A t \in Traces \ marred, s \in Slots :
          (Awake \/ WakingSweep) /\ Holds(t, s) /\ tabs[s].booted => tabs'[s] \in {tabs[s], Refreshed(tabs[s])}]_vars

(* A running tab nobody drives any more (its start came too late, its      *)
(* helper died, its end was lost) is reclaimed or leased again.            *)
Abandoned(s) ==
    /\ Status(s) = "running"
    /\ \A t \in Traces : tabs[s].trace = t => worker[t].phase \notin {"starting", "working"}
AbandonedTabsAreReclaimed == \A s \in Slots : []<>~Abandoned(s)
=============================================================================
