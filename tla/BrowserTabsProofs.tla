------------------------- MODULE BrowserTabsProofs -------------------------
(***************************************************************************)
(* Safety of BrowserTabs for every set of turns and conversations, every   *)
(* number of tabs, every timeout and every bound: leases stay on record,   *)
(* names stay unique and a sleep of the computer costs no live turn its    *)
(* tab.  What has to be kept is which requests may still arrive: those of  *)
(* the running helper belong to a turn that waits for them, older ones     *)
(* arrive before a younger helper's lease is granted.                      *)
(***************************************************************************)
EXTENDS BrowserTabs, FiniteSetTheorems, TLAPS

-----------------------------------------------------------------------------
(* Types *)

Statuses == {"none", "running", "ready", "error"}
Tab == [status : Statuses, trace : Traces \union {None}, pid : Nat, initializing : BOOLEAN,
        booted : BOOLEAN, age : Nat, bootAge : Nat, older : SUBSET Slots]
Creation == [slot : Slots \union {0}, trace : Traces, pid : Nat]
Closing == [waiting : BOOLEAN, slot : Slots \union {0}, answered : BOOLEAN]
Worker == [phase : {"idle", "starting", "working", "ending", "unreleased"}, pid : Nat,
           by : {"worker", "parent"}]
Starts == [kind : {"start"}, trace : Traces, pid : Nat, by : {"worker"}]
Ends == [kind : {"end"}, trace : Traces, pid : Nat, by : {"worker", "parent"}, keep : BOOLEAN]

\* The counters in calls only bound the model.
TypeOK ==
    /\ tabs \in [Slots -> Tab]
    /\ creating \subseteq Creation
    /\ closing \in [Traces -> Closing]
    /\ closedOwners \in [Traces -> Nat]
    /\ cancelled \in [Traces -> Nat]
    /\ slept \in Nat
    /\ worker \in [Traces -> Worker]
    /\ helper \in Nat \ {0}
    /\ requests \subseteq Starts \union Ends
    /\ marred \subseteq Traces

-----------------------------------------------------------------------------
(* The inductive invariant *)

\* Only the running helper has live workers, and nobody has seen a later one.
PidsKnown ==
    /\ \A t \in Traces :
          /\ worker[t].pid <= helper
          /\ worker[t].phase \in {"starting", "working"} =>
                worker[t].pid = helper /\ worker[t].by = "worker"
          /\ worker[t].phase = "ending" =>
                IF worker[t].by = "worker" THEN worker[t].pid = helper ELSE worker[t].pid < helper
    /\ \A m \in requests :
          /\ m.pid <= helper /\ m.pid <= worker[m.trace].pid
          /\ m.kind = "start" => m.pid > 0
          /\ m.kind = "end" /\ m.by = "parent" => m.pid < helper /\ ~m.keep
    /\ \A c \in creating : c.pid <= helper

\* A tab belongs to a turn that was started, and fails only with its turn's mark.
TabsRecorded ==
    \A s \in Slots :
        /\ Status(s) = "none" <=> tabs[s].trace = None
        /\ tabs[s].trace # None => worker[tabs[s].trace].pid > 0
        /\ Status(s) = "error" => tabs[s].trace \in marred

OneTabPerTurn ==
    \A s, r \in Slots :
        tabs[s].trace = tabs[r].trace /\ tabs[s].trace # None /\ tabs[s].trace \notin marred => s = r

\* What the running helper has asked for: at most one thing per turn, which waits for it.
Awaited(t) == worker[t].phase \in {"starting", "unreleased"} /\ worker[t].pid = helper
Finishing(t) == worker[t].phase \in {"ending", "unreleased"} /\ worker[t].pid = helper
                /\ worker[t].by = "worker"

StartsAwaited ==
    /\ \A m \in requests : m.kind = "start" /\ m.pid = helper =>
          Awaited(m.trace) /\ \A c \in creating : c.trace = m.trace => c.pid # helper
    /\ \A c \in creating : c.pid = helper =>
          Awaited(c.trace) /\ \A d \in creating : d.pid = helper /\ d.trace = c.trace => c = d

EndsAwaited ==
    \A m \in requests : m.kind = "end" /\ m.by = "worker" /\ m.pid = helper =>
        /\ Finishing(m.trace)
        /\ \A n \in requests :
              n.kind = "end" /\ n.by = "worker" /\ n.pid = helper /\ n.trace = m.trace => m = n

\* A lease of the running helper was granted after every request of its predecessors.
OldRequestsGone ==
    \/ \A m \in requests : m.by = "worker" => m.pid = helper
    \/ /\ \A t \in Traces : worker[t].phase # "working"
       /\ \A c \in creating : c.pid # helper

\* The tab whose surface is awaited is its turn's tab, unless it is gone.
CreationsOnRecord ==
    \A c \in creating : c.slot # 0 =>
        /\ \A d \in creating : d.slot = c.slot => c = d
        /\ worker[c.trace].phase = "starting" /\ c.pid = helper /\ c.trace \notin marred =>
              Status(c.slot) = "running" /\ tabs[c.slot].trace = c.trace /\ tabs[c.slot].pid = helper

LeaseKept ==
    \A t \in Traces \ marred : worker[t].phase = "working" =>
        \/ \E s \in TabsOf(t) : tabs[s].pid = helper /\ Status(s) = "running"
        \/ TabsOf(t) = {} /\ closedOwners[t] = helper

\* The turns of a conversation come one after another, and so do their requests ...
Earlier(t, u) == t # u /\ u \in Newer[t] /\ Conversation[t] = Conversation[u]
OwnEnd(m, t) == m.kind = "end" /\ m.by = "worker" /\ m.trace = t

TurnsInOrder ==
    \A t, u \in Traces : Earlier(t, u) =>
        /\ worker[t].phase # "idle" => worker[u].pid = 0
        /\ \A m, n \in requests : OwnEnd(m, t) /\ n.kind = "start" /\ n.trace = u => m.pid < n.pid

\* ... and their tabs: a turn with a tab has taken over what its predecessors retained.
TabsFollowTurns ==
    \A t, u \in Traces : Earlier(t, u) /\ TabsOf(u) # {} =>
        /\ \A m \in requests : ~OwnEnd(m, t)
        /\ \A s \in TabsOf(t) : Status(s) # "ready"

\* turnTabs is ordered, and a retained tab is the first of its turn.
TabsInOrder ==
    /\ \A s, r \in Slots : s # r /\ Status(s) # "none" /\ Status(r) # "none" =>
          s \in tabs[r].older \/ r \in tabs[s].older
    /\ \A s \in Slots : s \notin tabs[s].older
    /\ \A s \in Slots : Status(s) = "ready" => s \in FirstOf(tabs[s].trace)

Protocol ==
    /\ PidsKnown
    /\ StartsAwaited
    /\ EndsAwaited
    /\ OldRequestsGone
    /\ TurnsInOrder

Records ==
    /\ TabsRecorded
    /\ OneTabPerTurn
    /\ CreationsOnRecord
    /\ LeaseKept
    /\ TabsFollowTurns
    /\ TabsInOrder

TabsInv == TypeOK /\ Protocol /\ Records

-----------------------------------------------------------------------------
(* Slots and conversations *)

\* What the assumptions say of the constants.
LEMMA Constants ==
    /\ Slots \subseteq Nat /\ 0 \notin Slots /\ IsFiniteSet(Slots)
    /\ None \notin Traces
    /\ HeartbeatTimeout \in Nat \ {0} /\ BootstrapTimeout \in Nat \ {0}
    /\ RetainedTtl \in Nat /\ LongestSleep \in Nat
BY TabsAssumption, FS_Interval DEF Slots

LEMMA AtMostOne ==
  ASSUME NEW S \in SUBSET Slots, \A x, y \in S : x = y
  PROVE  Cardinality(S) <= 1
<1>1. CASE S = {}
  BY <1>1, FS_EmptySet
<1>2. CASE S # {}
  <2>1. PICK x \in S : TRUE
    BY <1>2
  <2>2. S = {x}
    BY <2>1
  <2> QED BY <2>2, FS_Singleton
<1> QED BY <1>1, <1>2

\* What an unambiguous conversation means for its retained tabs.
LEMMA AllTheSame ==
  ASSUME NEW S \in SUBSET Slots, ~(Cardinality(S) > 1), NEW x \in S, NEW y \in S
  PROVE  x = y
<1> SUFFICES ASSUME x # y PROVE FALSE
  OBVIOUS
<1>1. IsFiniteSet({x}) /\ Cardinality({x}) = 1
  BY FS_Singleton
<1>2. Cardinality({x} \union {y}) = 2
  <2>1. Cardinality({x} \union {y}) = Cardinality({x}) + 1
    BY <1>1, FS_AddElement
  <2> QED BY <1>1, <2>1
<1>3. IsFiniteSet(S)
  BY Constants, FS_Subset
<1>4. Cardinality({x} \union {y}) <= Cardinality(S) /\ Cardinality(S) \in Nat
  BY <1>3, FS_Subset, FS_CardinalityType
<1> QED BY <1>2, <1>4

LEMMA OneRetained ==
  ASSUME NEW k, ~Ambiguous(k), NEW x \in Retained(k), NEW y \in Retained(k)
  PROVE  x = y
BY AllTheSame DEF Ambiguous, Retained

-----------------------------------------------------------------------------
(* The steps keep their types *)

LEMMA NoTabType == NoTab \in Tab
BY Constants DEF NoTab, Tab, Statuses

LEMMA CreationWithout ==
  ASSUME NEW c \in Creation, NEW S
  PROVE  /\ Without(c, S) \in Creation
         /\ Without(c, S).trace = c.trace /\ Without(c, S).pid = c.pid
         /\ Without(c, S).slot = IF c.slot \in S THEN 0 ELSE c.slot
BY DEF Without, Creation

LEMMA ClosingWithout ==
  ASSUME NEW c \in Closing, NEW S
  PROVE  Without(c, S) \in Closing
BY DEF Without, Closing

LEMMA AgedType ==
  ASSUME NEW tab \in Tab, NEW n \in Nat
  PROVE  /\ Aged(tab, n) \in Tab
         /\ Aged(tab, n).status = tab.status /\ Aged(tab, n).trace = tab.trace
         /\ Aged(tab, n).pid = tab.pid /\ Aged(tab, n).older = tab.older
         /\ Aged(tab, n).booted = tab.booted
<1>1. AgeLimit \in Nat
  BY Constants DEF AgeLimit
<1>2. \A i, bound \in Nat : Capped(i, bound) \in Nat
  BY DEF Capped
<1>3. CASE tab.status \in {"running", "ready"}
  <2> DEFINE a == Capped(tab.age + n, AgeLimit)
             b == IF tab.booted THEN 0 ELSE Capped(tab.bootAge + n, BootstrapTimeout)
  <2>1. a \in Nat /\ b \in Nat
    <3>1. tab.age + n \in Nat /\ tab.bootAge + n \in Nat
      BY DEF Tab
    <3>2. Capped(tab.age + n, AgeLimit) \in Nat /\ Capped(tab.bootAge + n, BootstrapTimeout) \in Nat
      BY <1>1, <1>2, <3>1, Constants
    <3> QED BY <3>2
  <2>2. Aged(tab, n) = [tab EXCEPT !.age = a, !.bootAge = b]
    BY <1>3 DEF Aged, Tab
  <2> HIDE DEF a, b
  <2> QED BY <2>1, <2>2 DEF Tab
<1>4. CASE ~(tab.status \in {"running", "ready"})
  <2>1. Aged(tab, n) = tab
    BY <1>4 DEF Aged
  <2> QED BY <2>1
<1> QED BY <1>3, <1>4

LEMMA RefreshedType ==
  ASSUME NEW tab \in Tab
  PROVE  /\ Refreshed(tab) \in Tab
         /\ Refreshed(tab).status = tab.status /\ Refreshed(tab).trace = tab.trace
         /\ Refreshed(tab).pid = tab.pid /\ Refreshed(tab).older = tab.older
BY DEF Refreshed, Tab

LEMMA HeartbeatType ==
  ASSUME NEW s \in Slots, NEW tab \in Tab
  PROVE  /\ Heartbeat(s, tab) \in Tab
         /\ Heartbeat(s, tab).status = tab.status /\ Heartbeat(s, tab).trace = tab.trace
         /\ Heartbeat(s, tab).pid = tab.pid /\ Heartbeat(s, tab).older = tab.older
BY DEF Heartbeat, Tab

LEMMA ClosedByType ==
  ASSUME TypeOK, NEW S \in SUBSET Slots, NEW abortRunning \in BOOLEAN
  PROVE  ClosedBy(S, abortRunning) \in [Traces -> Nat]
<1>1. ASSUME NEW t \in Traces, \E s \in S : Status(s) = "running" /\ tabs[s].trace = t
      PROVE  tabs[CHOOSE s \in S : Status(s) = "running" /\ tabs[s].trace = t].pid \in Nat
  <2>1. (CHOOSE s \in S : Status(s) = "running" /\ tabs[s].trace = t) \in Slots
    BY <1>1
  <2> QED BY <2>1 DEF TypeOK, Tab
<1> QED BY <1>1 DEF ClosedBy, TypeOK

\* What the answers of the launcher do to a worker.
LEMMA LeasedFacts ==
  ASSUME TypeOK, NEW m, m.trace \in Traces, NEW granted \in BOOLEAN
  PROVE  /\ Leased(m, granted) \in [Traces -> Worker]
         /\ \A t \in Traces :
               /\ Leased(m, granted)[t].pid = worker[t].pid
               /\ Leased(m, granted)[t].by = worker[t].by
               /\ Leased(m, granted)[t].phase =
                     IF t = m.trace /\ worker[t].phase = "starting" /\ worker[t].pid = m.pid
                     THEN IF granted THEN "working" ELSE "unreleased"
                     ELSE worker[t].phase
BY DEF Leased, TypeOK, Worker

LEMMA EndedFacts ==
  ASSUME TypeOK, NEW m, m.trace \in Traces, NEW acknowledged, NEW byUser
  PROVE  /\ Ended(m, acknowledged, byUser) \in [Traces -> Worker]
         /\ \A t \in Traces :
               /\ Ended(m, acknowledged, byUser)[t].pid = worker[t].pid
               /\ Ended(m, acknowledged, byUser)[t].by = worker[t].by
               /\ \/ Ended(m, acknowledged, byUser)[t].phase = worker[t].phase
                  \/ /\ t = m.trace /\ worker[t].phase = "ending"
                     /\ worker[t].pid = m.pid /\ worker[t].by = m.by
                     /\ Ended(m, acknowledged, byUser)[t].phase \in {"idle", "unreleased"}
BY DEF Ended, Reported, TypeOK, Worker

\* What every operation on the tabs relies on.
LEMMA TabFacts ==
  ASSUME TypeOK
  PROVE  /\ \A s \in Slots : tabs[s] \in Tab
         /\ \A t \in Traces : worker[t] \in Worker
         /\ \A m \in requests : m \in Starts \union Ends /\ m.trace \in Traces /\ m.pid \in Nat
         /\ \A c \in creating : c \in Creation
BY DEF TypeOK, Starts, Ends

LEMMA RemovedTypes ==
  ASSUME TypeOK, NEW S \in SUBSET Slots
  PROVE  /\ [s \in Slots |-> IF s \in S THEN NoTab ELSE tabs[s]] \in [Slots -> Tab]
         /\ {Without(c, S) : c \in creating} \subseteq Creation
         /\ [t \in Traces |-> Without(closing[t], S)] \in [Traces -> Closing]
<1>1. [s \in Slots |-> IF s \in S THEN NoTab ELSE tabs[s]] \in [Slots -> Tab]
  BY TabFacts, NoTabType
<1>2. \A c \in creating : Without(c, S) \in Creation
  BY TabFacts, CreationWithout
<1>3. \A t \in Traces : Without(closing[t], S) \in Closing
  BY ClosingWithout DEF TypeOK
<1> QED BY <1>1, <1>2, <1>3

LEMMA RequestTypes ==
  ASSUME TypeOK, NEW t \in Traces, NEW by \in {"worker", "parent"}, NEW keep \in BOOLEAN
  PROVE  StartRequest(t) \in Starts /\ EndRequest(t, by, keep) \in Ends
BY TabFacts DEF StartRequest, EndRequest, Starts, Ends, TypeOK, Worker

\* The two ways a tab changes hands.
LeasedTab(tab, t, p, b) ==
    [tab EXCEPT !.status = "running", !.trace = t, !.pid = p, !.age = 0, !.booted = b, !.bootAge = 0]
RetainedTab(tab) == [tab EXCEPT !.status = "ready", !.age = 0]

LEMMA TabLeased ==
  ASSUME NEW tab \in Tab, NEW t \in Traces, NEW p \in Nat, NEW b \in BOOLEAN
  PROVE  /\ LeasedTab(tab, t, p, b) \in Tab
         /\ LeasedTab(tab, t, p, b).status = "running" /\ LeasedTab(tab, t, p, b).trace = t
         /\ LeasedTab(tab, t, p, b).pid = p /\ LeasedTab(tab, t, p, b).older = tab.older
BY DEF LeasedTab, Tab, Statuses

LEMMA TabRetained ==
  ASSUME NEW tab \in Tab
  PROVE  /\ RetainedTab(tab) \in Tab
         /\ RetainedTab(tab).status = "ready" /\ RetainedTab(tab).trace = tab.trace
         /\ RetainedTab(tab).pid = tab.pid /\ RetainedTab(tab).older = tab.older
BY DEF RetainedTab, Tab, Statuses

LEMMA LeaseFacts ==
  ASSUME TypeOK, NEW s \in Slots, NEW m, m.trace \in Traces, m.pid \in Nat
  PROVE  /\ Lease(s, m) \in Tab
         /\ Lease(s, m).status = "running" /\ Lease(s, m).trace = m.trace
         /\ Lease(s, m).pid = m.pid /\ Lease(s, m).older = tabs[s].older
<1> DEFINE b == tabs[s].booted /\ Status(s) = "ready"
<1>1. Lease(s, m) = LeasedTab(tabs[s], m.trace, m.pid, b)
  BY TabFacts DEF Lease, LeasedTab, Tab
<1>2. b \in BOOLEAN
  OBVIOUS
<1> HIDE DEF b
<1> QED BY <1>1, <1>2, TabLeased, TabFacts

LEMMA RetainFacts ==
  ASSUME TypeOK, NEW s \in Slots, NEW m, Retain(m, s)
  PROVE  /\ tabs' \in [Slots -> Tab]
         /\ tabs'[s].status = "ready" /\ tabs'[s].trace = tabs[s].trace
         /\ tabs'[s].pid = tabs[s].pid /\ tabs'[s].older = tabs[s].older
         /\ \A r \in Slots : r # s => tabs'[r] = tabs[r]
<1>1. tabs' = [tabs EXCEPT ![s] = RetainedTab(tabs[s])]
  BY TabFacts DEF Retain, RetainedTab, TypeOK, Tab
<1> QED BY <1>1, TabRetained, TabFacts DEF TypeOK

LEMMA StartTypes ==
  ASSUME TypeOK, HandleStart
  PROVE  TypeOK'
<1>1. PICK m \in Deliverable("start") :
          requests' = requests \ {m} /\ (RefuseStart(m) \/ ReuseTab(m) \/ CreateTab(m))
  BY DEF HandleStart
<1>2. m \in requests /\ m.trace \in Traces /\ m.pid \in Nat
  BY <1>1, TabFacts DEF Deliverable
<1>3. /\ requests' \subseteq Starts \union Ends
      /\ UNCHANGED <<helper, marred>>
  BY <1>1 DEF HandleStart, TypeOK
<1>4. CASE RefuseStart(m)
  <2>1. worker' \in [Traces -> Worker]
    BY <1>2, <1>4, LeasedFacts DEF RefuseStart
  <2> QED BY <1>3, <1>4, <2>1 DEF RefuseStart, TypeOK, host
<1>5. CASE ReuseTab(m)
  <2>1. worker' \in [Traces -> Worker]
    BY <1>2, <1>5, LeasedFacts DEF ReuseTab
  <2>2. PICK s \in FirstTabs(m.trace) : \E e \in Existing(s, m) : tabs' = [tabs EXCEPT ![e] = Lease(e, m)]
    BY <1>5 DEF ReuseTab
  <2>3. PICK e \in Existing(s, m) : tabs' = [tabs EXCEPT ![e] = Lease(e, m)]
    BY <2>2
  <2>4. e \in Slots
    BY <2>2, <2>3 DEF Existing, SameRuns, Retained, FirstTabs, FirstOf, TabsOf
  <2>5. Lease(e, m) \in Tab
    BY <1>2, <2>4, LeaseFacts
  <2>6. tabs' \in [Slots -> Tab]
    BY <2>3, <2>5 DEF TypeOK
  <2> QED BY <1>3, <1>5, <2>1, <2>6 DEF ReuseTab, TypeOK
<1>6. CASE CreateTab(m)
  <2>1. PICK s \in IF FreeSlots # {} THEN {f \in FreeSlots : \A r \in FreeSlots : f <= r}
                   ELSE Reclaimable :
          /\ tabs' = [r \in Slots |->
                IF r = s THEN NewTab(m.trace, m.pid, Slots \ (FreeSlots \union {s}))
                ELSE [tabs[r] EXCEPT !.older = @ \ {s}]]
          /\ creating' = {Without(c, {s}) : c \in creating}
                         \union {[slot |-> s, trace |-> m.trace, pid |-> m.pid]}
          /\ closing' = [t \in Traces |-> Without(closing[t], {s})]
    BY <1>6 DEF CreateTab
  <2>2. s \in Slots
    BY <2>1 DEF FreeSlots, Reclaimable
  <2>3. NewTab(m.trace, m.pid, Slots \ (FreeSlots \union {s})) \in Tab
    BY <1>2, Constants DEF NewTab, NoTab, Tab, Statuses
  <2>4. \A r \in Slots : [tabs[r] EXCEPT !.older = @ \ {s}] \in Tab
    BY TabFacts DEF Tab
  <2>5. tabs' \in [Slots -> Tab]
    BY <2>1, <2>3, <2>4
  <2>6. creating' \subseteq Creation
    BY <1>2, <2>1, <2>2, RemovedTypes DEF Creation
  <2>7. closing' \in [Traces -> Closing]
    BY <2>1, <2>2, RemovedTypes
  <2> QED BY <1>3, <1>6, <2>5, <2>6, <2>7 DEF CreateTab, TypeOK
<1> QED BY <1>1, <1>4, <1>5, <1>6

LEMMA TabInitialized ==
  ASSUME NEW tab \in Tab
  PROVE  [tab EXCEPT !.initializing = FALSE] \in Tab
BY DEF Tab

LEMMA CreateTypes ==
  ASSUME TypeOK, FinishCreate \/ FailCreate
  PROVE  TypeOK'
<1>1. CASE FinishCreate
  <2>1. PICK c \in creating :
          /\ c.slot # 0
          /\ tabs' = [tabs EXCEPT ![c.slot].initializing = FALSE]
          /\ creating' = creating \ {c}
          /\ worker' = Leased(c, TRUE)
    BY <1>1 DEF FinishCreate
  <2>2. c \in Creation /\ c.slot \in Slots /\ c.trace \in Traces
    BY <2>1, TabFacts DEF Creation
  <2>3. worker' \in [Traces -> Worker]
    BY <2>1, <2>2, LeasedFacts
  <2> DEFINE tab == [tabs[c.slot] EXCEPT !.initializing = FALSE]
  <2>4. tab \in Tab
    BY <2>2, TabFacts, TabInitialized
  <2>5. tabs' = [tabs EXCEPT ![c.slot] = tab]
    BY <2>1
  <2> HIDE DEF tab
  <2>6. tabs' \in [Slots -> Tab]
    BY <2>4, <2>5 DEF TypeOK
  <2> QED BY <1>1, <2>1, <2>3, <2>6 DEF FinishCreate, TypeOK
<1>2. CASE FailCreate
  <2>1. PICK c \in creating :
          /\ tabs' = [s \in Slots |-> IF s = c.slot THEN NoTab ELSE tabs[s]]
          /\ closedOwners' = ClosedBy({c.slot} \ {0}, TRUE)
          /\ creating' = creating \ {c}
          /\ closing' = [t \in Traces |-> Without(closing[t], {c.slot})]
          /\ worker' = Leased(c, FALSE)
    BY <1>2 DEF FailCreate
  <2>2. c \in Creation /\ c.trace \in Traces /\ {c.slot} \ {0} \in SUBSET Slots
    BY <2>1, TabFacts DEF Creation
  <2>3. worker' \in [Traces -> Worker]
    BY <2>1, <2>2, LeasedFacts
  <2>4. tabs' \in [Slots -> Tab]
    BY <2>1, NoTabType, TabFacts
  <2>5. closedOwners' \in [Traces -> Nat]
    BY <2>1, <2>2, ClosedByType
  <2>6. closing' \in [Traces -> Closing]
    BY <2>1, ClosingWithout DEF TypeOK
  <2> QED BY <1>2, <2>1, <2>3, <2>4, <2>5, <2>6 DEF FailCreate, TypeOK
<1> QED BY <1>1, <1>2

LEMMA EndTypes ==
  ASSUME TypeOK, HandleEnd
  PROVE  TypeOK'
<1>1. PICK m \in Deliverable("end") :
          /\ requests' = requests \ {m}
          /\ \/ EndClosed(m)
             \/ \E s \in FirstOf(m.trace) : EndMismatch(m, s) \/ Retain(m, s) \/ Discard(m, s)
  BY DEF HandleEnd
<1>2. m \in requests /\ m.trace \in Traces
  BY <1>1, TabFacts DEF Deliverable
<1>3. /\ requests' \subseteq Starts \union Ends
      /\ UNCHANGED <<cancelled, slept, helper, marred>>
  BY <1>1 DEF HandleEnd, TypeOK
<1>4. CASE EndClosed(m)
  <2>1. worker' \in [Traces -> Worker]
    BY <1>2, <1>4, EndedFacts DEF EndClosed
  <2>2. closedOwners' \in [Traces -> Nat]
    BY <1>4 DEF EndClosed, TypeOK
  <2> QED BY <1>3, <1>4, <2>1, <2>2 DEF EndClosed, TypeOK
<1>5. ASSUME NEW s \in FirstOf(m.trace), EndMismatch(m, s)
      PROVE  TypeOK'
  <2>1. worker' \in [Traces -> Worker]
    BY <1>2, <1>5, EndedFacts DEF EndMismatch
  <2> QED BY <1>3, <1>5, <2>1 DEF EndMismatch, TypeOK
<1>6. ASSUME NEW s \in FirstOf(m.trace), Retain(m, s)
      PROVE  TypeOK'
  <2>1. worker' \in [Traces -> Worker]
    BY <1>2, <1>6, EndedFacts DEF Retain
  <2>2. tabs' \in [Slots -> Tab]
    BY <1>6, RetainFacts DEF FirstOf, TabsOf
  <2> QED BY <1>3, <1>6, <2>1, <2>2 DEF Retain, TypeOK
<1>7. ASSUME NEW s \in FirstOf(m.trace), Discard(m, s)
      PROVE  TypeOK'
  <2>1. worker' \in [Traces -> Worker]
    BY <1>2, <1>7, EndedFacts DEF Discard
  <2>2. s \in Slots
    BY DEF FirstOf, TabsOf
  <2>3. /\ tabs' \in [Slots -> Tab] /\ creating' \subseteq Creation
        /\ closing' \in [Traces -> Closing]
    BY <1>7, <2>2, RemovedTypes DEF Discard, RemoveTabs, Detach
  <2>4. closedOwners' \in [Traces -> Nat]
    BY <1>7, <2>2, ClosedByType DEF Discard, RemoveTabs
  <2> QED BY <1>3, <2>1, <2>3, <2>4 DEF TypeOK
<1> QED BY <1>1, <1>4, <1>5, <1>6, <1>7

LEMMA RemoveTypes ==
  ASSUME TypeOK, NEW S \in SUBSET Slots, NEW abortRunning \in BOOLEAN, RemoveTabs(S, abortRunning),
         UNCHANGED <<cancelled, slept, worker, helper, requests, marred>>
  PROVE  TypeOK'
<1>1. closedOwners' \in [Traces -> Nat]
  BY ClosedByType DEF RemoveTabs
<1>2. /\ tabs' \in [Slots -> Tab] /\ creating' \subseteq Creation
      /\ closing' \in [Traces -> Closing]
  BY RemovedTypes DEF RemoveTabs, Detach
<1> QED BY <1>1, <1>2 DEF TypeOK

LEMMA CloseTypes ==
  ASSUME TypeOK, Release \/ CloseIdleTab \/ CloseRunningTab \/ CancelAnswered \/ CancelFails \/ FinishClose
  PROVE  TypeOK'
<1>1. CASE Release
  <2>1. PICK t \in Traces : RemoveTabs(Retained(Conversation[t]), FALSE)
    BY <1>1 DEF Release
  <2>2. Retained(Conversation[t]) \in SUBSET Slots
    BY DEF Retained
  <2> QED BY <1>1, <2>1, <2>2, RemoveTypes DEF Release
<1>2. CASE CloseIdleTab
  <2>1. PICK s \in Slots : RemoveTabs({s}, TRUE)
    BY <1>2 DEF CloseIdleTab
  <2> QED BY <1>2, <2>1, RemoveTypes DEF CloseIdleTab
<1>3. CASE CloseRunningTab
  <2>1. PICK s \in Slots :
          /\ cancelled' = [cancelled EXCEPT ![tabs[s].trace] = tabs[s].pid]
          /\ closing' = [closing EXCEPT ![tabs[s].trace] =
                            [waiting |-> TRUE, slot |-> s, answered |-> FALSE]]
    BY <1>3 DEF CloseRunningTab
  <2>2. cancelled' \in [Traces -> Nat]
    BY <2>1 DEF TypeOK, Tab
  <2>3. closing' \in [Traces -> Closing]
    <3>1. [waiting |-> TRUE, slot |-> s, answered |-> FALSE] \in Closing
      BY DEF Closing
    <3> QED BY <2>1, <3>1 DEF TypeOK
  <2> QED BY <1>3, <2>2, <2>3 DEF CloseRunningTab, TypeOK
<1>4. CASE CancelAnswered
  <2>1. closing' \in [Traces -> Closing]
    <3>1. PICK t \in Traces : closing' = [closing EXCEPT ![t].answered = TRUE]
      BY <1>4 DEF CancelAnswered
    <3>2. \A c \in Closing : [c EXCEPT !.answered = TRUE] \in Closing
      BY DEF Closing
    <3>3. closing' = [closing EXCEPT ![t] = [closing[t] EXCEPT !.answered = TRUE]]
      BY <3>1
    <3> QED BY <3>2, <3>3 DEF TypeOK
  <2> QED BY <1>4, <2>1 DEF CancelAnswered, TypeOK
<1>5. CASE CancelFails
  <2>1. closing' \in [Traces -> Closing]
    BY <1>5 DEF CancelFails, NotClosing, TypeOK, Closing
  <2> QED BY <1>5, <2>1 DEF CancelFails, TypeOK
<1>6. CASE FinishClose
  <2>1. PICK t \in Traces :
          LET S == {closing[t].slot} \ {0} IN
          /\ tabs' = [s \in Slots |-> IF s \in S THEN NoTab ELSE tabs[s]]
          /\ closedOwners' = ClosedBy(S, TRUE)
          /\ creating' = {Without(c, S) : c \in creating}
          /\ closing' = [u \in Traces |->
                IF u = t THEN NotClosing ELSE Without(closing[u], S)]
    BY <1>6 DEF FinishClose
  <2> DEFINE S == {closing[t].slot} \ {0}
  <2>2. S \in SUBSET Slots
    BY DEF TypeOK, Closing
  <2>3. tabs' \in [Slots -> Tab] /\ creating' \subseteq Creation
    BY <2>1, <2>2, RemovedTypes
  <2>4. closedOwners' \in [Traces -> Nat]
    BY <2>1, <2>2, ClosedByType
  <2>5. NotClosing \in Closing
    BY DEF NotClosing, Closing
  <2>6. \A u \in Traces : Without(closing[u], S) \in Closing
    BY ClosingWithout DEF TypeOK
  <2>7. closing' \in [Traces -> Closing]
    BY <2>1, <2>5, <2>6
  <2> QED BY <1>6, <2>3, <2>4, <2>7 DEF FinishClose, TypeOK
<1> QED BY <1>1, <1>2, <1>3, <1>4, <1>5, <1>6

LEMMA WorkerTypes ==
  ASSUME TypeOK, NEW t \in Traces, Start(t) \/ GiveUp(t) \/ End(t)
  PROVE  TypeOK'
<1>1. CASE Start(t)
  <2>1. worker' \in [Traces -> Worker]
    BY <1>1 DEF Start, TypeOK, Worker
  <2>2. requests' \subseteq Starts \union Ends
    BY <1>1, RequestTypes DEF Start, TypeOK
  <2> QED BY <1>1, <2>1, <2>2 DEF Start, TypeOK, host
<1>2. CASE GiveUp(t)
  <2>1. worker' \in [Traces -> Worker]
    BY <1>2 DEF GiveUp, TypeOK, Worker
  <2> QED BY <1>2, <2>1 DEF GiveUp, TypeOK, host
<1>3. CASE End(t)
  <2>1. worker' \in [Traces -> Worker]
    BY <1>3 DEF End, TypeOK, Worker
  <2>2. requests' \subseteq Starts \union Ends
    BY <1>3, RequestTypes DEF End, TypeOK
  <2> QED BY <1>3, <2>1, <2>2 DEF End, TypeOK, host
<1> QED BY <1>1, <1>2, <1>3

LEMMA CrashTypes ==
  ASSUME TypeOK, HelperExits \/ BackendRestarts
  PROVE  TypeOK'
<1>1. helper' \in Nat \ {0}
  <2>1. helper' = helper + 1
    BY DEF HelperExits, BackendRestarts
  <2> QED BY <2>1 DEF TypeOK
<1>2. CASE HelperExits
  <2>1. \A t \in Traces : [worker[t] EXCEPT !.phase = "ending", !.by = "parent"] \in Worker
    BY TabFacts DEF Worker
  <2>2. worker' \in [Traces -> Worker]
    BY <1>2, <2>1, TabFacts DEF HelperExits
  <2>3. \A t \in Traces : EndRequest(t, "parent", FALSE) \in Ends
    BY RequestTypes
  <2>4. requests' \subseteq Starts \union Ends
    BY <1>2, <2>3 DEF HelperExits, TypeOK, Busy
  <2> QED BY <1>1, <1>2, <2>2, <2>4 DEF HelperExits, TypeOK, host
<1>3. CASE BackendRestarts
  <2>1. \A t \in Traces : [NoWorker EXCEPT !.pid = worker[t].pid] \in Worker
    BY TabFacts DEF Worker, NoWorker
  <2>2. worker' \in [Traces -> Worker]
    BY <1>3, <2>1 DEF BackendRestarts
  <2> QED BY <1>1, <1>3, <2>2 DEF BackendRestarts, TypeOK, host
<1> QED BY <1>2, <1>3

LEMMA MarkFacts ==
  ASSUME TypeOK, MarkFails
  PROVE  \E t \in Traces, s \in Slots :
            /\ Drives(t, s) /\ marred' = marred \union {t}
            /\ tabs' \in [Slots -> Tab]
            /\ tabs'[s].status = "error" /\ tabs'[s].trace = tabs[s].trace
            /\ tabs'[s].pid = tabs[s].pid /\ tabs'[s].older = tabs[s].older
            /\ \A r \in Slots : r # s => tabs'[r] = tabs[r]
<1>1. PICK t \in Traces, s \in Slots : /\ Drives(t, s) /\ marred' = marred \union {t}
                                       /\ tabs' = [tabs EXCEPT ![s].status = "error"]
  BY DEF MarkFails
<1> DEFINE tab == [tabs[s] EXCEPT !.status = "error"]
<1>2. /\ tab \in Tab /\ tab.status = "error" /\ tab.trace = tabs[s].trace
      /\ tab.pid = tabs[s].pid /\ tab.older = tabs[s].older
  BY TabFacts DEF Tab, Statuses
<1>3. tabs' = [tabs EXCEPT ![s] = tab]
  BY <1>1, TabFacts DEF TypeOK, Tab
<1> HIDE DEF tab
<1> QED BY <1>1, <1>2, <1>3 DEF TypeOK

\* A tab that only grew older, or was seen alive.
SameTab(s) ==
    /\ tabs'[s].status = tabs[s].status /\ tabs'[s].trace = tabs[s].trace
    /\ tabs'[s].pid = tabs[s].pid /\ tabs'[s].older = tabs[s].older

LEMMA TabBooted ==
  ASSUME NEW tab \in Tab
  PROVE  LET booted == [tab EXCEPT !.booted = TRUE, !.bootAge = 0] IN
         /\ booted \in Tab /\ booted.status = tab.status /\ booted.trace = tab.trace
         /\ booted.pid = tab.pid /\ booted.older = tab.older
BY DEF Tab

LEMMA BootTypes ==
  ASSUME TypeOK, Boot
  PROVE  TypeOK' /\ \A s \in Slots : SameTab(s)
<1>1. PICK s \in Slots : tabs' = [tabs EXCEPT ![s].booted = TRUE, ![s].bootAge = 0]
  BY DEF Boot
<1> DEFINE tab == [tabs[s] EXCEPT !.booted = TRUE, !.bootAge = 0]
<1>2. /\ tab \in Tab /\ tab.status = tabs[s].status /\ tab.trace = tabs[s].trace
      /\ tab.pid = tabs[s].pid /\ tab.older = tabs[s].older
  BY TabFacts, TabBooted
<1>3. tabs' = [tabs EXCEPT ![s] = tab]
  BY <1>1, TabFacts DEF TypeOK, Tab
<1> HIDE DEF tab
<1>4. tabs' \in [Slots -> Tab] /\ \A r \in Slots : SameTab(r)
  BY <1>2, <1>3 DEF TypeOK, SameTab
<1> QED BY <1>4 DEF Boot, TypeOK

LEMMA MarkTypes ==
  ASSUME TypeOK, MarkFails
  PROVE  TypeOK'
<1>1. tabs' \in [Slots -> Tab] /\ marred' \subseteq Traces
  BY MarkFacts DEF TypeOK
<1> QED BY <1>1 DEF MarkFails, TypeOK

\* The tabs a sweep removes are those whose lease has expired.
LEMMA ReapFacts ==
  ASSUME TypeOK, NEW aged, aged \in [Slots -> Tab], Reap(aged),
         \A s \in Slots : /\ aged[s].status = tabs[s].status /\ aged[s].trace = tabs[s].trace
                          /\ aged[s].pid = tabs[s].pid /\ aged[s].older = tabs[s].older
  PROVE  \E S \in SUBSET Slots :
            /\ \A s \in S : tabs'[s] = NoTab /\ Expired(aged[s])
            /\ \A s \in Slots \ S : SameTab(s) /\ tabs'[s] = aged[s]
            /\ tabs' \in [Slots -> Tab]
            /\ closedOwners' = ClosedBy(S, TRUE)
            /\ Detach(S)
<1> DEFINE S == {s \in Slots : Expired(aged[s])}
<1>1. /\ tabs' = [s \in Slots |-> IF s \in S THEN NoTab ELSE aged[s]]
      /\ closedOwners' = ClosedBy(S, TRUE) /\ Detach(S)
  BY DEF Reap
<1>2. /\ \A s \in S : tabs'[s] = NoTab /\ Expired(aged[s])
      /\ \A s \in Slots \ S : SameTab(s) /\ tabs'[s] = aged[s]
      /\ tabs' \in [Slots -> Tab]
  BY <1>1, NoTabType DEF SameTab
<1> QED BY <1>1, <1>2

LEMMA AwakeFacts ==
  ASSUME TypeOK, Awake
  PROVE  LET aged == [s \in Slots |-> Heartbeat(s, Aged(tabs[s], 1))] IN
         /\ aged \in [Slots -> Tab] /\ Reap(aged)
         /\ \A s \in Slots : /\ aged[s].status = tabs[s].status /\ aged[s].trace = tabs[s].trace
                             /\ aged[s].pid = tabs[s].pid /\ aged[s].older = tabs[s].older
BY AgedType, HeartbeatType, TabFacts DEF Awake

LEMMA TimeTypes ==
  ASSUME TypeOK, Sleep \/ Awake \/ WakingSweep
  PROVE  TypeOK'
<1>1. ASSUME NEW S \in SUBSET Slots, tabs' \in [Slots -> Tab], closedOwners' = ClosedBy(S, TRUE),
             Detach(S), slept' \in Nat, UNCHANGED <<cancelled, worker, helper, requests, marred>>
      PROVE  TypeOK'
  BY <1>1, ClosedByType, RemovedTypes DEF TypeOK, Detach
<1>2. CASE Sleep
  <2>1. PICK n \in 1..LongestSleep, resumed \in BOOLEAN :
          /\ tabs' = [s \in Slots |-> IF resumed THEN Refreshed(Aged(tabs[s], n)) ELSE Aged(tabs[s], n)]
          /\ slept' = slept + n
    BY <1>2 DEF Sleep
  <2>2. n \in Nat
    BY Constants
  <2>3. tabs' \in [Slots -> Tab] /\ slept' \in Nat
    BY <2>1, <2>2, AgedType, RefreshedType, TabFacts DEF TypeOK
  <2> QED BY <1>2, <2>3 DEF Sleep, TypeOK
<1>3. CASE Awake
  <2>1. UNCHANGED <<cancelled, slept, worker, helper, requests, marred>>
    BY <1>3 DEF Awake
  <2> QED BY <1>1, <1>3, <2>1, AwakeFacts, ReapFacts DEF TypeOK
<1>4. CASE WakingSweep
  <2>1. slept' = 0 /\ UNCHANGED <<cancelled, worker, helper, requests, marred>>
    BY <1>4 DEF WakingSweep
  <2>2. CASE SleepSuspected
    <3>1. tabs' \in [Slots -> Tab]
      BY <1>4, <2>2, RefreshedType, TabFacts DEF WakingSweep
    <3> QED BY <1>4, <2>1, <2>2, <3>1 DEF WakingSweep, TypeOK
  <2>3. CASE ~SleepSuspected
    <3>1. Reap(tabs)
      BY <1>4, <2>3 DEF WakingSweep
    <3> QED BY <1>1, <2>1, <3>1, ReapFacts DEF TypeOK
  <2> QED BY <2>2, <2>3
<1> QED BY <1>2, <1>3, <1>4

LEMMA TypesKept ==
  ASSUME TypeOK, [Next]_vars
  PROVE  TypeOK'
<1>1. CASE UNCHANGED vars
  BY <1>1 DEF vars, host, TypeOK
<1>2. CASE Next
  BY <1>2, WorkerTypes, CrashTypes, StartTypes, CreateTypes, BootTypes, MarkTypes, EndTypes, CloseTypes,
     TimeTypes DEF Next
<1> QED BY <1>1, <1>2

LEMMA InitialTypes == Init => TypeOK
<1> SUFFICES ASSUME Init PROVE TypeOK
  OBVIOUS
<1>1. NotClosing \in Closing /\ NoWorker \in Worker
  BY DEF NotClosing, Closing, NoWorker, Worker
<1> QED BY <1>1, NoTabType DEF Init, TypeOK

-----------------------------------------------------------------------------
(* Requests, and what the workers wait for *)

\* A request is known by its kind, turn, sender and helper, an end also by what it keeps.
LEMMA SameStart ==
  ASSUME TypeOK, NEW m \in requests, NEW n \in requests, m.kind = "start", n.kind = "start",
         m.trace = n.trace, m.pid = n.pid
  PROVE  m = n
BY DEF TypeOK, Starts, Ends

LEMMA KindFacts ==
  ASSUME TypeOK, NEW m \in requests
  PROVE  /\ m.kind \in {"start", "end"} /\ m.by \in {"worker", "parent"}
         /\ m.kind = "start" => m.by = "worker"
BY DEF TypeOK, Starts, Ends

LEMMA WorkerFacts ==
  ASSUME TypeOK, NEW t \in Traces
  PROVE  /\ worker[t].pid \in Nat /\ helper \in Nat /\ helper > 0
         /\ worker[t].phase \in {"idle", "starting", "working", "ending", "unreleased"}
         /\ worker[t].by \in {"worker", "parent"}
BY DEF TypeOK, Worker

LEMMA DeliveredFacts ==
  ASSUME TypeOK, NEW kind, NEW m \in Deliverable(kind)
  PROVE  /\ m \in requests /\ m.trace \in Traces /\ m.pid \in Nat /\ m.kind = kind
         /\ m.by = "worker" => \A r \in requests : r.by = "worker" => r.pid >= m.pid
BY TabFacts DEF Deliverable

\* Creations that went on, lost their tab or ended.
Fewer(S) == creating' \subseteq {Without(c, S) : c \in creating}

LEMMA FewerFacts ==
  ASSUME TypeOK, NEW S, Fewer(S), NEW c \in creating'
  PROVE  \E d \in creating : c = Without(d, S) /\ d.trace = c.trace /\ d.pid = c.pid
                             /\ c.slot = (IF d.slot \in S THEN 0 ELSE d.slot)
BY TabFacts, CreationWithout DEF Fewer

\* Nothing is granted, and requests only arrive or are given up.
LEMMA ProtocolCalm ==
  ASSUME TypeOK, Protocol, TypeOK', helper' = helper, requests' \subseteq requests,
         NEW S, Fewer(S),
         \A t \in Traces :
            /\ worker'[t].pid = worker[t].pid /\ worker'[t].by = worker[t].by
            /\ \/ worker'[t].phase = worker[t].phase
               \/ worker[t].phase \in {"starting", "ending"} /\ worker'[t].phase = "unreleased"
  PROVE  Protocol'
<1>1. PidsKnown'
  <2>1. \A c \in creating' : c.pid <= helper
    BY FewerFacts DEF Protocol, PidsKnown
  <2> QED BY <2>1, TabFacts DEF Protocol, PidsKnown
<1>2. StartsAwaited'
  <2>1. \A t \in Traces : Awaited(t) => Awaited(t)'
    BY DEF Awaited
  <2>2. ASSUME NEW m \in requests', m.kind = "start", m.pid = helper'
        PROVE  Awaited(m.trace)' /\ \A c \in creating' : c.trace = m.trace => c.pid # helper'
    BY <2>1, <2>2, FewerFacts, TabFacts DEF Protocol, StartsAwaited
  <2>3. ASSUME NEW c \in creating', c.pid = helper'
        PROVE  Awaited(c.trace)' /\ \A d \in creating' : d.pid = helper' /\ d.trace = c.trace => c = d
    <3>1. PICK x \in creating : c = Without(x, S) /\ x.trace = c.trace /\ x.pid = c.pid
      BY FewerFacts
    <3>2. x.trace \in Traces
      BY TabFacts DEF Creation
    <3>3. Awaited(c.trace)'
      BY <2>1, <2>3, <3>1, <3>2 DEF Protocol, StartsAwaited
    <3>4. ASSUME NEW d \in creating', d.pid = helper', d.trace = c.trace
          PROVE  c = d
      <4>1. PICK y \in creating : d = Without(y, S) /\ y.trace = d.trace /\ y.pid = d.pid
        BY FewerFacts
      <4>2. x = y
        BY <2>3, <3>1, <3>4, <4>1 DEF Protocol, StartsAwaited
      <4> QED BY <3>1, <4>1, <4>2
    <3> QED BY <3>3, <3>4
  <2> QED BY <2>2, <2>3 DEF StartsAwaited
<1>3. EndsAwaited'
  <2>1. \A t \in Traces : Finishing(t) => Finishing(t)'
    BY DEF Finishing
  <2> QED BY <2>1, TabFacts DEF Protocol, EndsAwaited
<1>4. OldRequestsGone'
  <2>1. (\A c \in creating : c.pid # helper) => \A c \in creating' : c.pid # helper'
    BY FewerFacts
  <2>2. (\A t \in Traces : worker[t].phase # "working") => \A t \in Traces : worker'[t].phase # "working"
    OBVIOUS
  <2> QED BY <2>1, <2>2 DEF Protocol, OldRequestsGone
<1>5. TurnsInOrder'
  BY DEF Protocol, TurnsInOrder, Earlier, OwnEnd
<1> QED BY <1>1, <1>2, <1>3, <1>4, <1>5 DEF Protocol

LEMMA NothingFewer == UNCHANGED creating /\ TypeOK => Fewer({})
<1> SUFFICES ASSUME UNCHANGED creating, TypeOK PROVE Fewer({})
  OBVIOUS
<1>1. \A c \in creating : c = Without(c, {})
  BY TabFacts DEF Without, Creation
<1> QED BY <1>1 DEF Fewer

LEMMA ProtocolGranted ==
  ASSUME TypeOK, Protocol, TypeOK', helper' = helper,
         NEW m, m.trace \in Traces, worker' = Leased(m, TRUE), m.pid \in Nat,
         \/ /\ m \in Deliverable("start") /\ requests' = requests \ {m} /\ creating' = creating
         \/ /\ m \in creating /\ requests' = requests /\ creating' = creating \ {m}
  PROVE  Protocol'
<1>0. Fewer({})
  <2>1. \A c \in creating : c = Without(c, {})
    BY TabFacts DEF Without, Creation
  <2> QED BY <2>1 DEF Fewer
<1>1. CASE ~(worker[m.trace].phase = "starting" /\ worker[m.trace].pid = m.pid)
  <2>1. worker' = worker
    BY <1>1 DEF Leased
  <2> QED BY <1>0, <2>1, ProtocolCalm
<1>2. CASE worker[m.trace].phase = "starting" /\ worker[m.trace].pid = m.pid
  <2>1. m.pid = helper
    BY <1>2 DEF Protocol, PidsKnown
  <2>2. \A t \in Traces :
          /\ worker'[t].pid = worker[t].pid /\ worker'[t].by = worker[t].by
          /\ worker'[t].phase = IF t = m.trace THEN "working" ELSE worker[t].phase
    BY <1>2 DEF Leased, TypeOK, Worker
  <2>3. /\ \A r \in requests' : r.kind = "start" /\ r.pid = helper => r.trace # m.trace
        /\ \A c \in creating' : c.pid = helper => c.trace # m.trace
        /\ \A r \in requests : r.by = "worker" => r.pid = helper
    <3>1. CASE m \in Deliverable("start") /\ requests' = requests \ {m} /\ creating' = creating
      <4>1. \A r \in requests : r.by = "worker" => r.pid = helper
        <5>1. m \in requests /\ m.by = "worker"
          BY <3>1, DeliveredFacts, KindFacts
        <5>2. \A r \in requests : r.by = "worker" => r.pid >= helper
          BY <2>1, <3>1, <5>1, DeliveredFacts
        <5>3. \A r \in requests : r.pid <= helper /\ r.pid \in Nat
          BY TabFacts DEF Protocol, PidsKnown
        <5> QED BY <5>2, <5>3 DEF TypeOK
      <4>2. \A r \in requests' : r.kind = "start" /\ r.pid = helper => r.trace # m.trace
        BY <2>1, <3>1, DeliveredFacts, SameStart
      <4>3. \A c \in creating' : c.pid = helper => c.trace # m.trace
        BY <2>1, <3>1, DeliveredFacts DEF Protocol, StartsAwaited
      <4> QED BY <4>1, <4>2, <4>3
    <3>2. CASE m \in creating /\ requests' = requests /\ creating' = creating \ {m}
      BY <2>1, <3>2 DEF Protocol, StartsAwaited, OldRequestsGone
    <3> QED BY <3>1, <3>2
  <2>4. requests' \subseteq requests /\ creating' \subseteq creating
    OBVIOUS
  <2>5. PidsKnown'
    <3>1. \A t \in Traces :
            /\ worker'[t].pid <= helper
            /\ worker'[t].phase \in {"starting", "working"} =>
                  worker'[t].pid = helper /\ worker'[t].by = "worker"
            /\ worker'[t].phase = "ending" =>
                  IF worker'[t].by = "worker" THEN worker'[t].pid = helper ELSE worker'[t].pid < helper
      <4>1. worker'[m.trace].phase = "working" /\ worker'[m.trace].pid = helper
            /\ worker'[m.trace].by = "worker"
        BY <1>2, <2>1, <2>2 DEF Protocol, PidsKnown
      <4>2. \A t \in Traces : t # m.trace => worker'[t].phase = worker[t].phase
                               /\ worker'[t].pid = worker[t].pid /\ worker'[t].by = worker[t].by
        BY <2>2
      <4>3. \A t \in Traces : worker'[t].pid <= helper
        BY <2>2 DEF Protocol, PidsKnown
      <4>4. \A t \in Traces :
               /\ worker[t].phase \in {"starting", "working"} =>
                     worker[t].pid = helper /\ worker[t].by = "worker"
               /\ worker[t].phase = "ending" =>
                     IF worker[t].by = "worker" THEN worker[t].pid = helper ELSE worker[t].pid < helper
        BY DEF Protocol, PidsKnown
      <4>5. ASSUME NEW t \in Traces, t # m.trace
            PROVE  /\ worker'[t].phase \in {"starting", "working"} =>
                         worker'[t].pid = helper /\ worker'[t].by = "worker"
                   /\ worker'[t].phase = "ending" =>
                         IF worker'[t].by = "worker" THEN worker'[t].pid = helper
                         ELSE worker'[t].pid < helper
        BY <4>2, <4>4, <4>5
      <4> QED BY <4>1, <4>3, <4>5
    <3>2. /\ \A r \in requests' :
                /\ r.pid <= helper /\ r.pid <= worker'[r.trace].pid
                /\ r.kind = "start" => r.pid > 0
                /\ r.kind = "end" /\ r.by = "parent" => r.pid < helper /\ ~r.keep
          /\ \A c \in creating' : c.pid <= helper
      BY <2>2, <2>4, TabFacts DEF Protocol, PidsKnown
    <3> QED BY <3>1, <3>2 DEF PidsKnown
  <2>6. StartsAwaited'
    <3>1. \A t \in Traces : t # m.trace /\ Awaited(t) => Awaited(t)'
      BY <2>2 DEF Awaited
    <3> QED BY <2>3, <2>4, <3>1, TabFacts DEF Protocol, StartsAwaited, Creation
  <2>7. EndsAwaited'
    <3>1. \A t \in Traces : Finishing(t) => Finishing(t)'
      BY <1>2, <2>2 DEF Finishing
    <3> QED BY <2>4, <3>1, TabFacts DEF Protocol, EndsAwaited
  <2>8. OldRequestsGone'
    BY <2>3, <2>4 DEF OldRequestsGone
  <2>9. TurnsInOrder'
    <3>1. \A t \in Traces : worker'[t].pid = worker[t].pid
                              /\ (worker'[t].phase # "idle" => worker[t].phase # "idle")
      BY <1>2, <2>2
    <3>2. \A t, u \in Traces : Earlier(t, u) <=> Earlier(t, u)'
      BY DEF Earlier
    <3>3. TurnsInOrder
      BY DEF Protocol
    <3> QED BY <2>4, <3>1, <3>2, <3>3 DEF TurnsInOrder, OwnEnd
  <2> QED BY <2>5, <2>6, <2>7, <2>8, <2>9 DEF Protocol
<1> QED BY <1>1, <1>2

\* A start goes on as the creation of its tab.
LEMMA ProtocolCreates ==
  ASSUME TypeOK, Protocol, TypeOK', UNCHANGED <<helper, worker>>,
         NEW m \in Deliverable("start"), requests' = requests \ {m}, NEW s \in Slots,
         creating' = {Without(c, {s}) : c \in creating}
                     \union {[slot |-> s, trace |-> m.trace, pid |-> m.pid]}
  PROVE  Protocol'
<1> DEFINE new == [slot |-> s, trace |-> m.trace, pid |-> m.pid]
<1>1. /\ m \in requests /\ m.trace \in Traces /\ m.pid \in Nat /\ m.kind = "start" /\ m.by = "worker"
      /\ \A r \in requests : r.by = "worker" => r.pid >= m.pid
  BY DeliveredFacts, KindFacts
<1>2. new.slot = s /\ new.trace = m.trace /\ new.pid = m.pid
  OBVIOUS
<1>0. creating' = {Without(c, {s}) : c \in creating} \union {new}
  OBVIOUS
<1> HIDE DEF new
<1>3. \A c \in creating' : c = new \/ \E d \in creating :
          c = Without(d, {s}) /\ d.trace = c.trace /\ d.pid = c.pid
  <2>1. \A d \in creating : Without(d, {s}).trace = d.trace /\ Without(d, {s}).pid = d.pid
    BY TabFacts, CreationWithout
  <2> QED BY <1>0, <2>1
<1>4. PidsKnown'
  <2>1. \A c \in creating' : c.pid <= helper
    BY <1>1, <1>2, <1>3 DEF Protocol, PidsKnown
  <2> QED BY <2>1 DEF Protocol, PidsKnown
<1>5. StartsAwaited'
  <2>1. ASSUME m.pid = helper
        PROVE  Awaited(m.trace) /\ \A c \in creating : c.trace = m.trace => c.pid # helper
    BY <1>1, <2>1 DEF Protocol, StartsAwaited
  <2>2. ASSUME NEW r \in requests', r.kind = "start", r.pid = helper, NEW c \in creating', c.trace = r.trace
        PROVE  Awaited(r.trace) /\ c.pid # helper
    <3>1. Awaited(r.trace) /\ \A d \in creating : d.trace = r.trace => d.pid # helper
      BY <2>2 DEF Protocol, StartsAwaited
    <3>2. CASE c = new
      <4>1. r.pid # m.pid
        BY <1>1, <1>2, <2>2, <3>2, SameStart
      <4> QED BY <1>2, <2>2, <3>1, <3>2, <4>1
    <3> QED BY <1>3, <2>2, <3>1, <3>2
  <2>3. ASSUME NEW c \in creating', c.pid = helper, NEW d \in creating', d.pid = helper,
               d.trace = c.trace
        PROVE  Awaited(c.trace) /\ c = d
    <3>1. CASE c = new \/ d = new
      <4>1. Awaited(m.trace) /\ c.trace = m.trace
        <5>1. m.pid = helper /\ c.trace = m.trace
          BY <1>2, <2>3, <3>1
        <5> QED BY <2>1, <5>1
      <4>2. \A x \in creating' : x.pid = helper /\ x.trace = m.trace => x = new
        <5> SUFFICES ASSUME NEW x \in creating', x.pid = helper, x.trace = m.trace, x # new
                     PROVE  FALSE
          OBVIOUS
        <5>1. m.pid = helper
          BY <1>2, <2>3, <3>1
        <5>2. \E y \in creating : y.trace = m.trace /\ y.pid = helper
          BY <1>3
        <5> QED BY <2>1, <5>1, <5>2
      <4> QED BY <2>3, <4>1, <4>2
    <3>2. CASE c # new /\ d # new
      <4>1. PICK x \in creating : c = Without(x, {s}) /\ x.trace = c.trace /\ x.pid = c.pid
        BY <1>3, <3>2
      <4>2. PICK y \in creating : d = Without(y, {s}) /\ y.trace = d.trace /\ y.pid = d.pid
        BY <1>3, <3>2
      <4>3. Awaited(x.trace) /\ x = y
        BY <2>3, <4>1, <4>2 DEF Protocol, StartsAwaited
      <4> QED BY <4>1, <4>2, <4>3
    <3> QED BY <3>1, <3>2
  <2>4. \A r \in requests' : r.kind = "start" /\ r.pid = helper => Awaited(r.trace)
    BY DEF Protocol, StartsAwaited
  <2> QED BY <2>2, <2>3, <2>4 DEF StartsAwaited, Awaited
<1>6. EndsAwaited'
  BY DEF Protocol, EndsAwaited, Finishing
<1>7. OldRequestsGone'
  <2>1. CASE m.pid = helper
    <3>1. \A r \in requests : r.pid <= helper /\ r.pid \in Nat
      BY TabFacts DEF Protocol, PidsKnown
    <3>2. \A r \in requests : r.by = "worker" => r.pid = helper
      BY <1>1, <2>1, <3>1 DEF TypeOK
    <3> QED BY <3>2 DEF OldRequestsGone
  <2>2. CASE m.pid # helper
    <3>1. (\A c \in creating : c.pid # helper) => \A c \in creating' : c.pid # helper
      <4>1. \A c \in creating' : c = new \/ \E d \in creating : d.pid = c.pid
        BY <1>3
      <4> QED BY <1>2, <2>2, <4>1
    <3>2. CASE \A r \in requests : r.by = "worker" => r.pid = helper
      BY <3>2 DEF OldRequestsGone
    <3>3. CASE (\A u \in Traces : worker[u].phase # "working") /\ \A c \in creating : c.pid # helper
      BY <3>1, <3>3 DEF OldRequestsGone
    <3> QED BY <3>2, <3>3 DEF Protocol, OldRequestsGone
  <2> QED BY <2>1, <2>2
<1>8. TurnsInOrder'
  BY DEF Protocol, TurnsInOrder, Earlier, OwnEnd
<1> QED BY <1>4, <1>5, <1>6, <1>7, <1>8 DEF Protocol

\* An end is answered.
LEMMA ProtocolEnded ==
  ASSUME TypeOK, Protocol, TypeOK', helper' = helper,
         NEW m \in Deliverable("end"), requests' = requests \ {m}, NEW S, Fewer(S),
         NEW acknowledged, NEW byUser, worker' = Ended(m, acknowledged, byUser)
  PROVE  Protocol'
<1>1. m \in requests /\ m.trace \in Traces /\ m.kind = "end"
  BY DeliveredFacts
<1>2. \A t \in Traces : worker'[t].pid = worker[t].pid /\ worker'[t].by = worker[t].by
  BY <1>1, EndedFacts
<1>3. \A t \in Traces :
        \/ worker'[t].phase = worker[t].phase
        \/ /\ t = m.trace /\ worker[t].phase = "ending"
           /\ worker[t].pid = m.pid /\ worker[t].by = m.by
           /\ worker'[t].phase \in {"idle", "unreleased"}
  BY <1>1, EndedFacts
<1>4. CASE \A t \in Traces : \/ worker'[t].phase = worker[t].phase
                             \/ worker[t].phase \in {"starting", "ending"} /\ worker'[t].phase = "unreleased"
  BY <1>2, <1>4, ProtocolCalm
<1>5. CASE /\ worker[m.trace].phase = "ending" /\ worker[m.trace].pid = m.pid
           /\ worker[m.trace].by = m.by /\ worker'[m.trace].phase = "idle"
  <2>1. PidsKnown'
    <3>1. \A c \in creating' : c.pid <= helper
      BY FewerFacts DEF Protocol, PidsKnown
    <3>2. \A t \in Traces : worker'[t].phase \in {worker[t].phase, "idle", "unreleased"}
      BY <1>3
    <3> QED BY <1>2, <3>1, <3>2, TabFacts DEF Protocol, PidsKnown
  <2>2. StartsAwaited'
    <3>1. \A t \in Traces : Awaited(t) => Awaited(t)'
      BY <1>2, <1>3 DEF Awaited
    <3>2. ASSUME NEW r \in requests', r.kind = "start", r.pid = helper, NEW c \in creating', c.trace = r.trace
          PROVE  Awaited(r.trace)' /\ c.pid # helper
      BY <3>1, <3>2, FewerFacts, TabFacts DEF Protocol, StartsAwaited
    <3>3. ASSUME NEW c \in creating', c.pid = helper, NEW d \in creating', d.pid = helper,
                 d.trace = c.trace
          PROVE  Awaited(c.trace)' /\ c = d
      <4>1. PICK x \in creating : c = Without(x, S) /\ x.trace = c.trace /\ x.pid = c.pid
        BY FewerFacts
      <4>2. PICK y \in creating : d = Without(y, S) /\ y.trace = d.trace /\ y.pid = d.pid
        BY FewerFacts
      <4>3. Awaited(x.trace) /\ x = y
        BY <3>3, <4>1, <4>2 DEF Protocol, StartsAwaited
      <4>4. x.trace \in Traces
        BY TabFacts DEF Creation
      <4> QED BY <3>1, <4>1, <4>2, <4>3, <4>4
    <3>4. \A r \in requests' : r.kind = "start" /\ r.pid = helper => Awaited(r.trace)'
      BY <3>1, TabFacts DEF Protocol, StartsAwaited
    <3> QED BY <3>2, <3>3, <3>4 DEF StartsAwaited
  <2>3. EndsAwaited'
    <3>1. ASSUME NEW r \in requests', r.kind = "end", r.by = "worker", r.pid = helper
          PROVE  Finishing(r.trace)'
      <4>1. /\ Finishing(r.trace) /\ r.trace \in Traces
            /\ \A n \in requests :
                  n.kind = "end" /\ n.by = "worker" /\ n.pid = helper /\ n.trace = r.trace => r = n
        BY <3>1, TabFacts DEF Protocol, EndsAwaited
      <4>2. r.trace # m.trace
        BY <1>1, <1>5, <3>1, <4>1 DEF Finishing
      <4> QED BY <1>2, <1>3, <4>1, <4>2 DEF Finishing
    <3> QED BY <3>1 DEF Protocol, EndsAwaited
  <2>4. OldRequestsGone'
    <3>1. (\A c \in creating : c.pid # helper) => \A c \in creating' : c.pid # helper'
      BY FewerFacts
    <3>2. (\A t \in Traces : worker[t].phase # "working") => \A t \in Traces : worker'[t].phase # "working"
      BY <1>3
    <3> QED BY <3>1, <3>2 DEF Protocol, OldRequestsGone
  <2>5. TurnsInOrder'
    <3>1. \A t \in Traces : worker'[t].phase # "idle" => worker[t].phase # "idle"
      BY <1>3
    <3> QED BY <1>2, <3>1 DEF Protocol, TurnsInOrder, Earlier, OwnEnd
  <2> QED BY <2>1, <2>2, <2>3, <2>4, <2>5 DEF Protocol
<1> QED BY <1>3, <1>4, <1>5

LEMMA ProtocolStart ==
  ASSUME TypeOK, Protocol, TypeOK', NEW t \in Traces, Start(t)
  PROVE  Protocol'
<1>1. /\ worker'[t].phase = "starting" /\ worker'[t].pid = helper /\ worker'[t].by = "worker"
      /\ \A u \in Traces : u # t => worker'[u] = worker[u]
      /\ UNCHANGED <<helper, creating>>
  BY DEF Start, TypeOK, host
<1>2. PICK n : /\ requests' = requests \union {n}
               /\ n.kind = "start" /\ n.trace = t /\ n.pid = helper /\ n.by = "worker"
  <2>1. requests' = requests \union {StartRequest(t)}
    BY DEF Start
  <2>2. /\ StartRequest(t).kind = "start" /\ StartRequest(t).trace = t
        /\ StartRequest(t).pid = helper /\ StartRequest(t).by = "worker"
    BY DEF StartRequest
  <2> QED BY <2>1, <2>2
<1>3. /\ \A u \in Traces : Conversation[u] = Conversation[t] => worker[u].phase = "idle"
      /\ \A u \in Newer[t] : worker[u].pid = 0
  BY DEF Start, Serialized, Latest
<1>4. helper \in Nat \ {0}
  BY DEF TypeOK
<1>5. worker[t].phase = "idle"
  BY <1>3
<1>6. PidsKnown'
  <2>1. \A u \in Traces :
          /\ worker'[u].pid <= helper
          /\ worker'[u].phase \in {"starting", "working"} =>
                worker'[u].pid = helper /\ worker'[u].by = "worker"
          /\ worker'[u].phase = "ending" =>
                IF worker'[u].by = "worker" THEN worker'[u].pid = helper ELSE worker'[u].pid < helper
    BY <1>1, <1>4 DEF Protocol, PidsKnown
  <2>2. \A m \in requests :
          /\ m.pid <= helper /\ m.pid <= worker'[m.trace].pid
          /\ m.kind = "start" => m.pid > 0
          /\ m.kind = "end" /\ m.by = "parent" => m.pid < helper /\ ~m.keep
    BY <1>1, TabFacts DEF Protocol, PidsKnown
  <2>3. n.pid <= helper /\ n.pid <= worker'[n.trace].pid /\ n.kind = "start" /\ n.pid > 0
    BY <1>1, <1>2, <1>4
  <2>4. \A c \in creating : c.pid <= helper
    BY DEF Protocol, PidsKnown
  <2> QED BY <1>1, <1>2, <2>1, <2>2, <2>3, <2>4 DEF PidsKnown
<1>7. StartsAwaited'
  <2>1. \A u \in Traces : Awaited(u) => Awaited(u)'
    BY <1>1, <1>5 DEF Awaited
  <2>2. Awaited(t)' /\ \A c \in creating : c.pid = helper => c.trace # t
    BY <1>1, <1>5 DEF Protocol, StartsAwaited, Awaited
  <2>3. \A c \in creating : c.trace \in Traces
    BY TabFacts DEF Creation
  <2> QED BY <1>1, <1>2, <2>1, <2>2, <2>3, TabFacts DEF Protocol, StartsAwaited
<1>8. EndsAwaited'
  <2>1. \A u \in Traces : Finishing(u) => Finishing(u)'
    BY <1>1, <1>5 DEF Finishing
  <2> QED BY <1>1, <1>2, <2>1, TabFacts DEF Protocol, EndsAwaited
<1>9. OldRequestsGone'
  <2>1. (\A u \in Traces : worker[u].phase # "working") => \A u \in Traces : worker'[u].phase # "working"
    BY <1>1
  <2> QED BY <1>1, <1>2, <2>1 DEF Protocol, OldRequestsGone
<1>10. TurnsInOrder'
  <2> SUFFICES ASSUME NEW a \in Traces, NEW b \in Traces, Earlier(a, b)
               PROVE  /\ worker'[a].phase # "idle" => worker'[b].pid = 0
                      /\ \A m, r \in requests' :
                            OwnEnd(m, a) /\ r.kind = "start" /\ r.trace = b => m.pid < r.pid
    BY DEF TurnsInOrder, Earlier, OwnEnd
  <2>1. /\ worker[a].phase # "idle" => worker[b].pid = 0
        /\ \A m, r \in requests : OwnEnd(m, a) /\ r.kind = "start" /\ r.trace = b => m.pid < r.pid
    BY DEF Protocol, TurnsInOrder
  <2>2. a # b /\ b \in Newer[a] /\ Conversation[a] = Conversation[b]
    BY DEF Earlier
  <2>3. worker'[a].phase # "idle" => worker'[b].pid = 0
    <3>1. CASE a = t
      BY <1>1, <1>3, <2>2, <3>1
    <3>2. CASE b = t
      BY <1>1, <1>3, <2>2, <3>2
    <3> QED BY <1>1, <2>1, <3>1, <3>2
  <2>4. ASSUME NEW m \in requests', NEW r \in requests', OwnEnd(m, a), r.kind = "start", r.trace = b
        PROVE  m.pid < r.pid
    <3>1. m \in requests
      BY <1>2, <2>4 DEF OwnEnd
    <3>2. CASE r = n
      <4>1. worker[a].phase = "idle"
        BY <1>2, <1>3, <2>2, <2>4, <3>2
      <4>2. m.pid # helper
        BY <2>4, <3>1, <4>1 DEF Protocol, EndsAwaited, Finishing, OwnEnd
      <4>3. m.pid <= helper /\ m.pid \in Nat
        BY <3>1, TabFacts DEF Protocol, PidsKnown
      <4> QED BY <1>2, <1>4, <3>2, <4>2, <4>3
    <3> QED BY <1>2, <2>1, <2>4, <3>1, <3>2
  <2> QED BY <2>3, <2>4
<1> QED BY <1>6, <1>7, <1>8, <1>9, <1>10 DEF Protocol

LEMMA ProtocolEnd ==
  ASSUME TypeOK, Protocol, TypeOK', NEW t \in Traces, End(t)
  PROVE  Protocol'
<1>1. /\ worker[t].phase = "working"
      /\ worker'[t].phase = "ending" /\ worker'[t].pid = worker[t].pid /\ worker'[t].by = worker[t].by
      /\ \A u \in Traces : u # t => worker'[u] = worker[u]
      /\ UNCHANGED <<helper, creating>>
  BY DEF End, TypeOK, Worker, host
<1>2. worker[t].pid = helper /\ worker[t].by = "worker"
  BY <1>1 DEF Protocol, PidsKnown
<1>3. PICK n : /\ requests' = requests \union {n}
               /\ n.kind = "end" /\ n.trace = t /\ n.pid = helper /\ n.by = "worker"
  <2>1. PICK keep \in BOOLEAN : requests' = requests \union {EndRequest(t, "worker", keep)}
    BY DEF End
  <2>2. /\ EndRequest(t, "worker", keep).kind = "end" /\ EndRequest(t, "worker", keep).trace = t
        /\ EndRequest(t, "worker", keep).pid = helper /\ EndRequest(t, "worker", keep).by = "worker"
    BY <1>2 DEF EndRequest
  <2> QED BY <2>1, <2>2
<1>4. helper \in Nat \ {0}
  BY DEF TypeOK
<1>5. \A u \in Traces : worker'[u].pid = worker[u].pid /\ worker'[u].by = worker[u].by
  BY <1>1
<1>6. PidsKnown'
  <2>1. \A u \in Traces :
          /\ worker'[u].pid <= helper
          /\ worker'[u].phase \in {"starting", "working"} =>
                worker'[u].pid = helper /\ worker'[u].by = "worker"
          /\ worker'[u].phase = "ending" =>
                IF worker'[u].by = "worker" THEN worker'[u].pid = helper ELSE worker'[u].pid < helper
    BY <1>1, <1>2, <1>4 DEF Protocol, PidsKnown
  <2>2. \A m \in requests :
          /\ m.pid <= helper /\ m.pid <= worker'[m.trace].pid
          /\ m.kind = "start" => m.pid > 0
          /\ m.kind = "end" /\ m.by = "parent" => m.pid < helper /\ ~m.keep
    BY <1>5, TabFacts DEF Protocol, PidsKnown
  <2>3. n.pid <= helper /\ n.pid <= worker'[n.trace].pid /\ n.kind = "end" /\ n.by = "worker"
    BY <1>2, <1>3, <1>4, <1>5
  <2>4. \A c \in creating : c.pid <= helper
    BY DEF Protocol, PidsKnown
  <2> QED BY <1>1, <1>3, <2>1, <2>2, <2>3, <2>4 DEF PidsKnown
<1>7. StartsAwaited'
  <2>1. \A u \in Traces : Awaited(u) => Awaited(u)'
    BY <1>1 DEF Awaited
  <2>2. \A c \in creating : c.trace \in Traces
    BY TabFacts DEF Creation
  <2> QED BY <1>1, <1>3, <2>1, <2>2, TabFacts DEF Protocol, StartsAwaited
<1>8. EndsAwaited'
  <2>1. \A u \in Traces : Finishing(u) => Finishing(u)'
    BY <1>1 DEF Finishing
  <2>2. Finishing(t)'
    BY <1>1, <1>2 DEF Finishing
  <2>3. \A m \in requests : m.kind = "end" /\ m.by = "worker" /\ m.pid = helper => m.trace # t
    BY <1>1 DEF Protocol, EndsAwaited, Finishing
  <2> QED BY <1>1, <1>3, <2>1, <2>2, <2>3, TabFacts DEF Protocol, EndsAwaited
<1>9. OldRequestsGone'
  <2>1. \A m \in requests : m.by = "worker" => m.pid = helper
    BY <1>1 DEF Protocol, OldRequestsGone
  <2> QED BY <1>1, <1>3, <2>1 DEF OldRequestsGone
<1>10. TurnsInOrder'
  <2> SUFFICES ASSUME NEW a \in Traces, NEW b \in Traces, Earlier(a, b)
               PROVE  /\ worker'[a].phase # "idle" => worker'[b].pid = 0
                      /\ \A m, r \in requests' :
                            OwnEnd(m, a) /\ r.kind = "start" /\ r.trace = b => m.pid < r.pid
    BY DEF TurnsInOrder, Earlier, OwnEnd
  <2>1. /\ worker[a].phase # "idle" => worker[b].pid = 0
        /\ \A m, r \in requests : OwnEnd(m, a) /\ r.kind = "start" /\ r.trace = b => m.pid < r.pid
    BY DEF Protocol, TurnsInOrder
  <2>2. worker'[a].phase # "idle" => worker'[b].pid = 0
    BY <1>1, <1>5, <2>1
  <2>3. ASSUME NEW m \in requests', NEW r \in requests', OwnEnd(m, a), r.kind = "start", r.trace = b
        PROVE  m.pid < r.pid
    <3>1. r \in requests
      BY <1>3, <2>3
    <3>2. CASE m = n
      <4>1. worker[b].pid = 0
        BY <1>1, <1>3, <2>1, <2>3, <3>2 DEF OwnEnd
      <4>2. r.pid > 0 /\ r.pid <= worker[b].pid /\ r.pid \in Nat
        BY <2>3, <3>1, TabFacts DEF Protocol, PidsKnown
      <4> QED BY <4>1, <4>2
    <3> QED BY <1>3, <2>1, <2>3, <3>1, <3>2
  <2> QED BY <2>2, <2>3
<1> QED BY <1>6, <1>7, <1>8, <1>9, <1>10 DEF Protocol

LEMMA ProtocolCrash ==
  ASSUME TypeOK, Protocol, TypeOK', HelperExits \/ BackendRestarts
  PROVE  Protocol'
<1>1. helper' = helper + 1 /\ helper \in Nat /\ UNCHANGED creating
  BY DEF HelperExits, BackendRestarts, TypeOK, host
<1>2. \A t \in Traces :
        /\ worker'[t].pid = worker[t].pid
        /\ worker'[t].phase \in {"idle", "ending", "unreleased"}
        /\ worker'[t].phase = "ending" => worker'[t].by = "parent"
        /\ worker'[t].phase # "idle" => worker[t].phase # "idle"
  <2>1. CASE HelperExits
    <3>1. \A t \in Traces : worker'[t] = IF t \in Busy
                               THEN [worker[t] EXCEPT !.phase = "ending", !.by = "parent"] ELSE worker[t]
      BY <2>1 DEF HelperExits
    <3>2. \A t \in Traces : t \in Busy <=> worker[t].phase \in {"starting", "working", "ending"}
      BY DEF Busy
    <3>3. \A w \in Worker : LET ended == [w EXCEPT !.phase = "ending", !.by = "parent"] IN
            ended.pid = w.pid /\ ended.phase = "ending" /\ ended.by = "parent"
      BY DEF Worker
    <3>4. \A w \in Worker : w.phase \notin {"starting", "working", "ending"} =>
            w.phase \in {"idle", "unreleased"}
      BY DEF Worker
    <3>5. \A t \in Traces : worker[t] \in Worker
      BY TabFacts
    <3>6. ASSUME NEW t \in Traces, t \in Busy
          PROVE  worker'[t].pid = worker[t].pid /\ worker'[t].phase = "ending" /\ worker'[t].by = "parent"
                 /\ worker[t].phase # "idle"
      <4>1. worker'[t] = [worker[t] EXCEPT !.phase = "ending", !.by = "parent"] /\ worker[t] \in Worker
        BY <3>1, <3>5, <3>6
      <4>2. worker[t].phase # "idle"
        BY <3>2, <3>6
      <4> QED BY <3>3, <4>1, <4>2
    <3>7. ASSUME NEW t \in Traces, t \notin Busy
          PROVE  worker'[t] = worker[t] /\ worker[t].phase \in {"idle", "unreleased"}
      BY <3>1, <3>2, <3>4, <3>5, <3>7
    <3> QED BY <3>6, <3>7
  <2>2. CASE BackendRestarts
    BY <2>2 DEF BackendRestarts, NoWorker
  <2> QED BY <2>1, <2>2
<1>3. \A m \in requests' : m \in requests \/
        (m.kind = "end" /\ m.by = "parent" /\ ~m.keep /\ m.trace \in Traces /\ m.pid = worker[m.trace].pid)
  <2>1. \A t \in Traces :
          LET m == EndRequest(t, "parent", FALSE) IN
          m.kind = "end" /\ m.by = "parent" /\ ~m.keep /\ m.trace = t /\ m.pid = worker[t].pid
    BY DEF EndRequest
  <2>2. CASE HelperExits
    <3> SUFFICES ASSUME NEW m \in requests', m \notin requests
                 PROVE  m.kind = "end" /\ m.by = "parent" /\ ~m.keep /\ m.trace \in Traces
                        /\ m.pid = worker[m.trace].pid
      OBVIOUS
    <3>1. PICK t \in Traces : m = EndRequest(t, "parent", FALSE)
      BY <2>2 DEF HelperExits, Busy
    <3> QED BY <2>1, <3>1
  <2>3. CASE BackendRestarts
    BY <2>3 DEF BackendRestarts
  <2> QED BY <2>2, <2>3
<1>4. /\ \A t \in Traces : worker[t].pid <= helper /\ worker[t].pid \in Nat
      /\ \A m \in requests : m.pid <= helper /\ m.pid \in Nat /\ m.trace \in Traces
      /\ \A c \in creating : c.pid <= helper /\ c.pid \in Nat
  BY TabFacts DEF Protocol, PidsKnown, Worker, Creation
<1>5. PidsKnown'
  <2>1. \A t \in Traces : worker'[t].pid < helper'
    BY <1>1, <1>2, <1>4
  <2>2. \A m \in requests' : m.pid < helper' /\ m.pid <= worker'[m.trace].pid
    <3>1. \A m \in requests : m.pid < helper' /\ m.pid <= worker[m.trace].pid
      BY <1>1, <1>4 DEF Protocol, PidsKnown
    <3>2. \A m \in requests' : m.trace \in Traces
      BY <1>3, <1>4
    <3> QED BY <1>1, <1>2, <1>3, <1>4, <3>1, <3>2
  <2>3. \A m \in requests' : /\ m.kind = "start" => m.pid > 0
                             /\ m.kind = "end" /\ m.by = "parent" => ~m.keep
    BY <1>3 DEF Protocol, PidsKnown
  <2>4. \A c \in creating : c.pid < helper'
    BY <1>1, <1>4
  <2>5. \A c \in creating : c.pid <= helper'
    BY <1>1, <1>4
  <2>6. \A m \in requests' : m.pid <= helper'
    BY <1>1, <1>3, <1>4
  <2>7. \A t \in Traces : worker'[t].pid <= helper'
    BY <1>1, <1>2, <1>4
  <2> QED BY <1>1, <1>2, <2>1, <2>2, <2>3, <2>5, <2>6, <2>7 DEF PidsKnown
<1>6. /\ \A m \in requests' : m.pid # helper'
      /\ \A c \in creating' : c.pid # helper'
      /\ \A t \in Traces : worker'[t].phase # "working"
  BY <1>1, <1>2, <1>3, <1>4
<1>7. StartsAwaited' /\ EndsAwaited' /\ OldRequestsGone'
  BY <1>6 DEF StartsAwaited, EndsAwaited, OldRequestsGone
<1>8. TurnsInOrder'
  <2>1. \A m \in requests', t \in Traces : OwnEnd(m, t) \/ m.kind = "start" => m \in requests
    BY <1>3 DEF OwnEnd
  <2> QED BY <1>2, <2>1 DEF Protocol, TurnsInOrder, Earlier, OwnEnd
<1> QED BY <1>5, <1>7, <1>8 DEF Protocol

\* Every step keeps the protocol, whatever it does to the tabs.
LEMMA ProtocolKept ==
  ASSUME TypeOK, Protocol, TypeOK', [Next]_vars
  PROVE  Protocol'
<1>1. ASSUME UNCHANGED <<worker, helper, requests>>, NEW S, Fewer(S)
      PROVE  Protocol'
  BY <1>1, ProtocolCalm
<1>2. ASSUME UNCHANGED creating
      PROVE  Fewer({})
  BY <1>2, NothingFewer
<1>3. ASSUME NEW C, creating' = creating \ C
      PROVE  Fewer({})
  <2>1. \A c \in creating : c = Without(c, {})
    BY TabFacts DEF Without, Creation
  <2> QED BY <1>3, <2>1 DEF Fewer
<1>4. ASSUME NEW t \in Traces, Start(t) \/ GiveUp(t) \/ End(t)
      PROVE  Protocol'
  <2>1. CASE GiveUp(t)
    <3>1. \A u \in Traces :
            /\ worker'[u].pid = worker[u].pid /\ worker'[u].by = worker[u].by
            /\ \/ worker'[u].phase = worker[u].phase
               \/ worker[u].phase \in {"starting", "ending"} /\ worker'[u].phase = "unreleased"
      BY <2>1 DEF GiveUp, TypeOK, Worker
    <3>2. UNCHANGED <<creating, helper, requests>>
      BY <2>1 DEF GiveUp, host
    <3> QED BY <1>2, <3>1, <3>2, ProtocolCalm
  <2> QED BY <1>4, <2>1, ProtocolStart, ProtocolEnd
<1>5. CASE HandleStart
  <2>1. PICK m \in Deliverable("start") :
            requests' = requests \ {m} /\ (RefuseStart(m) \/ ReuseTab(m) \/ CreateTab(m))
    BY <1>5 DEF HandleStart
  <2>2. helper' = helper /\ m.trace \in Traces /\ m.pid \in Nat
    BY <1>5, DeliveredFacts DEF HandleStart
  <2>3. CASE RefuseStart(m)
    <3>1. worker' = Leased(m, FALSE) /\ UNCHANGED creating
      BY <2>3 DEF RefuseStart, host
    <3>2. \A u \in Traces :
            /\ worker'[u].pid = worker[u].pid /\ worker'[u].by = worker[u].by
            /\ \/ worker'[u].phase = worker[u].phase
               \/ worker[u].phase \in {"starting", "ending"} /\ worker'[u].phase = "unreleased"
      BY <3>1 DEF Leased, TypeOK, Worker
    <3> QED BY <1>2, <2>1, <2>2, <3>1, <3>2, ProtocolCalm
  <2>4. CASE ReuseTab(m)
    <3>1. worker' = Leased(m, TRUE) /\ UNCHANGED creating
      BY <2>4 DEF ReuseTab
    <3> QED BY <2>1, <2>2, <3>1, ProtocolGranted
  <2>5. CASE CreateTab(m)
    <3>1. worker' = worker
      BY <2>5 DEF CreateTab
    <3>2. PICK s \in Slots :
            creating' = {Without(c, {s}) : c \in creating}
                        \union {[slot |-> s, trace |-> m.trace, pid |-> m.pid]}
      BY <2>5 DEF CreateTab, FreeSlots, Reclaimable
    <3> QED BY <2>1, <2>2, <3>1, <3>2, ProtocolCreates
  <2> QED BY <2>1, <2>3, <2>4, <2>5
<1>6. CASE FinishCreate
  <2>1. PICK c \in creating : creating' = creating \ {c} /\ worker' = Leased(c, TRUE)
    BY <1>6 DEF FinishCreate
  <2>2. c.trace \in Traces /\ c.pid \in Nat /\ UNCHANGED <<helper, requests>>
    BY <1>6, TabFacts DEF FinishCreate, Creation
  <2> QED BY <2>1, <2>2, ProtocolGranted
<1>7. CASE FailCreate
  <2>1. PICK c \in creating : creating' = creating \ {c} /\ worker' = Leased(c, FALSE)
    BY <1>7 DEF FailCreate
  <2>2. \A u \in Traces :
          /\ worker'[u].pid = worker[u].pid /\ worker'[u].by = worker[u].by
          /\ \/ worker'[u].phase = worker[u].phase
             \/ worker[u].phase \in {"starting", "ending"} /\ worker'[u].phase = "unreleased"
    BY <2>1 DEF Leased, TypeOK, Worker
  <2>3. UNCHANGED <<helper, requests>> /\ Fewer({})
    BY <1>3, <1>7, <2>1 DEF FailCreate
  <2> QED BY <2>2, <2>3, ProtocolCalm
<1>8. CASE HandleEnd
  <2>1. PICK m \in Deliverable("end") :
          /\ requests' = requests \ {m}
          /\ \/ EndClosed(m)
             \/ \E s \in FirstOf(m.trace) : EndMismatch(m, s) \/ Retain(m, s) \/ Discard(m, s)
    BY <1>8 DEF HandleEnd
  <2>2. helper' = helper
    BY <1>8 DEF HandleEnd
  <2>3. \E acknowledged, byUser : worker' = Ended(m, acknowledged, byUser)
    BY <2>1 DEF EndClosed, EndMismatch, Retain, Discard
  <2>4. UNCHANGED creating \/ \E s \in Slots : Fewer({s})
    <3>1. ASSUME NEW s \in FirstOf(m.trace), Discard(m, s)
          PROVE  s \in Slots /\ Fewer({s})
      BY <3>1 DEF Discard, RemoveTabs, Detach, Fewer, FirstOf, TabsOf
    <3> QED BY <2>1, <3>1 DEF EndClosed, EndMismatch, Retain
  <2> QED BY <1>2, <2>1, <2>2, <2>3, <2>4, ProtocolEnded
<1>9. CASE Release \/ CloseIdleTab \/ FinishClose \/ Awake \/ WakingSweep
  <2>1. UNCHANGED <<worker, helper, requests>>
    BY <1>9 DEF Release, CloseIdleTab, FinishClose, Awake, WakingSweep
  <2>2. UNCHANGED creating \/ \E S : Fewer(S)
    BY <1>9 DEF Release, CloseIdleTab, FinishClose, Awake, WakingSweep, Reap, RemoveTabs, Detach, Fewer
  <2> QED BY <1>1, <1>2, <2>1, <2>2
<1>10. CASE Boot \/ MarkFails \/ CloseRunningTab \/ CancelAnswered \/ CancelFails \/ Sleep \/ UNCHANGED vars
  <2>1. UNCHANGED <<creating, worker, helper, requests>>
    BY <1>10 DEF Boot, MarkFails, CloseRunningTab, CancelAnswered, CancelFails, Sleep, vars, host
  <2> QED BY <1>1, <1>2, <2>1
<1> QED BY <1>4, <1>5, <1>6, <1>7, <1>8, <1>9, <1>10, ProtocolCrash DEF Next

-----------------------------------------------------------------------------
(* What the tabs record *)

LEMMA TabFields ==
  ASSUME TypeOK, NEW s \in Slots
  PROVE  /\ tabs[s].trace \in Traces \union {None} /\ tabs[s].pid \in Nat
         /\ tabs[s].status \in Statuses /\ tabs[s].older \in SUBSET Slots
         /\ None \notin Traces
         /\ NoTab.status = "none" /\ NoTab.trace = None
BY TabFacts, Constants DEF Tab, NoTab

\* Tabs are removed or stay as they are, and nothing new is under way.
LEMMA RecordsCalm ==
  ASSUME TypeOK, TypeOK', Protocol, Records, marred' = marred,
         NEW S \in SUBSET Slots, \A s \in S : tabs'[s] = NoTab, \A s \in Slots \ S : SameTab(s),
         Fewer(S),
         \A t \in Traces : worker[t].pid > 0 => worker'[t].pid > 0,
         \A c \in creating : worker'[c.trace].phase = "starting" /\ c.pid = helper' =>
            worker[c.trace].phase = "starting" /\ helper' = helper,
         \A m \in requests', t \in Traces : OwnEnd(m, t) => m \in requests \/ worker[t].phase = "working"
  PROVE  TabsRecorded' /\ OneTabPerTurn' /\ CreationsOnRecord' /\ TabsFollowTurns' /\ TabsInOrder'
<1>1. /\ NoTab.status = "none" /\ NoTab.trace = None /\ None \notin Traces
      /\ \A s \in Slots : tabs[s].trace \in Traces \union {None}
  BY TabFields, Constants DEF NoTab
<1>2. \A t \in Traces, s \in Slots : s \in TabsOf(t)' <=> s \in TabsOf(t) /\ s \notin S
  BY <1>1 DEF TabsOf, SameTab
<1>3. TabsRecorded'
  BY <1>1 DEF Records, TabsRecorded, SameTab, Status
<1>4. OneTabPerTurn'
  BY <1>1 DEF Records, OneTabPerTurn, SameTab
<1>5. CreationsOnRecord'
  <2> SUFFICES ASSUME NEW c \in creating', c.slot # 0
               PROVE  /\ \A d \in creating' : d.slot = c.slot => c = d
                      /\ worker'[c.trace].phase = "starting" /\ c.pid = helper' /\ c.trace \notin marred =>
                            /\ tabs'[c.slot].status = "running" /\ tabs'[c.slot].trace = c.trace
                            /\ tabs'[c.slot].pid = helper'
    BY DEF CreationsOnRecord, Status
  <2>1. PICK x \in creating : c = Without(x, S) /\ x.trace = c.trace /\ x.pid = c.pid
                              /\ c.slot = (IF x.slot \in S THEN 0 ELSE x.slot)
    BY FewerFacts
  <2>2. x.slot = c.slot /\ x.slot # 0 /\ x.slot \in Slots \ S
    BY <2>1, TabFacts DEF Creation
  <2>3. ASSUME NEW d \in creating', d.slot = c.slot
        PROVE  c = d
    <3>1. PICK y \in creating : d = Without(y, S) /\ d.slot = (IF y.slot \in S THEN 0 ELSE y.slot)
      BY FewerFacts
    <3>2. x = y
      BY <2>2, <2>3, <3>1 DEF Records, CreationsOnRecord
    <3> QED BY <2>1, <3>1, <3>2
  <2>4. ASSUME worker'[c.trace].phase = "starting", c.pid = helper', c.trace \notin marred
        PROVE  /\ tabs'[c.slot].status = "running" /\ tabs'[c.slot].trace = c.trace
               /\ tabs'[c.slot].pid = helper'
    <3>1. worker[x.trace].phase = "starting" /\ x.pid = helper /\ helper' = helper /\ x.trace \notin marred
      BY <2>1, <2>4
    <3>2. Status(x.slot) = "running" /\ tabs[x.slot].trace = x.trace /\ tabs[x.slot].pid = helper
      BY <2>2, <3>1 DEF Records, CreationsOnRecord
    <3> QED BY <2>1, <2>2, <3>1, <3>2 DEF SameTab, Status
  <2> QED BY <2>3, <2>4
<1>6. TabsFollowTurns'
  <2> SUFFICES ASSUME NEW t \in Traces, NEW u \in Traces, Earlier(t, u), TabsOf(u)' # {}
               PROVE  /\ \A m \in requests' : ~OwnEnd(m, t)
                      /\ \A s \in TabsOf(t)' : tabs'[s].status # "ready"
    BY DEF TabsFollowTurns, Earlier, OwnEnd, Status
  <2>1. PICK r \in Slots : r \in TabsOf(u) /\ tabs[r].trace = u
    BY <1>2 DEF TabsOf
  <2>2. /\ \A m \in requests : ~OwnEnd(m, t)
        /\ \A s \in TabsOf(t) : Status(s) # "ready"
    BY <2>1 DEF Records, TabsFollowTurns
  <2>3. worker[t].phase # "working"
    <3>1. worker[u].pid > 0
      BY <1>1, <2>1 DEF Records, TabsRecorded
    <3>2. worker[t].phase # "idle" => worker[u].pid = 0
      BY DEF Protocol, TurnsInOrder
    <3> QED BY <3>1, <3>2
  <2>4. \A s \in TabsOf(t)' : s \in Slots /\ s \in TabsOf(t) /\ s \notin S
    BY <1>2 DEF TabsOf
  <2> QED BY <2>2, <2>3, <2>4 DEF SameTab, Status
<1>7. TabsInOrder'
  <2>1. ASSUME NEW s \in Slots, NEW r \in Slots, s # r, tabs'[s].status # "none", tabs'[r].status # "none"
        PROVE  s \in tabs'[r].older \/ r \in tabs'[s].older
    <3>1. s \notin S /\ r \notin S
      BY <1>1, <2>1
    <3> QED BY <2>1, <3>1 DEF Records, TabsInOrder, SameTab, Status
  <2>2. ASSUME NEW s \in Slots, tabs'[s].status = "ready"
        PROVE  s \in FirstOf(tabs[s].trace)' /\ tabs'[s].trace = tabs[s].trace
    <3>1. s \notin S
      BY <1>1, <2>2
    <3>2. Status(s) = "ready" /\ s \in FirstOf(tabs[s].trace)
      BY <2>2, <3>1 DEF Records, TabsInOrder, SameTab, Status
    <3>3. tabs[s].trace \in Traces
      BY <1>1, <3>2 DEF Records, TabsRecorded
    <3>4. tabs'[s].older = tabs[s].older /\ tabs'[s].trace = tabs[s].trace
      BY <3>1 DEF SameTab
    <3>5. s \in TabsOf(tabs[s].trace)' /\ TabsOf(tabs[s].trace)' \subseteq TabsOf(tabs[s].trace)
      BY <1>2, <3>1, <3>2, <3>3 DEF FirstOf, TabsOf
    <3> QED BY <3>2, <3>4, <3>5 DEF FirstOf
  <2>9. \A s \in Slots : s \notin tabs'[s].older
    BY NoTabType DEF Records, TabsInOrder, SameTab, NoTab
  <2> QED BY <2>1, <2>2, <2>9 DEF TabsInOrder, Status, FirstOf, TabsOf
<1> QED BY <1>3, <1>4, <1>5, <1>6, <1>7

\* A lease that loses its tab is remembered.
LEMMA LeasesCalm ==
  ASSUME TypeOK, TypeOK', Protocol, Records, marred' = marred,
         NEW S \in SUBSET Slots, \A s \in S : tabs'[s] = NoTab, \A s \in Slots \ S : SameTab(s),
         \A t \in Traces : worker'[t].phase = "working" => worker[t].phase = "working" /\ helper' = helper,
         \A t \in Traces \ marred, s \in S :
            worker'[t].phase = "working" /\ tabs[s].trace = t /\ Status(s) = "running"
            /\ tabs[s].pid = helper => closedOwners'[t] = helper,
         \A t \in Traces \ marred :
            worker'[t].phase = "working" /\ TabsOf(t) = {} /\ closedOwners[t] = helper =>
            closedOwners'[t] = helper
  PROVE  LeaseKept'
<1> SUFFICES ASSUME NEW t \in Traces \ marred, worker'[t].phase = "working"
             PROVE  \/ \E s \in TabsOf(t)' : tabs'[s].pid = helper' /\ tabs'[s].status = "running"
                    \/ TabsOf(t)' = {} /\ closedOwners'[t] = helper'
  BY DEF LeaseKept, Status
<1>1. worker[t].phase = "working" /\ helper' = helper
  OBVIOUS
<1>2. \A s \in Slots : s \in TabsOf(t)' <=> s \in TabsOf(t) /\ s \notin S
  BY TabFields, Constants DEF TabsOf, SameTab, NoTab
<1>3. CASE \E s \in TabsOf(t) : tabs[s].pid = helper /\ Status(s) = "running"
  <2>1. PICK s \in TabsOf(t) : tabs[s].pid = helper /\ Status(s) = "running"
    BY <1>3
  <2>2. s \in Slots /\ tabs[s].trace = t
    BY DEF TabsOf
  <2>3. CASE s \in S
    <3>1. \A r \in TabsOf(t) : r = s
      BY <2>2, Constants DEF Records, OneTabPerTurn, TabsOf
    <3>2. TabsOf(t)' = {}
      BY <1>2, <2>3, <3>1 DEF TabsOf
    <3> QED BY <1>1, <2>1, <2>2, <2>3, <3>2
  <2>4. CASE s \notin S
    BY <1>1, <1>2, <2>1, <2>2, <2>4 DEF SameTab, Status
  <2> QED BY <2>3, <2>4
<1>4. CASE TabsOf(t) = {} /\ closedOwners[t] = helper
  <2>1. TabsOf(t)' = {}
    BY <1>2, <1>4 DEF TabsOf
  <2> QED BY <1>1, <1>4, <2>1
<1> QED BY <1>1, <1>3, <1>4 DEF Records, LeaseKept

LEMMA ClosedByFacts ==
  ASSUME TypeOK, Records, NEW S \in SUBSET Slots, NEW abortRunning \in BOOLEAN, NEW t \in Traces
  PROVE  /\ TabsOf(t) = {} => ClosedBy(S, abortRunning)[t] = closedOwners[t]
         /\ abortRunning /\ t \notin marred =>
               \A s \in S : Status(s) = "running" /\ tabs[s].trace = t =>
                  ClosedBy(S, abortRunning)[t] = tabs[s].pid
<1>1. ASSUME TabsOf(t) = {}
      PROVE  ClosedBy(S, abortRunning)[t] = closedOwners[t]
  BY <1>1 DEF ClosedBy, TabsOf
<1>2. ASSUME abortRunning, t \notin marred, NEW s \in S, Status(s) = "running", tabs[s].trace = t
      PROVE  ClosedBy(S, abortRunning)[t] = tabs[s].pid
  <2> DEFINE r == CHOOSE r \in S : Status(r) = "running" /\ tabs[r].trace = t
  <2>1. r \in S /\ tabs[r].trace = t
    BY <1>2
  <2>2. r = s
    BY <1>2, <2>1, Constants DEF Records, OneTabPerTurn
  <2> QED BY <1>2, <2>2 DEF ClosedBy
<1> QED BY <1>1, <1>2

\* What a start that is not refused finds: a turn without a marred tab has at most one tab, and
\* the retained tab of its conversation is the only one.
LEMMA StartFinds ==
  ASSUME TypeOK, Records, NEW m, m.trace \in Traces, NEW s \in FirstTabs(m.trace), ~Refused(s, m)
  PROVE  /\ \A e \in Existing(s, m) : e \in Slots
         /\ \A e \in Existing(s, m) :
               \/ Status(e) = "running" /\ e \in FirstOf(m.trace)
                  /\ (tabs[e].pid = m.pid \/ tabs[e].pid # helper)
               \/ Status(e) = "ready" /\ Conversation[tabs[e].trace] = Conversation[m.trace]
                  /\ \A r \in Slots : Status(r) = "ready" /\ Conversation[tabs[r].trace] = Conversation[m.trace]
                        => r = e
         /\ Existing(s, m) = {} => Retained(Conversation[m.trace]) = {}
         /\ m.trace \notin marred =>
               /\ \A e \in Existing(s, m) : TabsOf(m.trace) \subseteq {e}
               /\ Existing(s, m) = {} => TabsOf(m.trace) = {}
<1> DEFINE k == Conversation[m.trace]
<1>1. \A r \in Slots : r \in Retained(k) <=> Status(r) = "ready" /\ Conversation[tabs[r].trace] = k
  BY DEF Retained
<1>2. /\ ~Ambiguous(k)
      /\ ~(SameRuns(s) /\ tabs[s].pid # m.pid /\ tabs[s].pid = helper)
  BY DEF Refused, OwnedByAnother, ProcessRunning
<1>3. TabsOf(m.trace) # {} => s \in FirstOf(m.trace) /\ s \in TabsOf(m.trace)
  BY DEF FirstTabs, FirstOf
<1>4. s \in Slots => s \in FirstOf(m.trace)
  BY Constants DEF FirstTabs
<1>5. CASE SameRuns(s)
  <2>1. s \in Slots /\ s # 0 /\ Status(s) = "running" /\ Existing(s, m) = {s}
    BY <1>5 DEF SameRuns, FirstTabs, FirstOf, TabsOf, Existing
  <2>2. tabs[s].trace = m.trace
    BY <1>4, <2>1 DEF FirstOf, TabsOf
  <2>3. m.trace \notin marred => TabsOf(m.trace) \subseteq {s}
    BY <2>1, <2>2, Constants DEF Records, OneTabPerTurn, TabsOf
  <2> QED BY <1>2, <1>4, <1>5, <2>1, <2>3
<1>6. CASE ~SameRuns(s)
  <2>1. Existing(s, m) = Retained(k) /\ Retained(k) \subseteq Slots
    BY <1>6 DEF Existing, Retained
  <2>2. \A e \in Retained(k), r \in Slots : Status(r) = "ready" /\ Conversation[tabs[r].trace] = k => r = e
    BY <1>1, <1>2, OneRetained
  <2>3. ASSUME m.trace \notin marred, TabsOf(m.trace) # {}
        PROVE  s \in Retained(k) /\ TabsOf(m.trace) \subseteq {s}
    <3>1. s \in Slots /\ tabs[s].trace = m.trace /\ s # 0
      BY <1>3, <2>3, Constants DEF TabsOf
    <3>2. Status(s) = "ready"
      BY <1>6, <2>3, <3>1, TabFields, Constants DEF Records, TabsRecorded, SameRuns, Statuses, Status
    <3>3. TabsOf(m.trace) \subseteq {s}
      BY <2>3, <3>1, Constants DEF Records, OneTabPerTurn, TabsOf
    <3> QED BY <1>1, <3>1, <3>2, <3>3
  <2>4. \A e \in Retained(k) : Status(e) = "ready" /\ Conversation[tabs[e].trace] = k
    BY <1>1, <2>1
  <2>5. m.trace \notin marred =>
          /\ \A e \in Retained(k) : TabsOf(m.trace) \subseteq {e}
          /\ Retained(k) = {} => TabsOf(m.trace) = {}
    BY <1>2, <2>3, OneRetained
  <2> QED BY <2>1, <2>2, <2>4, <2>5
<1> QED BY <1>5, <1>6

\* When a start is handled, its turn is not working and its predecessors have no end under way.
LEMMA StartArrives ==
  ASSUME TypeOK, Protocol, Records, NEW m \in Deliverable("start")
  PROVE  /\ m \in requests /\ m.trace \in Traces /\ m.pid \in Nat
         /\ worker[m.trace].pid > 0
         /\ \A t \in Traces : worker[t].phase = "working" => t # m.trace
         /\ \A t \in Traces : Earlier(t, m.trace) => \A n \in requests : ~OwnEnd(n, t)
<1>1. /\ m \in requests /\ m.trace \in Traces /\ m.pid \in Nat /\ m.kind = "start" /\ m.by = "worker"
      /\ \A r \in requests : r.by = "worker" => r.pid >= m.pid
  BY DeliveredFacts, KindFacts
<1>2. worker[m.trace].pid > 0
  BY <1>1, WorkerFacts DEF Protocol, PidsKnown
<1>3. ASSUME NEW t \in Traces, worker[t].phase = "working", t = m.trace
      PROVE  FALSE
  <2>1. m.pid = helper
    BY <1>1, <1>3 DEF Protocol, OldRequestsGone
  <2> QED BY <1>1, <1>3, <2>1 DEF Protocol, StartsAwaited, Awaited
<1>4. ASSUME NEW t \in Traces, Earlier(t, m.trace), NEW n \in requests, OwnEnd(n, t)
      PROVE  FALSE
  <2>1. n.pid < m.pid
    BY <1>1, <1>4 DEF Protocol, TurnsInOrder
  <2>2. n.pid >= m.pid /\ n.pid \in Nat
    BY <1>1, <1>4, TabFacts DEF OwnEnd
  <2> QED BY <1>1, <2>1, <2>2
<1> QED BY <1>1, <1>2, <1>3, <1>4

LEMMA RecordsReuse ==
  ASSUME TypeOK, TypeOK', Protocol, Records, NEW m \in Deliverable("start"), requests' = requests \ {m},
         ReuseTab(m), UNCHANGED <<helper, marred>>
  PROVE  Records'
<1> DEFINE t == m.trace
<1>1. PICK s \in FirstTabs(m.trace) : ~Refused(s, m) /\ \E e \in Existing(s, m) :
          tabs' = [tabs EXCEPT ![e] = Lease(e, m)]
  BY DEF ReuseTab
<1>2. PICK e \in Existing(s, m) : tabs' = [tabs EXCEPT ![e] = Lease(e, m)]
  BY <1>1
<1>3. /\ m \in requests /\ t \in Traces /\ m.pid \in Nat /\ worker[t].pid > 0
      /\ \A u \in Traces : worker[u].phase = "working" => u # t
      /\ \A u \in Traces : Earlier(u, t) => \A n \in requests : ~OwnEnd(n, u)
      /\ m.kind = "start"
  BY StartArrives, DeliveredFacts
<1>4. /\ e \in Slots
      /\ \/ Status(e) = "running" /\ e \in FirstOf(t)
            /\ (tabs[e].pid = m.pid \/ tabs[e].pid # helper)
         \/ Status(e) = "ready" /\ Conversation[tabs[e].trace] = Conversation[t]
            /\ \A r \in Slots : Status(r) = "ready" /\ Conversation[tabs[r].trace] = Conversation[t]
                  => r = e
      /\ t \notin marred => TabsOf(t) \subseteq {e}
  BY <1>1, <1>3, StartFinds
<1>5. /\ tabs'[e].status = "running" /\ tabs'[e].trace = t /\ tabs'[e].pid = m.pid
      /\ tabs'[e].older = tabs[e].older
      /\ \A r \in Slots : r # e => tabs'[r] = tabs[r]
  BY <1>2, <1>3, <1>4, LeaseFacts DEF TypeOK
<1>6. \A u \in Traces :
        /\ worker'[u].pid = worker[u].pid
        /\ worker'[u].phase = "starting" => worker[u].phase = "starting"
        /\ worker'[u].phase = "working" =>
              worker[u].phase = "working" \/ (u = t /\ m.pid = worker[u].pid /\ worker[u].phase = "starting")
  <2>1. worker' = Leased(m, TRUE)
    BY DEF ReuseTab
  <2> QED BY <2>1 DEF Leased, TypeOK, Worker
<1>7. /\ creating' = creating /\ closedOwners' = closedOwners
  BY DEF ReuseTab
<1> HIDE DEF t
<1>8. TabsRecorded'
  BY <1>3, <1>5, <1>6, TabFields, Constants DEF Records, TabsRecorded, Status
<1>9. OneTabPerTurn'
  <2> SUFFICES ASSUME NEW a \in Slots, NEW b \in Slots, tabs'[a].trace = tabs'[b].trace,
                      tabs'[a].trace # None, tabs'[a].trace \notin marred
               PROVE  a = b
    BY DEF OneTabPerTurn
  <2>1. \A r \in Slots : r # e /\ tabs[r].trace = t => t \in marred
    BY <1>4 DEF TabsOf
  <2> QED BY <1>5, <2>1 DEF Records, OneTabPerTurn
<1>10. CreationsOnRecord'
  <2> SUFFICES ASSUME NEW c \in creating, c.slot # 0, worker'[c.trace].phase = "starting", c.pid = helper,
                      c.trace \notin marred
               PROVE  tabs'[c.slot].status = "running" /\ tabs'[c.slot].trace = c.trace
                      /\ tabs'[c.slot].pid = helper
    BY <1>7 DEF Records, CreationsOnRecord, Status
  <2>1. c.slot \in Slots /\ c.trace \in Traces
    BY TabFacts DEF Creation
  <2>2. Status(c.slot) = "running" /\ tabs[c.slot].trace = c.trace /\ tabs[c.slot].pid = helper
    BY <1>6, <2>1 DEF Records, CreationsOnRecord
  <2>3. CASE c.slot = e
    <3>1. e \in FirstOf(t) /\ tabs[e].pid = m.pid
      BY <1>4, <2>2, <2>3
    <3> QED BY <1>5, <2>2, <2>3, <3>1 DEF FirstOf, TabsOf
  <2> QED BY <1>5, <2>1, <2>2, <2>3 DEF Status
<1>11. LeaseKept'
  <2> SUFFICES ASSUME NEW u \in Traces \ marred, worker'[u].phase = "working"
               PROVE  \/ \E r \in TabsOf(u)' : tabs'[r].pid = helper /\ tabs'[r].status = "running"
                      \/ TabsOf(u)' = {} /\ closedOwners[u] = helper
    BY <1>7 DEF LeaseKept, Status
  <2>1. CASE u = t
    <3>1. m.pid = helper
      BY <1>3, <1>6, <2>1 DEF Protocol, PidsKnown
    <3> QED BY <1>4, <1>5, <2>1, <3>1 DEF TabsOf
  <2>2. CASE u # t
    <3>1. worker[u].phase = "working"
      BY <1>6, <2>2
    <3>2. \A r \in Slots : r \in TabsOf(u)' => r \in TabsOf(u)
      BY <1>5, <2>2 DEF TabsOf
    <3>3. \A r \in TabsOf(u) : Status(r) = "running" => r # e /\ tabs'[r] = tabs[r] /\ r \in TabsOf(u)'
      BY <1>4, <1>5, <2>2 DEF TabsOf, FirstOf
    <3>4. TabsOf(u)' \subseteq TabsOf(u)
      BY <3>2 DEF TabsOf
    <3> QED BY <3>1, <3>3, <3>4 DEF Records, LeaseKept, Status
  <2> QED BY <2>1, <2>2
<1>12. TabsFollowTurns'
  <2> SUFFICES ASSUME NEW a \in Traces, NEW b \in Traces, Earlier(a, b), TabsOf(b)' # {}
               PROVE  /\ \A n \in requests : ~OwnEnd(n, a)
                      /\ \A r \in TabsOf(a)' : tabs'[r].status # "ready"
    BY DEF TabsFollowTurns, Earlier, OwnEnd, Status
  <2>1. \A r \in TabsOf(a)' : tabs'[r].status = "ready" => r \in TabsOf(a) /\ Status(r) = "ready" /\ r # e
    BY <1>5 DEF TabsOf, Status
  <2>2. CASE TabsOf(b) # {}
    BY <2>1, <2>2 DEF Records, TabsFollowTurns
  <2>3. CASE TabsOf(b) = {}
    <3>1. b = t
      BY <1>5, <2>3 DEF TabsOf
    <3>2. Status(e) = "ready" /\ \A r \in Slots :
            Status(r) = "ready" /\ Conversation[tabs[r].trace] = Conversation[t] => r = e
      BY <1>4, <2>3, <3>1 DEF FirstOf
    <3>3. \A r \in TabsOf(a) : r \in Slots /\ Conversation[tabs[r].trace] = Conversation[t]
      BY <3>1 DEF Earlier, TabsOf
    <3> QED BY <1>3, <2>1, <3>1, <3>2, <3>3
  <2> QED BY <2>2, <2>3
<1>13. TabsInOrder'
  <2>1. ASSUME NEW a \in Slots, NEW b \in Slots, a # b, tabs'[a].status # "none", tabs'[b].status # "none"
        PROVE  a \in tabs'[b].older \/ b \in tabs'[a].older
    BY <1>4, <1>5, <2>1 DEF Records, TabsInOrder, Status
  <2>2. ASSUME NEW r \in Slots, tabs'[r].status = "ready"
        PROVE  r \in FirstOf(tabs[r].trace)' /\ tabs'[r].trace = tabs[r].trace
    <3>1. r # e /\ tabs'[r] = tabs[r] /\ Status(r) = "ready" /\ r \in FirstOf(tabs[r].trace)
      BY <1>5, <2>2 DEF Records, TabsInOrder, Status
    <3>2. tabs[r].trace = t => e \in TabsOf(t)
      BY <1>4, <3>1 DEF FirstOf, TabsOf
    <3>3. TabsOf(tabs[r].trace)' \subseteq TabsOf(tabs[r].trace)
      BY <1>5, <3>1, <3>2 DEF TabsOf
    <3>4. r \in TabsOf(tabs[r].trace)'
      BY <3>1 DEF TabsOf
    <3> QED BY <3>1, <3>3, <3>4 DEF FirstOf
  <2>9. \A r \in Slots : r \notin tabs'[r].older
    BY <1>5 DEF Records, TabsInOrder
  <2> QED BY <2>1, <2>2, <2>9 DEF TabsInOrder, Status, FirstOf, TabsOf
<1> QED BY <1>8, <1>9, <1>10, <1>11, <1>12, <1>13 DEF Records

LEMMA RecordsCreate ==
  ASSUME TypeOK, TypeOK', Protocol, Records, NEW m \in Deliverable("start"), requests' = requests \ {m},
         CreateTab(m), UNCHANGED <<helper, marred>>
  PROVE  Records'
<1> DEFINE t == m.trace
<1>1. PICK s \in FirstTabs(m.trace) : ~Refused(s, m) /\ Existing(s, m) = {}
  BY DEF CreateTab
<1>2. PICK f \in IF FreeSlots # {} THEN {f \in FreeSlots : \A r \in FreeSlots : f <= r}
                 ELSE Reclaimable :
        /\ tabs' = [r \in Slots |->
              IF r = f THEN NewTab(m.trace, m.pid, Slots \ (FreeSlots \union {f}))
              ELSE [tabs[r] EXCEPT !.older = @ \ {f}]]
        /\ creating' = {Without(c, {f}) : c \in creating}
                       \union {[slot |-> f, trace |-> m.trace, pid |-> m.pid]}
  BY DEF CreateTab
<1>3. /\ m \in requests /\ t \in Traces /\ m.pid \in Nat /\ worker[t].pid > 0
      /\ \A u \in Traces : worker[u].phase = "working" => u # t
      /\ \A u \in Traces : Earlier(u, t) => \A n \in requests : ~OwnEnd(n, u)
  BY StartArrives
<1>4. /\ Retained(Conversation[t]) = {}
      /\ t \notin marred => TabsOf(t) = {}
  BY <1>1, <1>3, StartFinds
<1>5. f \in Slots /\ Status(f) \in {"none", "ready"}
  BY <1>2 DEF FreeSlots, Reclaimable
<1>6. /\ tabs'[f].status = "running" /\ tabs'[f].trace = t /\ tabs'[f].pid = m.pid
      /\ tabs'[f].older = Slots \ (FreeSlots \union {f})
  BY <1>2, <1>5 DEF NewTab, NoTab
<1>7. \A r \in Slots : r # f =>
        /\ tabs'[r].status = tabs[r].status /\ tabs'[r].trace = tabs[r].trace
        /\ tabs'[r].pid = tabs[r].pid /\ tabs'[r].older = tabs[r].older \ {f}
  <2>1. \A r \in Slots : r # f => tabs'[r] = [tabs[r] EXCEPT !.older = @ \ {f}]
    BY <1>2
  <2> QED BY <2>1, TabFacts DEF Tab
<1>8. UNCHANGED <<worker, closedOwners>>
  BY DEF CreateTab
<1>9. \A c \in creating' :
        \/ c = [slot |-> f, trace |-> m.trace, pid |-> m.pid]
        \/ \E d \in creating : c = Without(d, {f}) /\ d.trace = c.trace /\ d.pid = c.pid
                               /\ c.slot = (IF d.slot \in {f} THEN 0 ELSE d.slot)
  <2>1. \A d \in creating : /\ Without(d, {f}).trace = d.trace /\ Without(d, {f}).pid = d.pid
                            /\ Without(d, {f}).slot = (IF d.slot \in {f} THEN 0 ELSE d.slot)
    BY TabFacts, CreationWithout
  <2> QED BY <1>2, <2>1
<1> DEFINE new == [slot |-> f, trace |-> m.trace, pid |-> m.pid]
<1>10. new.slot = f /\ new.trace = t /\ new.pid = m.pid
  OBVIOUS
<1>11. \A c \in creating' : c = new \/ \E d \in creating :
          c = Without(d, {f}) /\ d.trace = c.trace /\ d.pid = c.pid
          /\ c.slot # f /\ (c.slot # 0 => c.slot = d.slot)
  BY <1>5, <1>9, Constants
<1> HIDE DEF t, new
<1>12. TabsRecorded'
  <2> SUFFICES ASSUME NEW r \in Slots
               PROVE  /\ tabs'[r].status = "none" <=> tabs'[r].trace = None
                      /\ tabs'[r].trace # None => worker[tabs'[r].trace].pid > 0
                      /\ tabs'[r].status = "error" => tabs'[r].trace \in marred
    BY <1>8 DEF TabsRecorded, Status
  <2>1. CASE r = f
    BY <1>3, <1>6, <2>1, Constants
  <2>2. CASE r # f
    BY <1>7, <2>2 DEF Records, TabsRecorded, Status
  <2> QED BY <2>1, <2>2
<1>13. OneTabPerTurn'
  <2> SUFFICES ASSUME NEW a \in Slots, NEW b \in Slots, tabs'[a].trace = tabs'[b].trace,
                      tabs'[a].trace # None, tabs'[a].trace \notin marred
               PROVE  a = b
    BY DEF OneTabPerTurn
  <2>1. \A r \in Slots : tabs[r].trace = t => t \in marred
    BY <1>4 DEF TabsOf
  <2> QED BY <1>6, <1>7, <2>1 DEF Records, OneTabPerTurn
<1>14. CreationsOnRecord'
  <2> SUFFICES ASSUME NEW c \in creating', c.slot # 0
               PROVE  /\ \A d \in creating' : d.slot = c.slot => c = d
                      /\ worker[c.trace].phase = "starting" /\ c.pid = helper /\ c.trace \notin marred =>
                            /\ tabs'[c.slot].status = "running" /\ tabs'[c.slot].trace = c.trace
                            /\ tabs'[c.slot].pid = helper
    BY <1>8 DEF CreationsOnRecord, Status
  <2>1. CASE c = new
    BY <1>6, <1>10, <1>11, <2>1
  <2>2. CASE c # new
    <3>1. PICK x \in creating : /\ c = Without(x, {f}) /\ x.trace = c.trace /\ x.pid = c.pid
                                /\ c.slot # f /\ c.slot = x.slot
      BY <1>11, <2>2
    <3>2. x.slot \in Slots
      BY <3>1, TabFacts DEF Creation
    <3>3. ASSUME NEW d \in creating', d.slot = c.slot
          PROVE  c = d
      <4>1. d # new
        BY <1>10, <3>1, <3>3
      <4>2. PICK y \in creating : d = Without(y, {f}) /\ d.slot = y.slot
        BY <1>11, <3>3, <4>1
      <4>3. x = y
        BY <3>1, <3>3, <4>2 DEF Records, CreationsOnRecord
      <4> QED BY <3>1, <4>2, <4>3
    <3>4. worker[x.trace].phase = "starting" /\ x.pid = helper /\ x.trace \notin marred =>
             Status(x.slot) = "running" /\ tabs[x.slot].trace = x.trace /\ tabs[x.slot].pid = helper
      BY <3>1 DEF Records, CreationsOnRecord
    <3> QED BY <1>7, <3>1, <3>2, <3>3, <3>4 DEF Status
  <2> QED BY <2>1, <2>2
<1>15. LeaseKept'
  <2> SUFFICES ASSUME NEW u \in Traces \ marred, worker[u].phase = "working"
               PROVE  \/ \E r \in TabsOf(u)' : tabs'[r].pid = helper /\ tabs'[r].status = "running"
                      \/ TabsOf(u)' = {} /\ closedOwners[u] = helper
    BY <1>8 DEF LeaseKept, Status
  <2>1. u # t
    BY <1>3
  <2>2. \A r \in TabsOf(u)' : r \in TabsOf(u) /\ r # f
    BY <1>6, <1>7, <2>1 DEF TabsOf
  <2>3. \A r \in TabsOf(u) : Status(r) = "running" =>
          r \in TabsOf(u)' /\ tabs'[r].status = "running" /\ tabs'[r].pid = tabs[r].pid
    BY <1>5, <1>7 DEF TabsOf, Status
  <2> QED BY <2>2, <2>3 DEF Records, LeaseKept
<1>16. TabsFollowTurns'
  <2> SUFFICES ASSUME NEW a \in Traces, NEW b \in Traces, Earlier(a, b), TabsOf(b)' # {}
               PROVE  /\ \A n \in requests : ~OwnEnd(n, a)
                      /\ \A r \in TabsOf(a)' : tabs'[r].status # "ready"
    BY DEF TabsFollowTurns, Earlier, OwnEnd, Status
  <2>1. \A r \in TabsOf(a)' : tabs'[r].status = "ready" => r \in TabsOf(a) /\ Status(r) = "ready"
    BY <1>6, <1>7 DEF TabsOf, Status
  <2>2. CASE TabsOf(b) # {}
    BY <2>1, <2>2 DEF Records, TabsFollowTurns
  <2>3. CASE TabsOf(b) = {}
    <3>1. b = t
      BY <1>6, <1>7, <2>3 DEF TabsOf
    <3>2. \A r \in TabsOf(a) : r \in Slots /\ Conversation[tabs[r].trace] = Conversation[t]
      BY <3>1 DEF Earlier, TabsOf
    <3> QED BY <1>3, <1>4, <2>1, <3>1, <3>2 DEF Retained
  <2> QED BY <2>2, <2>3
<1>17. TabsInOrder'
  <2>1. ASSUME NEW a \in Slots, NEW b \in Slots, a # b, tabs'[a].status # "none", tabs'[b].status # "none"
        PROVE  a \in tabs'[b].older \/ b \in tabs'[a].older
    <3>1. CASE a = f
      BY <1>6, <1>7, <2>1, <3>1 DEF FreeSlots, Status
    <3>2. CASE b = f
      BY <1>6, <1>7, <2>1, <3>2 DEF FreeSlots, Status
    <3>3. CASE a # f /\ b # f
      BY <1>7, <2>1, <3>3 DEF Records, TabsInOrder, Status
    <3> QED BY <3>1, <3>2, <3>3
  <2>2. ASSUME NEW r \in Slots, tabs'[r].status = "ready"
        PROVE  r \in FirstOf(tabs[r].trace)' /\ tabs'[r].trace = tabs[r].trace
    <3>1. /\ r # f /\ tabs'[r].trace = tabs[r].trace /\ tabs'[r].older = tabs[r].older \ {f}
          /\ Status(r) = "ready" /\ r \in FirstOf(tabs[r].trace)
      BY <1>6, <1>7, <2>2 DEF Records, TabsInOrder, Status
    <3>2. \A q \in Slots : q \in TabsOf(tabs[r].trace)' => q = f \/ q \in TabsOf(tabs[r].trace)
      BY <1>7, <3>1 DEF TabsOf
    <3>3. r \in TabsOf(tabs[r].trace)' /\ TabsOf(tabs[r].trace)' \subseteq Slots
      BY <3>1 DEF TabsOf
    <3>4. tabs'[r].older \intersect TabsOf(tabs[r].trace)' = {}
      BY <3>1, <3>2, <3>3 DEF FirstOf
    <3> QED BY <3>1, <3>3, <3>4 DEF FirstOf
  <2>9. \A r \in Slots : r \notin tabs'[r].older
    BY <1>6, <1>7 DEF Records, TabsInOrder
  <2> QED BY <2>1, <2>2, <2>9 DEF TabsInOrder, Status, FirstOf, TabsOf
<1> QED BY <1>12, <1>13, <1>14, <1>15, <1>16, <1>17 DEF Records

\* No end of the running helper arrives for a turn that has yet to end.
LEMMA EndArrives ==
  ASSUME TypeOK, Protocol, NEW m \in Deliverable("end")
  PROVE  /\ m \in requests /\ m.trace \in Traces
         /\ m.pid = helper => OwnEnd(m, m.trace) /\ worker[m.trace].phase \in {"ending", "unreleased"}
         /\ m.keep => OwnEnd(m, m.trace)
<1>1. m \in requests /\ m.trace \in Traces /\ m.kind = "end" /\ m.by \in {"worker", "parent"}
  BY DeliveredFacts, KindFacts
<1>2. m.by = "parent" => m.pid < helper /\ ~m.keep
  BY <1>1 DEF Protocol, PidsKnown
<1>3. m.by = "worker" /\ m.pid = helper => Finishing(m.trace)
  BY <1>1 DEF Protocol, EndsAwaited
<1>4. m.pid \in Nat /\ helper \in Nat
  BY <1>1, TabFacts DEF TypeOK
<1> QED BY <1>1, <1>2, <1>3, <1>4 DEF OwnEnd, Finishing

LEMMA RecordsRetain ==
  ASSUME TypeOK, TypeOK', Protocol, Records, NEW m \in Deliverable("end"), requests' = requests \ {m},
         NEW s \in FirstOf(m.trace), Retain(m, s), UNCHANGED <<helper, marred>>
  PROVE  Records'
<1>1. s \in Slots /\ tabs[s].trace = m.trace /\ tabs[s].pid = m.pid /\ m.keep
  BY DEF FirstOf, TabsOf, Retain
<1>2. /\ tabs'[s].status = "ready" /\ tabs'[s].trace = tabs[s].trace
      /\ tabs'[s].pid = tabs[s].pid /\ tabs'[s].older = tabs[s].older
      /\ \A r \in Slots : r # s => tabs'[r] = tabs[r]
  BY <1>1, RetainFacts
<1>3. /\ m \in requests /\ m.trace \in Traces
      /\ m.pid = helper => worker[m.trace].phase \in {"ending", "unreleased"}
      /\ OwnEnd(m, m.trace)
  BY <1>1, EndArrives
<1>4. \A t \in Traces : /\ worker'[t].pid = worker[t].pid
                        /\ worker'[t].phase \in {"starting", "working"} => worker[t].phase = worker'[t].phase
  <2>1. PICK acknowledged, byUser : worker' = Ended(m, acknowledged, byUser)
    BY DEF Retain
  <2>2. \A t \in Traces :
          /\ worker'[t].pid = worker[t].pid
          /\ \/ worker'[t].phase = worker[t].phase
             \/ worker'[t].phase \in {"idle", "unreleased"}
    BY <1>3, <2>1, EndedFacts
  <2> QED BY <2>2
<1>5. UNCHANGED <<creating, closedOwners>>
  BY DEF Retain
<1>6. \A r \in Slots : tabs'[r].trace = tabs[r].trace /\ tabs'[r].pid = tabs[r].pid
                       /\ tabs'[r].older = tabs[r].older
  BY <1>2
<1>7. \A t \in Traces : TabsOf(t)' = TabsOf(t)
  BY <1>6 DEF TabsOf
<1>8. TabsRecorded'
  BY <1>1, <1>2, <1>3, <1>4, TabFields, Constants DEF Records, TabsRecorded, Status
<1>9. OneTabPerTurn'
  BY <1>6 DEF Records, OneTabPerTurn
<1>10. CreationsOnRecord'
  <2> SUFFICES ASSUME NEW c \in creating, c.slot # 0, worker'[c.trace].phase = "starting", c.pid = helper,
                      c.trace \notin marred
               PROVE  tabs'[c.slot].status = "running" /\ tabs'[c.slot].trace = c.trace
                      /\ tabs'[c.slot].pid = helper
    BY <1>5 DEF Records, CreationsOnRecord, Status
  <2>1. c.slot \in Slots /\ c.trace \in Traces
    BY TabFacts DEF Creation
  <2>2. worker[c.trace].phase = "starting"
    BY <1>4, <2>1
  <2>3. Status(c.slot) = "running" /\ tabs[c.slot].trace = c.trace /\ tabs[c.slot].pid = helper
    BY <2>2 DEF Records, CreationsOnRecord
  <2>4. c.slot # s
    BY <1>1, <1>3, <2>2, <2>3
  <2> QED BY <1>2, <2>1, <2>3, <2>4 DEF Status
<1>11. LeaseKept'
  <2> SUFFICES ASSUME NEW u \in Traces \ marred, worker'[u].phase = "working"
               PROVE  \/ \E r \in TabsOf(u)' : tabs'[r].pid = helper /\ tabs'[r].status = "running"
                      \/ TabsOf(u)' = {} /\ closedOwners[u] = helper
    BY <1>5 DEF LeaseKept, Status
  <2>1. worker[u].phase = "working"
    BY <1>4
  <2>2. \A r \in TabsOf(u) : tabs[r].pid = helper => r # s
    BY <1>1, <1>3, <2>1 DEF TabsOf
  <2> QED BY <1>2, <1>7, <2>1, <2>2 DEF Records, LeaseKept, TabsOf, Status
<1>12. TabsFollowTurns'
  <2> SUFFICES ASSUME NEW a \in Traces, NEW b \in Traces, Earlier(a, b), TabsOf(b)' # {}
               PROVE  /\ \A n \in requests' : ~OwnEnd(n, a)
                      /\ \A r \in TabsOf(a)' : tabs'[r].status # "ready"
    BY DEF TabsFollowTurns, Earlier, OwnEnd, Status
  <2>1. /\ \A n \in requests : ~OwnEnd(n, a)
        /\ \A r \in TabsOf(a) : Status(r) # "ready"
    BY <1>7 DEF Records, TabsFollowTurns
  <2>2. a # m.trace
    BY <1>3, <2>1
  <2> QED BY <1>1, <1>2, <1>7, <2>1, <2>2 DEF TabsOf, Status
<1>13. TabsInOrder'
  <2>1. ASSUME NEW a \in Slots, NEW b \in Slots, a # b, tabs'[a].status # "none", tabs'[b].status # "none"
        PROVE  a \in tabs'[b].older \/ b \in tabs'[a].older
    <3>1. Status(s) # "none"
      BY <1>1, <1>3, Constants DEF Records, TabsRecorded
    <3> QED BY <1>2, <1>6, <2>1, <3>1 DEF Records, TabsInOrder, Status
  <2>2. ASSUME NEW r \in Slots, tabs'[r].status = "ready"
        PROVE  r \in FirstOf(tabs[r].trace)
    BY <1>1, <1>2, <2>2 DEF Records, TabsInOrder, Status
  <2>3. \A t \in Traces : FirstOf(t)' = FirstOf(t)
    BY <1>6, <1>7 DEF FirstOf, TabsOf
  <2>4. ASSUME NEW r \in Slots, tabs'[r].status = "ready"
        PROVE  tabs[r].trace \in Traces
    BY <1>1, <1>2, <1>3, <2>4, TabFields DEF Records, TabsRecorded, Status
  <2>9. \A r \in Slots : r \notin tabs'[r].older
    BY <1>6 DEF Records, TabsInOrder
  <2> QED BY <1>6, <2>1, <2>2, <2>3, <2>4, <2>9 DEF TabsInOrder, Status
<1> QED BY <1>8, <1>9, <1>10, <1>11, <1>12, <1>13 DEF Records

LEMMA RecordsFinishCreate ==
  ASSUME TypeOK, TypeOK', Protocol, Records, FinishCreate
  PROVE  Records'
<1>1. PICK c \in creating :
        /\ c.slot # 0
        /\ tabs' = [tabs EXCEPT ![c.slot].initializing = FALSE]
        /\ creating' = creating \ {c}
        /\ worker' = Leased(c, TRUE)
  BY DEF FinishCreate
<1>2. UNCHANGED <<helper, requests, marred, closedOwners>>
  BY DEF FinishCreate
<1>3. c.slot \in Slots /\ c.trace \in Traces
  BY <1>1, TabFacts DEF Creation
<1>4. \A s \in Slots : SameTab(s)
  BY <1>1, <1>3 DEF TypeOK, Tab, SameTab
<1>5. Fewer({})
  <2>1. \A d \in creating : d = Without(d, {})
    BY TabFacts DEF Without, Creation
  <2> QED BY <1>1, <2>1 DEF Fewer
<1>6. \A t \in Traces :
        /\ worker'[t].pid = worker[t].pid
        /\ worker'[t].phase = "starting" => worker[t].phase = "starting"
        /\ worker'[t].phase = "working" =>
              worker[t].phase = "working" \/ (t = c.trace /\ c.pid = worker[t].pid /\ worker[t].phase = "starting")
  BY <1>1 DEF Leased, TypeOK, Worker
<1>7. TabsRecorded' /\ OneTabPerTurn' /\ CreationsOnRecord' /\ TabsFollowTurns' /\ TabsInOrder'
  <2>1. \A d \in creating : worker'[d.trace].phase = "starting" /\ d.pid = helper' =>
            worker[d.trace].phase = "starting" /\ helper' = helper
    BY <1>2, <1>6, TabFacts DEF Creation
  <2>2. \A t \in Traces : worker[t].pid > 0 => worker'[t].pid > 0
    BY <1>6
  <2>3. \A n \in requests', t \in Traces : OwnEnd(n, t) => n \in requests \/ worker[t].phase = "working"
    BY <1>2
  <2> QED BY <1>2, <1>4, <1>5, <2>1, <2>2, <2>3, RecordsCalm
<1>8. LeaseKept'
  <2> SUFFICES ASSUME NEW t \in Traces \ marred, worker'[t].phase = "working"
               PROVE  \/ \E s \in TabsOf(t)' : tabs'[s].pid = helper /\ tabs'[s].status = "running"
                      \/ TabsOf(t)' = {} /\ closedOwners[t] = helper
    BY <1>2 DEF LeaseKept, Status
  <2>1. TabsOf(t)' = TabsOf(t)
    BY <1>4 DEF TabsOf, SameTab
  <2>2. CASE worker[t].phase = "working"
    BY <1>4, <2>1, <2>2 DEF Records, LeaseKept, TabsOf, SameTab, Status
  <2>3. CASE t = c.trace /\ c.pid = worker[t].pid /\ worker[t].phase = "starting"
    <3>1. c.pid = helper
      BY <2>3 DEF Protocol, PidsKnown
    <3>2. Status(c.slot) = "running" /\ tabs[c.slot].trace = t /\ tabs[c.slot].pid = helper
      BY <1>1, <2>3, <3>1 DEF Records, CreationsOnRecord
    <3> QED BY <1>3, <1>4, <2>1, <3>2 DEF TabsOf, SameTab, Status
  <2> QED BY <1>6, <2>2, <2>3
<1> QED BY <1>7, <1>8 DEF Records

LEMMA RecordsMark ==
  ASSUME TypeOK, TypeOK', Protocol, Records, MarkFails
  PROVE  Records'
<1>1. PICK t \in Traces, s \in Slots :
        /\ Drives(t, s) /\ marred' = marred \union {t}
        /\ tabs'[s].status = "error" /\ tabs'[s].trace = tabs[s].trace
        /\ tabs'[s].pid = tabs[s].pid /\ tabs'[s].older = tabs[s].older
        /\ \A r \in Slots : r # s => tabs'[r] = tabs[r]
  BY MarkFacts
<1>2. tabs[s].trace = t /\ Status(s) = "running"
  BY <1>1 DEF Drives, Holds
<1>3. UNCHANGED <<creating, closedOwners, worker, helper, requests>>
  BY DEF MarkFails
<1>4. \A r \in Slots : tabs'[r].trace = tabs[r].trace /\ tabs'[r].pid = tabs[r].pid
                       /\ tabs'[r].older = tabs[r].older
  BY <1>1
<1>5. \A u \in Traces : TabsOf(u)' = TabsOf(u)
  BY <1>4 DEF TabsOf
<1>6. TabsRecorded'
  BY <1>1, <1>2, <1>3, Constants DEF Records, TabsRecorded, Status
<1>7. OneTabPerTurn'
  BY <1>1, <1>4 DEF Records, OneTabPerTurn
<1>8. CreationsOnRecord'
  <2> SUFFICES ASSUME NEW c \in creating, c.slot # 0, worker[c.trace].phase = "starting", c.pid = helper,
                      c.trace \notin marred'
               PROVE  tabs'[c.slot].status = "running" /\ tabs'[c.slot].trace = c.trace
                      /\ tabs'[c.slot].pid = helper
    BY <1>3 DEF Records, CreationsOnRecord, Status
  <2>1. c.slot \in Slots
    BY TabFacts DEF Creation
  <2>2. Status(c.slot) = "running" /\ tabs[c.slot].trace = c.trace /\ tabs[c.slot].pid = helper
    BY <1>1 DEF Records, CreationsOnRecord
  <2>3. c.slot # s
    BY <1>1, <1>2, <2>2
  <2> QED BY <1>1, <2>1, <2>2, <2>3 DEF Status
<1>9. LeaseKept'
  <2> SUFFICES ASSUME NEW u \in Traces \ marred', worker[u].phase = "working"
               PROVE  \/ \E r \in TabsOf(u)' : tabs'[r].pid = helper /\ tabs'[r].status = "running"
                      \/ TabsOf(u)' = {} /\ closedOwners[u] = helper
    BY <1>3 DEF LeaseKept, Status
  <2>1. \A r \in TabsOf(u) : r # s
    BY <1>1, <1>2 DEF TabsOf
  <2> QED BY <1>1, <1>5, <2>1 DEF Records, LeaseKept, TabsOf, Status
<1>10. TabsFollowTurns'
  <2>1. \A r \in Slots : tabs'[r].status = "ready" => Status(r) = "ready"
    BY <1>1 DEF Status
  <2> QED BY <1>3, <1>5, <2>1 DEF Records, TabsFollowTurns, Earlier, OwnEnd, TabsOf, Status
<1>11. TabsInOrder'
  <2>1. ASSUME NEW a \in Slots, NEW b \in Slots, a # b, tabs'[a].status # "none", tabs'[b].status # "none"
        PROVE  a \in tabs'[b].older \/ b \in tabs'[a].older
    BY <1>1, <1>2, <1>4, <2>1 DEF Records, TabsInOrder, Status
  <2>2. ASSUME NEW r \in Slots, tabs'[r].status = "ready"
        PROVE  r \in FirstOf(tabs[r].trace) /\ tabs[r].trace \in Traces
    BY <1>1, <2>2, TabFields DEF Records, TabsInOrder, TabsRecorded, Status
  <2>3. \A u \in Traces : FirstOf(u)' = FirstOf(u)
    BY <1>4, <1>5 DEF FirstOf, TabsOf
  <2>9. \A r \in Slots : r \notin tabs'[r].older
    BY <1>4 DEF Records, TabsInOrder
  <2> QED BY <1>4, <2>1, <2>2, <2>3, <2>9 DEF TabsInOrder, Status
<1> QED BY <1>6, <1>7, <1>8, <1>9, <1>10, <1>11 DEF Records

\* Removed tabs, when workers, helper and requests stay as they are.
LEMMA RecordsRemove ==
  ASSUME TypeOK, TypeOK', Protocol, Records, UNCHANGED <<worker, helper, requests, marred>>,
         NEW S \in SUBSET Slots, \A s \in S : tabs'[s] = NoTab, \A s \in Slots \ S : SameTab(s),
         Fewer(S), NEW abortRunning \in BOOLEAN, closedOwners' = ClosedBy(S, abortRunning),
         abortRunning \/ \A s \in S : Status(s) # "running"
  PROVE  Records'
<1>1. TabsRecorded' /\ OneTabPerTurn' /\ CreationsOnRecord' /\ TabsFollowTurns' /\ TabsInOrder'
  BY RecordsCalm
<1>2. \A t \in Traces \ marred, s \in S :
         worker'[t].phase = "working" /\ tabs[s].trace = t /\ Status(s) = "running"
         /\ tabs[s].pid = helper => closedOwners'[t] = helper
  BY ClosedByFacts
<1>3. \A t \in Traces \ marred :
         worker'[t].phase = "working" /\ TabsOf(t) = {} /\ closedOwners[t] = helper =>
         closedOwners'[t] = helper
  BY ClosedByFacts
<1>4. LeaseKept'
  BY <1>2, <1>3, LeasesCalm
<1> QED BY <1>1, <1>4 DEF Records

\* Nothing happens to the tabs, and no lease is granted.
LEMMA RecordsStay ==
  ASSUME TypeOK, TypeOK', Protocol, Records, UNCHANGED <<marred, closedOwners>>,
         \A s \in Slots : SameTab(s), Fewer({}),
         \A t \in Traces : worker[t].pid > 0 => worker'[t].pid > 0,
         \A t \in Traces : worker'[t].phase = "working" => worker[t].phase = "working" /\ helper' = helper,
         \A c \in creating : worker'[c.trace].phase = "starting" /\ c.pid = helper' =>
            worker[c.trace].phase = "starting" /\ helper' = helper,
         \A m \in requests', t \in Traces : OwnEnd(m, t) => m \in requests \/ worker[t].phase = "working"
  PROVE  Records'
<1>1. TabsRecorded' /\ OneTabPerTurn' /\ CreationsOnRecord' /\ TabsFollowTurns' /\ TabsInOrder'
  BY RecordsCalm
<1>2. LeaseKept'
  BY LeasesCalm
<1> QED BY <1>1, <1>2 DEF Records

LEMMA RecordsFailCreate ==
  ASSUME TypeOK, TypeOK', Protocol, Records, FailCreate
  PROVE  Records'
<1>1. PICK c \in creating :
        /\ tabs' = [s \in Slots |-> IF s = c.slot THEN NoTab ELSE tabs[s]]
        /\ closedOwners' = ClosedBy({c.slot} \ {0}, TRUE)
        /\ creating' = creating \ {c}
        /\ worker' = Leased(c, FALSE)
  BY DEF FailCreate
<1> DEFINE S == {c.slot} \ {0}
<1>2. UNCHANGED <<helper, requests, marred>>
  BY DEF FailCreate
<1>3. S \in SUBSET Slots /\ c.trace \in Traces
  BY <1>1, TabFacts DEF Creation
<1>4. /\ \A s \in S : tabs'[s] = NoTab
      /\ \A s \in Slots \ S : SameTab(s)
  BY <1>1, <1>3, Constants DEF SameTab
<1>5. Fewer(S)
  <2>1. \A d \in creating \ {c} : d.slot \notin S
    BY <1>1 DEF Records, CreationsOnRecord
  <2>2. \A d \in creating : d.slot \notin S => d = Without(d, S)
    BY TabFacts DEF Without, Creation
  <2> QED BY <1>1, <2>1, <2>2 DEF Fewer
<1>6. \A t \in Traces :
        /\ worker'[t].pid = worker[t].pid
        /\ worker'[t].phase \in {"starting", "working"} => worker[t].phase = worker'[t].phase
  BY <1>1 DEF Leased, TypeOK, Worker
<1>7. closedOwners' = ClosedBy(S, TRUE)
  BY <1>1
<1> HIDE DEF S
<1>8. TabsRecorded' /\ OneTabPerTurn' /\ CreationsOnRecord' /\ TabsFollowTurns' /\ TabsInOrder'
  <2>1. \A d \in creating : worker'[d.trace].phase = "starting" /\ d.pid = helper' =>
            worker[d.trace].phase = "starting" /\ helper' = helper
    BY <1>2, <1>6, TabFacts DEF Creation
  <2>2. \A t \in Traces : worker[t].pid > 0 => worker'[t].pid > 0
    BY <1>6
  <2>3. \A n \in requests', t \in Traces : OwnEnd(n, t) => n \in requests \/ worker[t].phase = "working"
    BY <1>2
  <2> QED BY <1>2, <1>3, <1>4, <1>5, <2>1, <2>2, <2>3, RecordsCalm
<1>9. LeaseKept'
  <2>1. \A t \in Traces : worker'[t].phase = "working" => worker[t].phase = "working" /\ helper' = helper
    BY <1>2, <1>6
  <2>2. \A t \in Traces \ marred, s \in S :
           worker'[t].phase = "working" /\ tabs[s].trace = t /\ Status(s) = "running"
           /\ tabs[s].pid = helper => closedOwners'[t] = helper
    BY <1>3, <1>7, ClosedByFacts
  <2>3. \A t \in Traces \ marred :
           worker'[t].phase = "working" /\ TabsOf(t) = {} /\ closedOwners[t] = helper =>
           closedOwners'[t] = helper
    BY <1>3, <1>7, ClosedByFacts
  <2> QED BY <1>2, <1>3, <1>4, <2>1, <2>2, <2>3, LeasesCalm
<1> QED BY <1>8, <1>9 DEF Records

LEMMA RecordsEnd ==
  ASSUME TypeOK, TypeOK', Protocol, Records, HandleEnd
  PROVE  Records'
<1>1. PICK m \in Deliverable("end") :
        /\ requests' = requests \ {m}
        /\ \/ EndClosed(m)
           \/ \E s \in FirstOf(m.trace) : EndMismatch(m, s) \/ Retain(m, s) \/ Discard(m, s)
  BY DEF HandleEnd
<1>2. UNCHANGED <<helper, marred>>
  BY DEF HandleEnd
<1>3. /\ m \in requests /\ m.trace \in Traces
      /\ m.pid = helper => worker[m.trace].phase \in {"ending", "unreleased"}
  BY EndArrives
<1>4. ASSUME NEW acknowledged, NEW byUser, worker' = Ended(m, acknowledged, byUser)
      PROVE  \A t \in Traces :
                /\ worker'[t].pid = worker[t].pid
                /\ worker'[t].phase \in {"starting", "working"} => worker[t].phase = worker'[t].phase
  BY <1>3, <1>4, EndedFacts
<1>5. \A t \in Traces :
        /\ worker'[t].pid = worker[t].pid
        /\ worker'[t].phase \in {"starting", "working"} => worker[t].phase = worker'[t].phase
  <2>1. PICK acknowledged, byUser : worker' = Ended(m, acknowledged, byUser)
    BY <1>1 DEF EndClosed, EndMismatch, Retain, Discard
  <2> QED BY <1>4, <2>1
<1>6. /\ \A d \in creating : worker'[d.trace].phase = "starting" /\ d.pid = helper' =>
            worker[d.trace].phase = "starting" /\ helper' = helper
      /\ \A t \in Traces : worker[t].pid > 0 => worker'[t].pid > 0
      /\ \A t \in Traces : worker'[t].phase = "working" => worker[t].phase = "working" /\ helper' = helper
      /\ \A n \in requests', t \in Traces : OwnEnd(n, t) => n \in requests \/ worker[t].phase = "working"
  <2>1. \A d \in creating : d.trace \in Traces
    BY TabFacts DEF Creation
  <2> QED BY <1>1, <1>2, <1>5, <2>1
<1>7. CASE EndClosed(m)
  <2>1. /\ \A s \in Slots : SameTab(s)
        /\ Fewer({})
        /\ TabsOf(m.trace) = {}
    BY <1>7, NothingFewer DEF EndClosed, SameTab
  <2>2. TabsRecorded' /\ OneTabPerTurn' /\ CreationsOnRecord' /\ TabsFollowTurns' /\ TabsInOrder'
    BY <1>2, <1>6, <2>1, RecordsCalm
  <2>3. \A t \in Traces \ marred :
           worker'[t].phase = "working" /\ closedOwners[t] = helper => closedOwners'[t] = helper
    <3> SUFFICES ASSUME NEW t \in Traces \ marred, worker[t].phase = "working", closedOwners[t] = helper
                 PROVE  closedOwners'[t] = helper
      BY <1>5
    <3>1. closedOwners' = [closedOwners EXCEPT ![m.trace] = IF @ = m.pid THEN 0 ELSE @]
      BY <1>7 DEF EndClosed
    <3>2. CASE t = m.trace
      BY <1>3, <3>1, <3>2 DEF TypeOK
    <3>3. CASE t # m.trace
      BY <3>1, <3>3 DEF TypeOK
    <3> QED BY <3>2, <3>3
  <2>4. LeaseKept'
    BY <1>2, <1>6, <2>1, <2>3, LeasesCalm
  <2> QED BY <2>2, <2>4 DEF Records
<1>8. ASSUME NEW s \in FirstOf(m.trace), EndMismatch(m, s)
      PROVE  Records'
  <2>1. UNCHANGED closedOwners /\ Fewer({}) /\ \A r \in Slots : SameTab(r)
    BY <1>8, NothingFewer DEF EndMismatch, SameTab
  <2> QED BY <1>2, <1>6, <2>1, RecordsStay
<1>9. ASSUME NEW s \in FirstOf(m.trace), Retain(m, s)
      PROVE  Records'
  BY <1>1, <1>2, <1>9, RecordsRetain
<1>10. ASSUME NEW s \in FirstOf(m.trace), Discard(m, s)
       PROVE  Records'
  <2>1. /\ s \in Slots /\ tabs[s].trace = m.trace /\ tabs[s].pid = m.pid
        /\ tabs' = [r \in Slots |-> IF r \in {s} THEN NoTab ELSE tabs[r]]
        /\ closedOwners' = ClosedBy({s}, FALSE)
        /\ Fewer({s})
    BY <1>10 DEF Discard, RemoveTabs, Detach, Fewer, FirstOf, TabsOf
  <2>2. \A r \in {s} : tabs'[r] = NoTab
    BY <2>1
  <2>3. \A r \in Slots \ {s} : SameTab(r)
    BY <2>1 DEF SameTab
  <2>4. TabsRecorded' /\ OneTabPerTurn' /\ CreationsOnRecord' /\ TabsFollowTurns' /\ TabsInOrder'
    BY <1>2, <1>6, <2>1, <2>2, <2>3, RecordsCalm
  <2>5. \A t \in Traces \ marred, r \in {s} :
           worker'[t].phase = "working" /\ tabs[r].trace = t /\ Status(r) = "running"
           /\ tabs[r].pid = helper => closedOwners'[t] = helper
    BY <1>3, <1>6, <2>1
  <2>6. \A t \in Traces : closedOwners'[t] = closedOwners[t]
    BY <2>1 DEF ClosedBy
  <2>7. LeaseKept'
    BY <1>2, <1>6, <2>1, <2>2, <2>3, <2>5, <2>6, LeasesCalm
  <2> QED BY <2>4, <2>7 DEF Records
<1> QED BY <1>1, <1>7, <1>8, <1>9, <1>10

LEMMA RecordsRefuse ==
  ASSUME TypeOK, TypeOK', Protocol, Records, NEW m \in Deliverable("start"), requests' = requests \ {m},
         RefuseStart(m), UNCHANGED <<helper, marred>>
  PROVE  Records'
<1>1. worker' = Leased(m, FALSE) /\ UNCHANGED <<tabs, creating, closedOwners>>
  BY DEF RefuseStart, host
<1>2. \A t \in Traces :
        /\ worker'[t].pid = worker[t].pid
        /\ worker'[t].phase \in {"starting", "working"} => worker[t].phase = worker'[t].phase
  BY <1>1 DEF Leased, TypeOK, Worker
<1>3. Fewer({}) /\ \A s \in Slots : SameTab(s)
  BY <1>1, NothingFewer DEF SameTab
<1>4. \A d \in creating : d.trace \in Traces
  BY TabFacts DEF Creation
<1>5. /\ \A t \in Traces : worker[t].pid > 0 => worker'[t].pid > 0
      /\ \A t \in Traces : worker'[t].phase = "working" => worker[t].phase = "working" /\ helper' = helper
      /\ \A c \in creating : worker'[c.trace].phase = "starting" /\ c.pid = helper' =>
            worker[c.trace].phase = "starting" /\ helper' = helper
      /\ \A n \in requests', t \in Traces : OwnEnd(n, t) => n \in requests \/ worker[t].phase = "working"
  BY <1>2, <1>4
<1> QED BY <1>1, <1>3, <1>5, RecordsStay

LEMMA RecordsWorker ==
  ASSUME TypeOK, TypeOK', Protocol, Records, NEW t \in Traces, Start(t) \/ GiveUp(t) \/ End(t)
  PROVE  Records'
<1>1. UNCHANGED <<tabs, creating, closedOwners, helper, marred>>
  BY DEF Start, GiveUp, End, host
<1>2. Fewer({}) /\ \A s \in Slots : SameTab(s)
  BY <1>1, NothingFewer DEF SameTab
<1>3. /\ \A u \in Traces : u # t => worker'[u] = worker[u]
      /\ worker'[t].phase # "working"
      /\ worker'[t].pid \in {worker[t].pid, helper}
      /\ worker'[t].phase = "starting" => worker[t].phase = "idle"
  <2>1. CASE Start(t)
    BY <2>1 DEF Start, Serialized, TypeOK, Worker
  <2>2. CASE GiveUp(t)
    BY <2>2 DEF GiveUp, TypeOK, Worker
  <2>3. CASE End(t)
    BY <2>3 DEF End, TypeOK, Worker
  <2> QED BY <2>1, <2>2, <2>3
<1>4. \A u \in Traces : worker[u].pid > 0 => worker'[u].pid > 0
  BY <1>3 DEF TypeOK
<1>5. \A u \in Traces : worker'[u].phase = "working" => worker[u].phase = "working" /\ helper' = helper
  BY <1>1, <1>3
<1>6. ASSUME NEW c \in creating, worker'[c.trace].phase = "starting", c.pid = helper'
      PROVE  worker[c.trace].phase = "starting" /\ helper' = helper
  <2>1. c.trace \in Traces /\ c.pid = helper
    BY <1>1, <1>6, TabFacts DEF Creation
  <2>2. worker[c.trace].phase # "idle"
    BY <2>1 DEF Protocol, StartsAwaited, Awaited
  <2> QED BY <1>1, <1>3, <1>6, <2>1, <2>2
<1>7. ASSUME NEW m \in requests', NEW u \in Traces, OwnEnd(m, u)
      PROVE  m \in requests \/ worker[u].phase = "working"
  <2>1. CASE Start(t)
    BY <1>7, <2>1 DEF Start, StartRequest, OwnEnd
  <2>2. CASE GiveUp(t)
    BY <2>2 DEF GiveUp
  <2>3. CASE End(t)
    BY <1>7, <2>3 DEF End, EndRequest, OwnEnd
  <2> QED BY <2>1, <2>2, <2>3
<1> QED BY <1>1, <1>2, <1>4, <1>5, <1>6, <1>7, RecordsStay

LEMMA RecordsCrash ==
  ASSUME TypeOK, TypeOK', Protocol, Records, HelperExits \/ BackendRestarts
  PROVE  Records'
<1>1. UNCHANGED <<tabs, creating, closedOwners, marred>> /\ helper' = helper + 1
  BY DEF HelperExits, BackendRestarts, host
<1>2. Fewer({}) /\ \A s \in Slots : SameTab(s)
  BY <1>1, NothingFewer DEF SameTab
<1>3. \A t \in Traces : worker'[t].pid = worker[t].pid /\ worker'[t].phase # "working"
  <2>1. CASE HelperExits
    BY <2>1 DEF HelperExits, Busy, TypeOK, Worker
  <2>2. CASE BackendRestarts
    BY <2>2 DEF BackendRestarts, NoWorker
  <2> QED BY <2>1, <2>2
<1>4. \A c \in creating : c.pid # helper'
  BY <1>1, TabFacts DEF Protocol, PidsKnown, TypeOK, Creation
<1>5. ASSUME NEW m \in requests', NEW u \in Traces, OwnEnd(m, u)
      PROVE  m \in requests
  <2>1. requests' = requests \/ requests' = requests \union {EndRequest(t, "parent", FALSE) : t \in Busy}
    BY DEF HelperExits, BackendRestarts
  <2>2. \A t : EndRequest(t, "parent", FALSE).by # "worker"
    BY DEF EndRequest
  <2> QED BY <1>5, <2>1, <2>2 DEF OwnEnd
<1> QED BY <1>1, <1>2, <1>3, <1>4, <1>5, RecordsStay

\* Steps that leave workers, requests and records of closed tabs alone.
LEMMA RecordsQuiet ==
  ASSUME TypeOK, TypeOK', Protocol, Records,
         Boot \/ CloseRunningTab \/ CancelAnswered \/ CancelFails \/ Sleep \/ UNCHANGED vars
  PROVE  Records'
<1>1. UNCHANGED <<creating, closedOwners, worker, helper, requests, marred>>
  BY DEF Boot, CloseRunningTab, CancelAnswered, CancelFails, Sleep, vars, host
<1>2. \A s \in Slots : SameTab(s)
  <2>1. CASE Boot
    BY <2>1, BootTypes
  <2>2. CASE Sleep
    <3>1. PICK n \in 1..LongestSleep, resumed \in BOOLEAN :
            tabs' = [s \in Slots |-> IF resumed THEN Refreshed(Aged(tabs[s], n)) ELSE Aged(tabs[s], n)]
      BY <2>2 DEF Sleep
    <3>2. n \in Nat
      BY Constants
    <3> QED BY <3>1, <3>2, AgedType, RefreshedType, TabFacts DEF SameTab
  <2>3. CASE CloseRunningTab \/ CancelAnswered \/ CancelFails \/ UNCHANGED vars
    BY <2>3 DEF CloseRunningTab, CancelAnswered, CancelFails, vars, host, SameTab
  <2> QED BY <2>1, <2>2, <2>3
<1> QED BY <1>1, <1>2, NothingFewer, RecordsStay

LEMMA RecordsClose ==
  ASSUME TypeOK, TypeOK', Protocol, Records, Release \/ CloseIdleTab \/ FinishClose
  PROVE  Records'
<1>1. UNCHANGED <<worker, helper, requests, marred>>
  BY DEF Release, CloseIdleTab, FinishClose
<1>2. ASSUME NEW S \in SUBSET Slots, NEW abortRunning \in BOOLEAN, RemoveTabs(S, abortRunning),
             abortRunning \/ \A s \in S : Status(s) # "running"
      PROVE  Records'
  <2>1. /\ \A s \in S : tabs'[s] = NoTab
        /\ \A s \in Slots \ S : SameTab(s)
        /\ Fewer(S) /\ closedOwners' = ClosedBy(S, abortRunning)
    BY <1>2 DEF RemoveTabs, Detach, Fewer, SameTab
  <2> QED BY <1>1, <1>2, <2>1, RecordsRemove
<1>3. CASE Release
  <2>1. PICK t \in Traces : RemoveTabs(Retained(Conversation[t]), FALSE)
    BY <1>3 DEF Release
  <2>2. /\ Retained(Conversation[t]) \in SUBSET Slots
        /\ \A s \in Retained(Conversation[t]) : Status(s) # "running"
    BY DEF Retained
  <2> QED BY <1>2, <2>1, <2>2
<1>4. CASE CloseIdleTab
  BY <1>2, <1>4 DEF CloseIdleTab
<1>5. CASE FinishClose
  <2>1. PICK t \in Traces :
          LET S == {closing[t].slot} \ {0} IN
          /\ tabs' = [s \in Slots |-> IF s \in S THEN NoTab ELSE tabs[s]]
          /\ closedOwners' = ClosedBy(S, TRUE)
          /\ creating' = {Without(c, S) : c \in creating}
    BY <1>5 DEF FinishClose
  <2> DEFINE S == {closing[t].slot} \ {0}
  <2>2. S \in SUBSET Slots
    BY DEF TypeOK, Closing
  <2>3. /\ \A s \in S : tabs'[s] = NoTab
        /\ \A s \in Slots \ S : SameTab(s)
        /\ Fewer(S) /\ closedOwners' = ClosedBy(S, TRUE)
    BY <2>1, <2>2 DEF Fewer, SameTab
  <2> HIDE DEF S
  <2> QED BY <1>1, <2>2, <2>3, RecordsRemove
<1> QED BY <1>3, <1>4, <1>5

LEMMA RecordsSweep ==
  ASSUME TypeOK, TypeOK', Protocol, Records, Awake \/ WakingSweep
  PROVE  Records'
<1>1. UNCHANGED <<worker, helper, requests, marred>>
  BY DEF Awake, WakingSweep
<1>2. ASSUME NEW aged, aged \in [Slots -> Tab], Reap(aged),
             \A s \in Slots : /\ aged[s].status = tabs[s].status /\ aged[s].trace = tabs[s].trace
                              /\ aged[s].pid = tabs[s].pid /\ aged[s].older = tabs[s].older
      PROVE  Records'
  <2>1. PICK S \in SUBSET Slots :
            /\ \A s \in S : tabs'[s] = NoTab
            /\ \A s \in Slots \ S : SameTab(s)
            /\ closedOwners' = ClosedBy(S, TRUE)
            /\ Detach(S)
    BY <1>2, ReapFacts
  <2>2. Fewer(S)
    BY <2>1 DEF Detach, Fewer
  <2> QED BY <1>1, <2>1, <2>2, RecordsRemove
<1>3. CASE Awake
  BY <1>2, <1>3, AwakeFacts
<1>4. CASE WakingSweep /\ ~SleepSuspected
  <2>1. Reap(tabs) /\ tabs \in [Slots -> Tab]
    BY <1>4 DEF WakingSweep, TypeOK
  <2> QED BY <1>2, <2>1
<1>5. CASE WakingSweep /\ SleepSuspected
  <2>1. /\ tabs' = [s \in Slots |-> Refreshed(tabs[s])]
        /\ UNCHANGED <<creating, closing, closedOwners>>
    BY <1>5 DEF WakingSweep
  <2>2. \A s \in Slots : SameTab(s)
    BY <2>1, RefreshedType, TabFacts DEF SameTab
  <2> QED BY <1>1, <2>1, <2>2, NothingFewer, RecordsStay
<1> QED BY <1>3, <1>4, <1>5

LEMMA RecordsKept ==
  ASSUME TypeOK, TypeOK', Protocol, Records, [Next]_vars
  PROVE  Records'
<1>1. CASE HandleStart
  <2>1. PICK m \in Deliverable("start") :
            requests' = requests \ {m} /\ (RefuseStart(m) \/ ReuseTab(m) \/ CreateTab(m))
    BY <1>1 DEF HandleStart
  <2>2. UNCHANGED <<helper, marred>>
    BY <1>1 DEF HandleStart
  <2> QED BY <2>1, <2>2, RecordsRefuse, RecordsReuse, RecordsCreate
<1> QED BY <1>1, RecordsWorker, RecordsCrash, RecordsQuiet, RecordsClose, RecordsSweep, RecordsEnd,
           RecordsFinishCreate, RecordsFailCreate, RecordsMark DEF Next

LEMMA InitialRecords == Init => Protocol /\ Records
<1> SUFFICES ASSUME Init PROVE Protocol /\ Records
  OBVIOUS
<1>1. /\ \A s \in Slots : Status(s) = "none" /\ tabs[s].trace = None /\ tabs[s].older = {}
      /\ \A t \in Traces : worker[t].phase = "idle" /\ worker[t].pid = 0
      /\ creating = {} /\ requests = {} /\ helper = 1
  BY DEF Init, NoTab, NoWorker, Status
<1>2. \A t \in Traces : TabsOf(t) = {}
  BY <1>1, Constants DEF TabsOf
<1>3. Protocol
  BY <1>1 DEF Protocol, PidsKnown, StartsAwaited, EndsAwaited, OldRequestsGone, TurnsInOrder
<1>4. Records
  BY <1>1, <1>2 DEF Records, TabsRecorded, OneTabPerTurn, CreationsOnRecord, LeaseKept, TabsFollowTurns,
     TabsInOrder
<1> QED BY <1>3, <1>4

(* Tabs, workers and the requests between them keep their types, the       *)
(* protocol of starts and ends and the records of the tabs.                *)
THEOREM TabsInvariant == Spec => []TabsInv
<1>1. Init => TabsInv
  BY InitialTypes, InitialRecords DEF TabsInv
<1>2. TabsInv /\ [Next]_vars => TabsInv'
  BY TypesKept, ProtocolKept, RecordsKept DEF TabsInv
<1> QED BY <1>1, <1>2, PTL DEF Spec

-----------------------------------------------------------------------------
(* What the invariant is for *)

(* A live worker with a lease has its tab, or the launcher remembers that  *)
(* it closed it, so that the worker's end is acknowledged.                 *)
THEOREM LeasesStayOnRecord == Spec => []LeaseOnRecord
<1>1. TabsInv => LeaseOnRecord
  BY DEF TabsInv, Protocol, PidsKnown, Records, LeaseKept, LeaseOnRecord, ProcessRunning
<1> QED BY <1>1, TabsInvariant, PTL

(* A turn names at most one tab while its ownership mark holds, and a      *)
(* conversation at most one retained chat: no start is refused because a   *)
(* conversation owns several tabs.                                         *)
THEOREM TabsStayUnambiguous == Spec => []TabsAreUnambiguous
<1>1. ASSUME TabsInv
      PROVE  TabsAreUnambiguous
  <2>1. ASSUME NEW t \in Traces \ marred
        PROVE  Cardinality(TabsOf(t)) <= 1
    <3>1. TabsOf(t) \in SUBSET Slots
      BY DEF TabsOf
    <3>2. \A x, y \in TabsOf(t) : x = y
      BY <1>1, Constants DEF TabsInv, Records, OneTabPerTurn, TabsOf
    <3> QED BY <3>1, <3>2, AtMostOne
  <2>2. ASSUME NEW t \in Traces
        PROVE  ~Ambiguous(Conversation[t])
    <3> DEFINE R == Retained(Conversation[t])
    <3>1. R \in SUBSET Slots
      BY DEF Retained
    <3>2. ASSUME NEW x \in R, NEW y \in R
          PROVE  x = y
      <4> DEFINE a == tabs[x].trace
                 b == tabs[y].trace
      <4>1. /\ x \in Slots /\ y \in Slots /\ Status(x) = "ready" /\ Status(y) = "ready"
            /\ Conversation[a] = Conversation[t] /\ Conversation[b] = Conversation[t]
        BY DEF Retained
      <4>2. /\ a \in Traces /\ b \in Traces
            /\ x \in FirstOf(a) /\ y \in FirstOf(b)
        BY <1>1, <4>1, TabFields DEF TabsInv, Records, TabsRecorded, TabsInOrder
      <4>3. CASE a = b
        <5>1. x \notin tabs[y].older /\ y \notin tabs[x].older
          BY <4>2, <4>3 DEF FirstOf
        <5> QED BY <1>1, <4>1, <5>1 DEF TabsInv, Records, TabsInOrder
      <4>4. CASE a # b
        <5>1. Earlier(a, b) \/ Earlier(b, a)
          BY <4>1, <4>2, <4>4, ThreadAssumption DEF Earlier
        <5>2. x \in TabsOf(a) /\ y \in TabsOf(b)
          BY <4>2 DEF FirstOf
        <5> QED BY <1>1, <4>1, <4>2, <5>1, <5>2 DEF TabsInv, Records, TabsFollowTurns
      <4> QED BY <4>3, <4>4
    <3>3. ~(Cardinality(R) > 1)
      <4>1. Cardinality(R) <= 1 /\ IsFiniteSet(R)
        BY <3>1, <3>2, AtMostOne, Constants, FS_Subset
      <4>2. Cardinality(R) \in Nat
        BY <4>1, FS_CardinalityType
      <4> QED BY <4>1, <4>2
    <3> QED BY <3>3 DEF Ambiguous
  <2> QED BY <2>1, <2>2 DEF TabsAreUnambiguous
<1> QED BY <1>1, TabsInvariant, PTL

LEMMA LiveTabsBeat ==
  ASSUME TabsInv, NEW t \in Traces \ marred, NEW s \in Slots, Holds(t, s)
  PROVE  Beats(s)
<1>1. tabs[s].trace = t /\ s \in TabsOf(t)
  BY DEF Holds, TabsOf
<1>2. \A r \in TabsOf(t) : r = s
  BY <1>1, Constants DEF TabsInv, Records, OneTabPerTurn, TabsOf
<1>3. s \notin tabs[s].older
  BY <1>1 DEF TabsInv, Records, TabsInOrder
<1> QED BY <1>1, <1>2, <1>3 DEF Beats, FirstOf

\* A heartbeat within a unit makes up for the unit.
LEMMA HeartbeatRefreshes ==
  ASSUME NEW tab \in Tab, NEW s \in Slots, Beats(s), tab.status = "running", tab.booted
  PROVE  /\ Heartbeat(s, Aged(tab, 1)) = Refreshed(tab)
         /\ ~Expired(Heartbeat(s, Aged(tab, 1)))
<1> DEFINE a == Capped(tab.age + 1, AgeLimit)
<1>1. Aged(tab, 1) = [tab EXCEPT !.age = a, !.bootAge = 0]
  BY DEF Aged, Tab
<1> HIDE DEF a
<1>2. Heartbeat(s, Aged(tab, 1)) = [tab EXCEPT !.age = 0, !.bootAge = 0]
  BY <1>1 DEF Heartbeat, Tab
<1>3. Refreshed(tab) = [tab EXCEPT !.age = 0, !.bootAge = 0]
  BY DEF Refreshed
<1>4. Refreshed(tab).status = "running" /\ Refreshed(tab).booted /\ Refreshed(tab).age = 0
  BY <1>3 DEF Tab
<1>5. ~Expired(Refreshed(tab))
  BY <1>4, Constants DEF Expired
<1> QED BY <1>2, <1>3, <1>5

(* Sleep of the computer never costs a live turn its browser: whatever a   *)
(* sweep finds, the tab of a working turn whose page was loaded stays.     *)
THEOREM SweepsSpareLiveTurns == Spec => SuspensionSparesLiveTurns
<1> DEFINE Spared == \A t \in Traces \ marred, s \in Slots :
                        (Awake \/ WakingSweep) /\ Holds(t, s) /\ tabs[s].booted =>
                            tabs'[s] \in {tabs[s], Refreshed(tabs[s])}
<1>1. ASSUME TabsInv, [Next]_vars
      PROVE  [Spared]_vars
  <2> SUFFICES ASSUME NEW t \in Traces \ marred, NEW s \in Slots, Awake \/ WakingSweep, Holds(t, s),
                      tabs[s].booted
               PROVE  tabs'[s] = Refreshed(tabs[s])
    OBVIOUS
  <2>1. tabs[s] \in Tab /\ tabs[s].status = "running"
    BY <1>1, TabFacts DEF TabsInv, Holds, Status
  <2>2. CASE Awake
    <3> DEFINE aged == [r \in Slots |-> Heartbeat(r, Aged(tabs[r], 1))]
    <3>1. ~Expired(aged[s]) /\ aged[s] = Refreshed(tabs[s])
      BY <1>1, <2>1, LiveTabsBeat, HeartbeatRefreshes
    <3>2. Reap(aged)
      BY <2>2 DEF Awake
    <3> HIDE DEF aged
    <3> QED BY <3>1, <3>2 DEF Reap
  <2>3. CASE WakingSweep
    <3>1. SleepSuspected
      BY <1>1, <2>3 DEF WakingSweep, SleepSuspected, SuspensionGap, TabsInv, TypeOK
    <3> QED BY <2>3, <3>1 DEF WakingSweep
  <2> QED BY <2>2, <2>3
<1>2. TabsInv /\ [Next]_vars => [Spared]_vars
  BY <1>1
<1> QED BY <1>2, TabsInvariant, PTL DEF Spec, SuspensionSparesLiveTurns
=============================================================================
