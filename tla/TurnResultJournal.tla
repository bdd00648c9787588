--------------------------- MODULE TurnResultJournal ---------------------------
(***************************************************************************)
(* The durable turn-result journal                                         *)
(* (src/src/adapters/chatgpt-web/turn-result-journal.ts) and the way a     *)
(* browser turn uses it.  A prompt must not be sent to ChatGPT twice: an   *)
(* intent is on disk before Send is clicked, and only a known answer or an *)
(* accepted compaction handoff takes it away again.  The backend can crash *)
(* between any two steps; a write of the snapshot replaces the file as a   *)
(* whole or fails (atomicWriteFile).                                       *)
(***************************************************************************)
EXTENDS Integers, FiniteSets

CONSTANTS
    Key,            \* execution keys: one per instruction of a Codex turn
    Epoch,          \* compaction epochs of a task's history
    Answer,         \* final answers
    MaxEntries,     \* maxEntries
    None

ASSUME JournalConstants ==
    /\ MaxEntries \in Nat \ {0}
    /\ None \notin Epoch \cup Answer
    /\ IsFiniteSet(Key)

VARIABLES
    up,                             \* the backend runs
    records, intents, handoffs,     \* the journal in memory
    disk,                           \* its snapshot file
    session,                        \* per key: the browser turn in memory
    emitted,                        \* per key: the answer Codex was given last
    outstanding                     \* history: sends with no known outcome

journalVars == <<records, intents, handoffs>>
vars == <<up, journalVars, disk, session, emitted, outstanding>>

NoRecord == [answer |-> None, age |-> "fresh"]
Record   == [answer: Answer \cup {None}, age: {"fresh", "expired"}]
Place    == {"none", "prepared", "authorized", "sent", "final", "replayed"}
Session  == [at: Place, epoch: Epoch \cup {None}, answer: Answer \cup {None}]
NoSession == [at |-> "none", epoch |-> None, answer |-> None]
Final(v)  == [at |-> "final", epoch |-> None, answer |-> v]

\* fromResult
Replay(v) == [at |-> "replayed", epoch |-> None, answer |-> v]

Snapshot(r, i, h) == [records |-> r, intents |-> i, handoffs |-> h]
Blank == [k \in Key |-> None]

TypeOK ==
    /\ up \in BOOLEAN
    /\ records \in [Key -> Record]
    /\ intents \in [Key -> Epoch \cup {None}] /\ handoffs \in [Key -> Epoch \cup {None}]
    /\ disk \in [records: [Key -> Record], intents: [Key -> Epoch \cup {None}],
                 handoffs: [Key -> Epoch \cup {None}]]
    /\ session \in [Key -> Session]
    /\ emitted \in [Key -> Answer \cup {None}]
    /\ outstanding \in [Key -> SUBSET Epoch]

Init ==
    /\ up = TRUE
    /\ records = [k \in Key |-> NoRecord] /\ intents = Blank /\ handoffs = Blank
    /\ disk = Snapshot(records, intents, handoffs)
    /\ session = [k \in Key |-> NoSession]
    /\ emitted = Blank
    /\ outstanding = [k \in Key |-> {}]

-----------------------------------------------------------------------------
(* Helpers *)

Recorded(r) == {k \in Key : r[k].answer # None}
Present(f)  == {k \in Key : f[k] # None}

\* pruneRecords
Live(r) == [k \in Key |-> IF r[k].age = "expired" THEN NoRecord ELSE r[k]]

\* Mutant: a later result replaces the recorded one.
WithRecordReplacing(r, k, v) == {[r EXCEPT ![k] = [answer |-> v, age |-> "fresh"]]}

\* The records after record(k, v) on pruned records: an existing result is only refreshed;
\* a new one may evict an old one (which of them is the oldest is left open).
WithRecord(r, k, v) ==
    IF r[k].answer # None THEN {[r EXCEPT ![k].age = "fresh"]}
    ELSE LET room == IF Cardinality(Recorded(r)) < MaxEntries THEN {r}
                     ELSE {[r EXCEPT ![old] = NoRecord] : old \in Recorded(r)}
         IN  {[kept EXCEPT ![k] = [answer |-> v, age |-> "fresh"]] : kept \in room}

\* Mutant: the snapshot is not written.
CommitMemory(r, i, h) ==
    /\ UNCHANGED disk
    /\ records' = r /\ intents' = i /\ handoffs' = h

\* commit: the snapshot first, then the maps.  A failed write throws and leaves both.
Commit(r, i, h) ==
    /\ disk' = Snapshot(r, i, h)
    /\ records' = r /\ intents' = i /\ handoffs' = h

\* Mutant: the record is added and the send it settles is left unresolved.
CommitRecordOnly(r, k, v) ==
    \E after \in WithRecord(r, k, v) : Commit(after, intents, handoffs) /\ UNCHANGED outstanding

\* record(k, v), committed: a result settles every earlier send of its key.
CommitRecord(r, k, v) ==
    \E after \in WithRecord(r, k, v) :
        IF r[k].answer # None
        THEN Commit(after, intents, handoffs) /\ UNCHANGED outstanding
        ELSE /\ Commit(after, [intents EXCEPT ![k] = None], [handoffs EXCEPT ![k] = None])
             /\ outstanding' = [outstanding EXCEPT ![k] = {}]

\* get(k) prunes the records in memory and makes the one it returns young again.
Fetched(k) == IF Live(records)[k].answer = None THEN Live(records)
              ELSE [Live(records) EXCEPT ![k].age = "fresh"]

\* The checks of load: the maps share no key and none is too large.
Valid(snapshot) ==
    LET r == Recorded(snapshot.records)  i == Present(snapshot.intents)
        h == Present(snapshot.handoffs)
    IN  /\ Cardinality(r) <= MaxEntries
        /\ Recorded(Live(snapshot.records)) \cap (i \cup h) = {} /\ i \cap h = {}
        /\ Cardinality(i) + Cardinality(h) <= MaxEntries

\* hasUnresolvedSend for a key without a record: any intent blocks every epoch, a handoff
\* only the epoch it settled.
HasUnresolvedSend(k, e) == intents[k] # None \/ handoffs[k] = e

-----------------------------------------------------------------------------
(* A browser turn *)

\* getOrCreate: no session, so a recorded result is replayed, an unresolved send is refused,
\* and else a browser turn starts.  The epoch is whatever the request's history says.
Request(k, e) ==
    /\ up
    /\ session[k] = NoSession
    /\ records' = Fetched(k)
    /\ LET replay == Fetched(k)[k].answer IN
       session' = [session EXCEPT ![k] =
           IF replay # None THEN Replay(replay)
           ELSE IF HasUnresolvedSend(k, e) THEN NoSession
           ELSE [at |-> "prepared", epoch |-> e, answer |-> None]]
    /\ UNCHANGED <<up, intents, handoffs, disk, emitted, outstanding>>

\* beginSend returns "recorded"
SendRecorded(k, e) ==
    /\ records[k].answer = None
    /\ intents[k] = None
    /\ handoffs[k] # e
    /\ \/ handoffs[k] # None
       \/ Cardinality(Present(intents)) + Cardinality(Present(handoffs)) < MaxEntries

\* onSendActivated, before the click: the intent replaces the handoff that allowed it.
AuthorizeSend(k) ==
    LET e == session[k].epoch IN
    /\ up /\ session[k].at = "prepared"
    /\ SendRecorded(k, e)
    /\ Commit(records, [intents EXCEPT ![k] = e], [handoffs EXCEPT ![k] = None])
    /\ session' = [session EXCEPT ![k].at = "authorized"]
    /\ UNCHANGED <<up, emitted, outstanding>>

\* A duplicate, a recorded result, a full journal or a failed write ends the turn.
SendRefused(k) ==
    /\ up /\ session[k].at = "prepared"
    /\ session' = [session EXCEPT ![k] = NoSession]
    /\ UNCHANGED <<up, journalVars, disk, emitted, outstanding>>

ClickSend(k) ==
    LET e == session[k].epoch IN
    /\ up /\ session[k].at = "authorized"
    /\ session' = [session EXCEPT ![k].at = "sent"]
    /\ outstanding' = [outstanding EXCEPT ![k] = @ \cup {e}]
    /\ UNCHANGED <<up, journalVars, disk, emitted>>

BrowserAnswers(k, v) ==
    /\ up /\ session[k].at = "sent"
    /\ session' = [session EXCEPT ![k] = Final(v)]
    /\ UNCHANGED <<up, journalVars, disk, emitted, outstanding>>

\* The turn fails, is cancelled, or its session ages out of the registry.
Retire(k) ==
    /\ up /\ session[k] # NoSession
    /\ session' = [session EXCEPT ![k] = NoSession]
    /\ UNCHANGED <<up, journalVars, disk, emitted, outstanding>>

\* The round that emits the answer.  recordCompletedWebTurn comes first, unless the session
\* was restored from the journal.
Publish(k) ==
    LET v == session[k].answer  known == Fetched(k)[k].answer IN
    /\ up
    /\ \/ /\ session[k].at = "replayed"
          /\ emitted' = [emitted EXCEPT ![k] = v]
          /\ UNCHANGED <<journalVars, disk, outstanding>>
       \/ /\ session[k].at = "final" /\ known = v
          /\ records' = Fetched(k)
          /\ emitted' = [emitted EXCEPT ![k] = v]
          /\ UNCHANGED <<intents, handoffs, disk, outstanding>>
       \/ /\ session[k].at = "final" /\ known # v
          /\ CommitRecord(Fetched(k), k, v)
          /\ emitted' = IF known = None THEN [emitted EXCEPT ![k] = v] ELSE emitted
       \/ /\ session[k].at = "final" /\ known # v
          /\ records' = Fetched(k)    \* the write fails: the session keeps the answer
          /\ UNCHANGED <<intents, handoffs, disk, outstanding, emitted>>
    /\ UNCHANGED <<up, session>>

\* retireConversationPreservingFinalResponse: the final answer of `source` is recorded under
\* the key of the next round, unless a session there is busy or knows another answer, and the
\* source's conversation closes.
PreserveFinal(source, k) ==
    LET v == session[source].answer IN
    /\ up /\ session[source].at = "final"
    /\ \/ /\ k = source \/ session[k] \in {NoSession, Final(v), Replay(v)}
          /\ CommitRecord(Live(records), k, v)
          /\ session' = [j \in Key |->
                CASE j = k /\ session[k] = NoSession -> Replay(records'[k].answer)
                  [] j = source /\ k # source -> NoSession
                  [] OTHER -> session[j]]
       \/ /\ k # source /\ session[k] \notin {NoSession, Final(v), Replay(v)}
          /\ session' = [session EXCEPT ![source] = NoSession]
          /\ UNCHANGED <<journalVars, disk, outstanding>>
    /\ UNCHANGED <<up, emitted>>

\* authorizeAcceptedChatGptCompactionSuccessor: the checkpoint was accepted, so the send of
\* the old epoch is settled, and the conversation retires, whether the write worked or not.
AcceptHandoff(k) ==
    LET e == session[k].epoch IN
    /\ up /\ session[k].at = "sent"
    /\ session' = [session EXCEPT ![k] = NoSession]
    /\ \/ /\ intents[k] = e /\ records[k].answer = None
          /\ Commit(records, [intents EXCEPT ![k] = None], [handoffs EXCEPT ![k] = e])
          /\ outstanding' = [outstanding EXCEPT ![k] = @ \ {e}]
       \/ UNCHANGED <<journalVars, disk, outstanding>>
    /\ UNCHANGED <<up, emitted>>

-----------------------------------------------------------------------------
(* Time and crashes *)

\* The ttl of a record runs out, on disk never later than in memory.
Age(k) ==
    \/ /\ disk.records[k].answer # None /\ disk.records[k].age = "fresh"
       /\ disk' = [disk EXCEPT !.records[k].age = "expired"]
       /\ UNCHANGED records
    \/ /\ records[k].answer # None /\ records[k].age = "fresh"
       /\ records' = [records EXCEPT ![k].age = "expired"]
       /\ disk' = [disk EXCEPT !.records[k].age = "expired"]

AgeStep(k) == Age(k) /\ UNCHANGED <<up, intents, handoffs, session, emitted, outstanding>>

Crash ==
    /\ up
    /\ up' = FALSE
    /\ records' = [k \in Key |-> NoRecord] /\ intents' = Blank /\ handoffs' = Blank
    /\ session' = [k \in Key |-> NoSession]
    /\ UNCHANGED <<disk, emitted, outstanding>>

\* Mutant: only the results are loaded.
RestartForgetful ==
    /\ ~up /\ Valid(disk)
    /\ up' = TRUE
    /\ records' = Live(disk.records) /\ intents' = Blank /\ handoffs' = Blank
    /\ UNCHANGED <<disk, session, emitted, outstanding>>

\* load; on an invalid snapshot the backend does not start.
Restart ==
    /\ ~up /\ Valid(disk)
    /\ up' = TRUE
    /\ records' = Live(disk.records) /\ intents' = disk.intents /\ handoffs' = disk.handoffs
    /\ UNCHANGED <<disk, session, emitted, outstanding>>

Next ==
    \/ \E k \in Key : \/ AuthorizeSend(k) \/ SendRefused(k) \/ ClickSend(k) \/ Publish(k)
                      \/ Retire(k) \/ AcceptHandoff(k) \/ AgeStep(k)
                      \/ \E e \in Epoch : Request(k, e)
                      \/ \E v \in Answer : BrowserAnswers(k, v)
                      \/ \E source \in Key : PreserveFinal(source, k)
    \/ Crash \/ Restart

Spec == Init /\ [][Next]_vars

-----------------------------------------------------------------------------
(* Properties *)

\* After every history of sends, answers, handoffs, evictions, expiries and failed writes,
\* the snapshot on disk passes the checks of load: a crash never leaves a backend that
\* cannot start.
SnapshotLoads == Valid(disk)

\* A send whose outcome nobody knows is on disk as an intent: a restart, however late,
\* refuses to send that prompt again.
UnknownSendIsDurable ==
    \A k \in Key : outstanding[k] # {} => outstanding[k] = {disk.intents[k]}

\* What guards the next send in memory agrees with the disk as long as the backend runs.
\* (Records may be younger in memory, and pruned there first.)
MemoryMatchesDisk ==
    up => /\ intents = disk.intents /\ handoffs = disk.handoffs
          /\ \A k \in Key : records[k].answer # None => records[k].answer = disk.records[k].answer

\* Send is clicked only when the outcome of every earlier send of the same execution is known.
NoBlindResend ==
    [][\A k \in Key : outstanding'[k] \ outstanding[k] # {} => outstanding[k] = {}]_vars

\* Codex is given the answer of a browser turn only when it is on disk (what a replay emits was
\* on disk when its session was made), and a recorded answer is never replaced by a different
\* one, whoever records it (the round that publishes it or the retirement that preserves it),
\* unless it expired: a retry hears what the first attempt heard.
AnswersDurableAndStable ==
    [][\A k \in Key :
        LET old == disk.records[k]  new == disk'.records[k] IN
        /\ emitted'[k] # emitted[k] /\ session[k].at = "final" => new.answer = emitted'[k]
        /\ old.answer # None /\ new.answer \notin {None, old.answer} => old.age = "expired"]_vars
=============================================================================
