------------------------ MODULE TurnResultJournalProofs ------------------------
(***************************************************************************)
(* Theorems about TurnResultJournal, for every set of execution keys,      *)
(* epochs and answers and every size of the journal.                       *)
(***************************************************************************)
EXTENDS TurnResultJournal, FiniteSetTheorems, TLAPS

-----------------------------------------------------------------------------
(* What the operators on records return *)

\* pruneRecords drops exactly the expired records.
LEMMA LiveFacts ==
  ASSUME NEW r \in [Key -> Record]
  PROVE  /\ Live(r) \in [Key -> Record]
         /\ \A j \in Key : Live(r)[j] = IF r[j].age = "expired" THEN NoRecord ELSE r[j]
         /\ \A j \in Key : Live(r)[j].age = "fresh"
BY DEF Live, NoRecord, Record

\* get changes at most the age of the record it returns.
LEMMA FetchedFacts ==
  ASSUME records \in [Key -> Record], NEW k \in Key
  PROVE  /\ Fetched(k) \in [Key -> Record]
         /\ \A j \in Key : Fetched(k)[j] = Live(records)[j]
<1>1. /\ Live(records) \in [Key -> Record]
      /\ \A j \in Key : Live(records)[j].age = "fresh"
  BY LiveFacts
<1>2. CASE Live(records)[k].answer = None
  BY <1>1, <1>2 DEF Fetched
<1>3. CASE Live(records)[k].answer # None
  <2>1. Fetched(k) = [Live(records) EXCEPT ![k].age = "fresh"]
    BY <1>3 DEF Fetched
  <2>2. [Live(records)[k] EXCEPT !.age = "fresh"] = Live(records)[k]
    BY <1>1 DEF Record
  <2> QED BY <1>1, <2>1, <2>2
<1> QED BY <1>2, <1>3

\* record keeps or refreshes a result it knows; a new one may evict another.
LEMMA WithRecordFacts ==
  ASSUME NEW r \in [Key -> Record], \A j \in Key : r[j].age = "fresh",
         NEW k \in Key, NEW v \in Answer, NEW after \in WithRecord(r, k, v)
  PROVE  /\ after \in [Key -> Record]
         /\ r[k].answer # None => after = r
         /\ r[k].answer = None => /\ after[k] = [answer |-> v, age |-> "fresh"]
                                  /\ \A j \in Key \ {k} : after[j] \in {r[j], NoRecord}
         /\ after[k].answer \in Answer
<1>1. NoRecord \in Record /\ [answer |-> v, age |-> "fresh"] \in Record
  BY DEF NoRecord, Record
<1>2. CASE r[k].answer # None
  <2>1. after = [r EXCEPT ![k].age = "fresh"]
    BY <1>2 DEF WithRecord
  <2>2. [r[k] EXCEPT !.age = "fresh"] = r[k] /\ r[k].answer \in Answer
    BY <1>2 DEF Record
  <2> QED BY <1>2, <2>1, <2>2
<1>3. CASE r[k].answer = None
  <2>1. PICK kept : /\ kept = r \/ \E old \in Recorded(r) : kept = [r EXCEPT ![old] = NoRecord]
                    /\ after = [kept EXCEPT ![k] = [answer |-> v, age |-> "fresh"]]
    BY <1>3, Zenon DEF WithRecord
  <2>2. kept \in [Key -> Record] /\ \A j \in Key : kept[j] \in {r[j], NoRecord}
    BY <1>1, <2>1 DEF Recorded
  <2> QED BY <1>1, <1>3, <2>1, <2>2
<1> QED BY <1>2, <1>3

-----------------------------------------------------------------------------
(* Type correctness *)

\* What a session knows, by where its turn is: the epoch it sends, or its answer.
SessionsKnow ==
    \A k \in Key :
        /\ session[k].at \in {"prepared", "authorized", "sent"} => session[k].epoch \in Epoch
        /\ session[k].at \in {"final", "replayed"} => session[k].answer \in Answer

TypeInv == TypeOK /\ SessionsKnow

\* The sessions a step may install, each of its type and knowing what it should.
Knowing == {x \in Session : /\ x.at \in {"prepared", "authorized", "sent"} => x.epoch \in Epoch
                            /\ x.at \in {"final", "replayed"} => x.answer \in Answer}

\* Both halves of the type of the sessions in one membership.
LEMMA SessionsAreKnowing ==
  (session \in [Key -> Session] /\ SessionsKnow) <=> session \in [Key -> Knowing]
<1>1. ASSUME session \in [Key -> Session], SessionsKnow PROVE session \in [Key -> Knowing]
  BY <1>1 DEF SessionsKnow, Knowing
<1>2. ASSUME session \in [Key -> Knowing] PROVE session \in [Key -> Session] /\ SessionsKnow
  <2>1. \A k \in Key : session[k] \in Knowing BY <1>2
  <2> QED BY <1>2, <2>1 DEF SessionsKnow, Knowing
<1> QED BY <1>1, <1>2

\* The sessions that the actions build know what they should.
LEMMA KnownSessions ==
  /\ NoSession \in Knowing
  /\ \A v \in Answer : Final(v) \in Knowing /\ Replay(v) \in Knowing
  /\ \A e \in Epoch : [at |-> "prepared", epoch |-> e, answer |-> None] \in Knowing
BY DEF Knowing, Session, Place, NoSession, Final, Replay

\* A committed record keeps the types.
LEMMA CommitRecordTypes ==
  ASSUME TypeOK, NEW r \in [Key -> Record], \A j \in Key : r[j].age = "fresh",
         NEW k \in Key, NEW v \in Answer, CommitRecord(r, k, v)
  PROVE  /\ records' \in [Key -> Record] /\ records'[k].answer \in Answer
         /\ intents' \in [Key -> Epoch \cup {None}] /\ handoffs' \in [Key -> Epoch \cup {None}]
         /\ disk' = Snapshot(records', intents', handoffs')
         /\ outstanding' \in [Key -> SUBSET Epoch]
<1>1. PICK after \in WithRecord(r, k, v) :
        IF r[k].answer # None
        THEN Commit(after, intents, handoffs) /\ UNCHANGED outstanding
        ELSE /\ Commit(after, [intents EXCEPT ![k] = None], [handoffs EXCEPT ![k] = None])
             /\ outstanding' = [outstanding EXCEPT ![k] = {}]
  BY Zenon DEF CommitRecord
<1>2. after \in [Key -> Record] /\ after[k].answer \in Answer
  BY WithRecordFacts
<1>3. CASE r[k].answer # None
  BY <1>1, <1>2, <1>3 DEF Commit, TypeOK
<1>4. CASE r[k].answer = None
  BY <1>1, <1>2, <1>4 DEF Commit, TypeOK
<1> QED BY <1>3, <1>4

\* Every step keeps the types and what the sessions know.
LEMMA TypeStep ==
  ASSUME TypeInv, [Next]_vars
  PROVE  TypeInv'
<1> DEFINE EpochMap == [Key -> Epoch \cup {None}]
           DiskType == [records: [Key -> Record], intents: EpochMap, handoffs: EpochMap]
           JournalTyped == /\ records' \in [Key -> Record]
                           /\ intents' \in EpochMap /\ handoffs' \in EpochMap
                           /\ disk' \in DiskType
                           /\ outstanding' \in [Key -> SUBSET Epoch]
<1>0. TypeOK /\ session \in [Key -> Knowing]
  BY SessionsAreKnowing DEF TypeInv, TypeOK
<1>s. NoRecord \in Record /\ \A r \in [Key -> Record], i \in EpochMap, h \in EpochMap :
        Snapshot(r, i, h) \in DiskType
  BY DEF NoRecord, Record, Snapshot
<1>live. /\ Live(records) \in [Key -> Record]
         /\ \A j \in Key : Live(records)[j].age = "fresh"
         /\ Live(disk.records) \in [Key -> Record]
  <2>1. disk.records \in [Key -> Record] BY <1>0 DEF TypeOK
  <2> QED BY <1>0, <2>1, LiveFacts DEF TypeOK
<1>fetched. ASSUME NEW k \in Key
            PROVE  /\ Fetched(k) \in [Key -> Record]
                   /\ \A j \in Key : Fetched(k)[j].age = "fresh"
  BY <1>0, <1>live, FetchedFacts DEF TypeOK
<1> SUFFICES up' \in BOOLEAN /\ JournalTyped /\ session' \in [Key -> Knowing]
             /\ emitted' \in [Key -> Answer \cup {None}]
  <2>1. ASSUME session' \in [Key -> Knowing]
        PROVE  session' \in [Key -> Session] /\ SessionsKnow'
    <3>1. \A k \in Key : session'[k] \in Knowing BY <2>1
    <3> QED BY <2>1, <3>1 DEF SessionsKnow, Knowing
  <2> QED BY <2>1 DEF TypeInv, TypeOK
<1>1. ASSUME NEW k \in Key, AuthorizeSend(k)
      PROVE  up' \in BOOLEAN /\ JournalTyped /\ session' \in [Key -> Knowing]
             /\ emitted' \in [Key -> Answer \cup {None}]
  <2>1. session[k] \in Knowing /\ session[k].at = "prepared" /\ session[k].epoch \in Epoch
    BY <1>0, <1>1 DEF AuthorizeSend, Knowing
  <2>2. JournalTyped
    BY <1>0, <1>1, <1>s, <2>1 DEF AuthorizeSend, Commit, TypeOK
  <2>3. [session[k] EXCEPT !.at = "authorized"] \in Knowing
    BY <2>1 DEF Knowing, Session, Place
  <2> QED BY <1>0, <1>1, <2>2, <2>3 DEF AuthorizeSend, TypeOK
<1>2. ASSUME NEW k \in Key, ClickSend(k)
      PROVE  up' \in BOOLEAN /\ JournalTyped /\ session' \in [Key -> Knowing]
             /\ emitted' \in [Key -> Answer \cup {None}]
  <2>1. session[k] \in Knowing /\ session[k].at = "authorized" /\ session[k].epoch \in Epoch
    BY <1>0, <1>2 DEF ClickSend, Knowing
  <2>2. JournalTyped
    BY <1>0, <1>2, <2>1 DEF ClickSend, TypeOK, journalVars
  <2>3. [session[k] EXCEPT !.at = "sent"] \in Knowing
    BY <2>1 DEF Knowing, Session, Place
  <2> QED BY <1>0, <1>2, <2>2, <2>3 DEF ClickSend, TypeOK
<1>3. ASSUME NEW k \in Key, SendRefused(k) \/ Retire(k)
      PROVE  up' \in BOOLEAN /\ JournalTyped /\ session' \in [Key -> Knowing]
             /\ emitted' \in [Key -> Answer \cup {None}]
  BY <1>0, <1>3, KnownSessions DEF SendRefused, Retire, TypeOK, journalVars
<1>4. ASSUME NEW k \in Key, AcceptHandoff(k)
      PROVE  up' \in BOOLEAN /\ JournalTyped /\ session' \in [Key -> Knowing]
             /\ emitted' \in [Key -> Answer \cup {None}]
  <2>1. session[k] \in Knowing /\ session[k].at = "sent" /\ session[k].epoch \in Epoch
    BY <1>0, <1>4 DEF AcceptHandoff, Knowing
  <2>2. JournalTyped
    <3>1. CASE UNCHANGED <<journalVars, disk, outstanding>>
      BY <1>0, <3>1 DEF TypeOK, journalVars
    <3>2. CASE /\ Commit(records, [intents EXCEPT ![k] = None],
                         [handoffs EXCEPT ![k] = session[k].epoch])
               /\ outstanding' = [outstanding EXCEPT ![k] = @ \ {session[k].epoch}]
      BY <1>0, <1>s, <2>1, <3>2 DEF Commit, TypeOK
    <3> QED BY <1>4, <3>1, <3>2 DEF AcceptHandoff
  <2> QED BY <1>0, <1>4, <2>2, KnownSessions DEF AcceptHandoff, TypeOK
<1>5. ASSUME NEW k \in Key, Publish(k)
      PROVE  up' \in BOOLEAN /\ JournalTyped /\ session' \in [Key -> Knowing]
             /\ emitted' \in [Key -> Answer \cup {None}]
  <2> DEFINE v == session[k].answer
  <2>1. session[k] \in Knowing /\ v \in Answer
    BY <1>0, <1>5 DEF Publish, Knowing
  <2>2. CASE CommitRecord(Fetched(k), k, v)
    <3>0. /\ Fetched(k) \in [Key -> Record]
          /\ \A j \in Key : Fetched(k)[j].age = "fresh"
      BY <1>fetched
    <3>1. JournalTyped
      BY <1>0, <1>s, <2>1, <2>2, <3>0, CommitRecordTypes
    <3> QED BY <1>0, <1>5, <2>1, <3>1 DEF Publish, TypeOK
  <2>3. CASE ~CommitRecord(Fetched(k), k, v)
    BY <1>0, <1>5, <1>fetched, <2>1, <2>3 DEF Publish, TypeOK, journalVars
  <2> QED BY <2>2, <2>3
<1>6. ASSUME NEW k \in Key, NEW source \in Key, PreserveFinal(source, k)
      PROVE  up' \in BOOLEAN /\ JournalTyped /\ session' \in [Key -> Knowing]
             /\ emitted' \in [Key -> Answer \cup {None}]
  <2> DEFINE v == session[source].answer
  <2>1. session[source] \in Knowing /\ v \in Answer
    BY <1>0, <1>6 DEF PreserveFinal, Knowing
  <2>2. CASE CommitRecord(Live(records), k, v)
             /\ session' = [j \in Key |->
                  CASE j = k /\ session[k] = NoSession -> Replay(records'[k].answer)
                    [] j = source /\ k # source -> NoSession
                    [] OTHER -> session[j]]
    <3>1. JournalTyped /\ records'[k].answer \in Answer
      BY <1>0, <1>live, <1>s, <2>1, <2>2, CommitRecordTypes
    <3>2. session' \in [Key -> Knowing]
      BY <1>0, <2>2, <3>1, KnownSessions
    <3> QED BY <1>0, <1>6, <3>1, <3>2 DEF PreserveFinal, TypeOK
  <2>3. CASE session' = [session EXCEPT ![source] = NoSession]
             /\ UNCHANGED <<journalVars, disk, outstanding>>
    BY <1>0, <1>6, <2>3, KnownSessions DEF PreserveFinal, TypeOK, journalVars
  <2> QED BY <1>6, <2>2, <2>3 DEF PreserveFinal
<1>7. ASSUME NEW k \in Key, NEW e \in Epoch, Request(k, e)
      PROVE  up' \in BOOLEAN /\ JournalTyped /\ session' \in [Key -> Knowing]
             /\ emitted' \in [Key -> Answer \cup {None}]
  <2>1. Fetched(k)[k].answer \in Answer \cup {None}
    BY <1>fetched DEF Record
  <2>2. session' \in [Key -> Knowing]
    BY <1>0, <1>7, <2>1, KnownSessions DEF Request
  <2> QED BY <1>0, <1>7, <1>fetched, <2>2 DEF Request, TypeOK
<1>8. ASSUME NEW k \in Key, NEW v \in Answer, BrowserAnswers(k, v)
      PROVE  up' \in BOOLEAN /\ JournalTyped /\ session' \in [Key -> Knowing]
             /\ emitted' \in [Key -> Answer \cup {None}]
  BY <1>0, <1>8, KnownSessions DEF BrowserAnswers, TypeOK, journalVars
<1>9. ASSUME NEW k \in Key, AgeStep(k)
      PROVE  up' \in BOOLEAN /\ JournalTyped /\ session' \in [Key -> Knowing]
             /\ emitted' \in [Key -> Answer \cup {None}]
  <2>1. \A x \in Record : [x EXCEPT !.age = "expired"] \in Record
    BY DEF Record
  <2>2. /\ [disk EXCEPT !.records[k].age = "expired"] \in DiskType
        /\ [records EXCEPT ![k].age = "expired"] \in [Key -> Record]
    BY <1>0, <2>1 DEF TypeOK
  <2> QED BY <1>0, <1>9, <2>2 DEF AgeStep, Age, TypeOK
<1>10. ASSUME Crash \/ Restart
       PROVE  up' \in BOOLEAN /\ JournalTyped /\ session' \in [Key -> Knowing]
              /\ emitted' \in [Key -> Answer \cup {None}]
  <2>1. CASE Crash
    BY <1>0, <1>s, <2>1, KnownSessions DEF Crash, Blank, TypeOK
  <2>2. CASE Restart
    BY <1>0, <1>live, <2>2 DEF Restart, TypeOK
  <2> QED BY <1>10, <2>1, <2>2
<1>11. CASE UNCHANGED vars
  BY <1>0, <1>11 DEF vars, journalVars, TypeOK
<1> QED
  BY <1>1, <1>2, <1>3, <1>4, <1>5, <1>6, <1>7, <1>8, <1>9, <1>10, <1>11 DEF Next

\* Types, with what the sessions know.
LEMMA TypeInvariant == Spec => []TypeInv
<1>1. Init => TypeInv
  <2> SUFFICES ASSUME Init PROVE TypeInv
    OBVIOUS
  <2>1. NoRecord \in Record /\ NoSession \in Session /\ Blank \in [Key -> Epoch \cup {None}]
    BY DEF NoRecord, Record, NoSession, Session, Place, Blank
  <2>2. TypeOK
    BY <2>1 DEF Init, TypeOK, Snapshot, Blank
  <2>3. SessionsKnow
    BY DEF Init, SessionsKnow, NoSession
  <2> QED BY <2>2, <2>3 DEF TypeInv
<1> QED BY <1>1, TypeStep, PTL DEF Spec

\* Every variable of the journal keeps its type, for any keys, epochs and answers.
THEOREM TypeCorrect == Spec => []TypeOK
<1>1. TypeInv => TypeOK
  BY DEF TypeInv
<1> QED BY <1>1, TypeInvariant, PTL

-----------------------------------------------------------------------------
(* Memory and disk *)

\* What is in memory is on disk, what is live on disk is in memory while the backend runs, and
\* a recorded result leaves no send of its key open.
MemoryTracksDisk ==
    /\ up => intents = disk.intents /\ handoffs = disk.handoffs
    /\ \A k \in Key : records[k].answer # None =>
          /\ records[k].answer = disk.records[k].answer
          /\ intents[k] = None /\ handoffs[k] = None
    /\ up => \A k \in Key :
          disk.records[k].answer # None /\ disk.records[k].age = "fresh" =>
              records[k] = disk.records[k]

\* The three maps of the snapshot share no key.
DiskSeparates ==
    \A k \in Key :
        /\ disk.records[k].answer # None /\ disk.records[k].age = "fresh" =>
              disk.intents[k] = None /\ disk.handoffs[k] = None
        /\ disk.intents[k] = None \/ disk.handoffs[k] = None

DiskFits ==
    /\ Cardinality(Recorded(disk.records)) <= MaxEntries
    /\ Cardinality(Present(disk.intents)) + Cardinality(Present(disk.handoffs)) <= MaxEntries

JournalInv == MemoryTracksDisk /\ DiskSeparates /\ DiskFits

\* How one entry set or deleted changes the size of a map of epochs.
LEMMA PresentCount ==
  ASSUME NEW f \in [Key -> Epoch \cup {None}], NEW k \in Key, NEW e \in Epoch
  PROVE  /\ Cardinality(Present(f)) \in Nat
         /\ Cardinality(Present([f EXCEPT ![k] = e])) =
               IF f[k] = None THEN Cardinality(Present(f)) + 1 ELSE Cardinality(Present(f))
         /\ Cardinality(Present([f EXCEPT ![k] = None])) =
               IF f[k] = None THEN Cardinality(Present(f)) ELSE Cardinality(Present(f)) - 1
<1>1. IsFiniteSet(Present(f)) /\ Cardinality(Present(f)) \in Nat
  BY JournalConstants, FS_Subset, FS_CardinalityType DEF Present
<1>2. Present([f EXCEPT ![k] = e]) = Present(f) \cup {k}
  BY JournalConstants DEF Present
<1>3. Present([f EXCEPT ![k] = None]) = Present(f) \ {k}
  BY DEF Present
<1>4. k \in Present(f) <=> f[k] # None
  BY DEF Present
<1>5. Cardinality(Present(f) \cup {k}) =
        IF k \in Present(f) THEN Cardinality(Present(f)) ELSE Cardinality(Present(f)) + 1
  BY <1>1, FS_AddElement
<1>6. Cardinality(Present(f) \ {k}) =
        IF k \in Present(f) THEN Cardinality(Present(f)) - 1 ELSE Cardinality(Present(f))
  BY <1>1, FS_RemoveElement
<1> QED BY <1>1, <1>2, <1>3, <1>4, <1>5, <1>6

\* Recording a result never makes the journal too large: it evicts when it is full.
LEMMA WithRecordFits ==
  ASSUME NEW r \in [Key -> Record], Cardinality(Recorded(r)) <= MaxEntries,
         NEW k \in Key, NEW v \in Answer, NEW after \in WithRecord(r, k, v)
  PROVE  Cardinality(Recorded(after)) <= MaxEntries
<1> DEFINE n == Cardinality(Recorded(r))
<1>1. IsFiniteSet(Recorded(r)) /\ n \in Nat /\ MaxEntries \in Nat \ {0}
  BY JournalConstants, FS_Subset, FS_CardinalityType DEF Recorded
<1>2. CASE r[k].answer # None
  <2>1. after = [r EXCEPT ![k].age = "fresh"]
    BY <1>2 DEF WithRecord
  <2>2. \A x \in Record : [x EXCEPT !.age = "fresh"].answer = x.answer
    BY DEF Record
  <2>3. \A j \in Key : after[j].answer = r[j].answer
    BY <2>1, <2>2
  <2> QED BY <2>3 DEF Recorded
<1>3. CASE r[k].answer = None
  <2>1. v # None
    BY JournalConstants
  <2>2. CASE n < MaxEntries
    <3>1. after = [r EXCEPT ![k] = [answer |-> v, age |-> "fresh"]]
      BY <1>3, <2>2 DEF WithRecord
    <3>2. Recorded(after) = Recorded(r) \cup {k} /\ k \notin Recorded(r)
      BY <1>3, <2>1, <3>1 DEF Recorded
    <3>3. Cardinality(Recorded(after)) = n + 1
      BY <1>1, <3>2, FS_AddElement
    <3> QED BY <1>1, <2>2, <3>3
  <2>3. CASE ~(n < MaxEntries)
    <3>1. PICK old \in Recorded(r) :
            after = [[r EXCEPT ![old] = NoRecord] EXCEPT ![k] = [answer |-> v, age |-> "fresh"]]
      <4>1. PICK kept \in {[r EXCEPT ![old] = NoRecord] : old \in Recorded(r)} :
              after = [kept EXCEPT ![k] = [answer |-> v, age |-> "fresh"]]
        BY <1>3, <2>3, Zenon DEF WithRecord
      <4> QED BY <4>1, Zenon
    <3>2. Recorded(after) = (Recorded(r) \ {old}) \cup {k} /\ k \notin Recorded(r) \ {old}
      <4>1. old \in Key /\ old # k
        BY <1>3 DEF Recorded
      <4>2. \A j \in Key : after[j].answer = IF j = k THEN v ELSE IF j = old THEN None
                                             ELSE r[j].answer
        BY <3>1, <4>1 DEF NoRecord
      <4> QED BY <1>3, <2>1, <4>1, <4>2 DEF Recorded
    <3>3. IsFiniteSet(Recorded(r) \ {old}) /\ Cardinality(Recorded(r) \ {old}) = n - 1
      BY <1>1, FS_RemoveElement
    <3>4. Cardinality((Recorded(r) \ {old}) \cup {k}) = (n - 1) + 1
      BY <3>2, <3>3, FS_AddElement
    <3> QED BY <1>1, <3>2, <3>4
  <2> QED BY <2>2, <2>3
<1> QED BY <1>2, <1>3

\* Pruned, every record is fresh, so that get has nothing left to refresh.
LEMMA FetchedIsLive ==
  ASSUME TypeInv, NEW k \in Key
  PROVE  Fetched(k) = Live(records)
<1>1. records \in [Key -> Record]
  BY DEF TypeInv, TypeOK
<1>2. /\ Fetched(k) \in [Key -> Record] /\ Live(records) \in [Key -> Record]
      /\ \A j \in Key : Fetched(k)[j] = Live(records)[j]
  BY <1>1, FetchedFacts, LiveFacts
<1> QED BY <1>2

\* Pruning memory only drops records that are expired on disk as well.
LEMMA PruneKeeps ==
  ASSUME TypeInv, JournalInv, records' = Live(records), UNCHANGED <<up, intents, handoffs, disk>>
  PROVE  JournalInv'
<1>1. \A j \in Key : Live(records)[j] = IF records[j].age = "expired" THEN NoRecord ELSE records[j]
  BY LiveFacts DEF TypeInv, TypeOK
<1>2. MemoryTracksDisk'
  BY <1>1 DEF JournalInv, MemoryTracksDisk, NoRecord
<1>3. DiskSeparates' /\ DiskFits'
  BY DEF JournalInv, DiskSeparates, DiskFits
<1> QED BY <1>2, <1>3 DEF JournalInv

\* What CommitRecord does to the sends, and that the snapshot it writes is sound.
LEMMA CommitRecordKeeps ==
  ASSUME TypeInv, JournalInv, up, NEW k \in Key, NEW v \in Answer,
         CommitRecord(Live(records), k, v), UNCHANGED up
  PROVE  /\ JournalInv'
         /\ \/ intents' = intents /\ outstanding' = outstanding
            \/ /\ intents' = [intents EXCEPT ![k] = None]
               /\ outstanding' = [outstanding EXCEPT ![k] = {}]
<1> DEFINE r == Live(records)
<1>0. /\ records \in [Key -> Record] /\ intents \in [Key -> Epoch \cup {None}]
      /\ handoffs \in [Key -> Epoch \cup {None}] /\ disk.records \in [Key -> Record]
  BY DEF TypeInv, TypeOK
<1>r. /\ r \in [Key -> Record] /\ \A j \in Key : r[j].age = "fresh"
      /\ \A j \in Key : r[j] \in {records[j], NoRecord}
  BY <1>0, LiveFacts
<1>m. intents = disk.intents /\ handoffs = disk.handoffs
  BY DEF JournalInv, MemoryTracksDisk
<1>h. \A j \in Key : r[j].answer # None =>
        r[j].answer = disk.records[j].answer /\ intents[j] = None /\ handoffs[j] = None
  BY <1>r DEF JournalInv, MemoryTracksDisk, NoRecord
<1> HIDE DEF r
<1>1. PICK after \in WithRecord(r, k, v) :
        IF r[k].answer # None
        THEN Commit(after, intents, handoffs) /\ UNCHANGED outstanding
        ELSE /\ Commit(after, [intents EXCEPT ![k] = None], [handoffs EXCEPT ![k] = None])
             /\ outstanding' = [outstanding EXCEPT ![k] = {}]
  <2>1. CommitRecord(r, k, v) BY DEF r
  <2> QED BY <2>1, Zenon DEF CommitRecord
<1>2. /\ after \in [Key -> Record]
      /\ r[k].answer # None => after = r
      /\ r[k].answer = None => /\ after[k] = [answer |-> v, age |-> "fresh"]
                               /\ \A j \in Key \ {k} : after[j] \in {r[j], NoRecord}
  BY <1>r, WithRecordFacts
<1>3. Cardinality(Recorded(after)) <= MaxEntries
  <2>1. Recorded(r) \subseteq Recorded(disk.records)
    BY <1>h DEF Recorded
  <2>2. IsFiniteSet(Recorded(disk.records))
    BY JournalConstants, FS_Subset DEF Recorded
  <2>3. /\ Cardinality(Recorded(r)) <= Cardinality(Recorded(disk.records))
        /\ Cardinality(Recorded(r)) \in Nat /\ Cardinality(Recorded(disk.records)) \in Nat
    BY <2>1, <2>2, FS_Subset, FS_CardinalityType
  <2>4. Cardinality(Recorded(r)) <= MaxEntries
    BY <2>3, JournalConstants DEF JournalInv, DiskFits
  <2> QED BY <1>r, <2>4, WithRecordFits
<1>4. \/ /\ after = r /\ Commit(after, intents, handoffs) /\ outstanding' = outstanding
      \/ /\ r[k].answer = None
         /\ Commit(after, [intents EXCEPT ![k] = None], [handoffs EXCEPT ![k] = None])
         /\ outstanding' = [outstanding EXCEPT ![k] = {}]
  BY <1>1, <1>2
<1>5. /\ records' = after /\ disk'.records = after
      /\ intents' = disk'.intents /\ handoffs' = disk'.handoffs
  BY <1>4 DEF Commit, Snapshot
<1>6. \A j \in Key : /\ intents'[j] \in {intents[j], None} /\ handoffs'[j] \in {handoffs[j], None}
                     /\ after[j].answer # None => intents'[j] = None /\ handoffs'[j] = None
  BY <1>0, <1>h, <1>2, <1>4 DEF Commit, NoRecord
<1>7. MemoryTracksDisk'
  BY <1>5, <1>6 DEF MemoryTracksDisk
<1>8. DiskSeparates'
  BY <1>m, <1>5, <1>6 DEF DiskSeparates, JournalInv
<1>9. DiskFits'
  <2>1. Cardinality(Present(intents)) + Cardinality(Present(handoffs)) <= MaxEntries
    BY <1>m DEF JournalInv, DiskFits
  <2>2. /\ Present(intents') \subseteq Present(intents)
        /\ Present(handoffs') \subseteq Present(handoffs)
    BY <1>6 DEF Present
  <2>3. IsFiniteSet(Present(intents)) /\ IsFiniteSet(Present(handoffs))
    BY JournalConstants, FS_Subset DEF Present
  <2>4. /\ Cardinality(Present(intents')) <= Cardinality(Present(intents))
        /\ Cardinality(Present(handoffs')) <= Cardinality(Present(handoffs))
        /\ Cardinality(Present(intents')) \in Nat /\ Cardinality(Present(handoffs')) \in Nat
        /\ Cardinality(Present(intents)) \in Nat /\ Cardinality(Present(handoffs)) \in Nat
    BY <2>2, <2>3, FS_Subset, FS_CardinalityType
  <2>5. /\ Cardinality(Present(disk'.intents)) + Cardinality(Present(disk'.handoffs)) <= MaxEntries
        /\ Cardinality(Recorded(disk'.records)) <= MaxEntries
    BY <1>3, <1>5, <2>1, <2>4, JournalConstants
  <2> QED BY <2>5 DEF DiskFits, Present, Recorded
<1> QED BY <1>4, <1>7, <1>8, <1>9 DEF JournalInv, Commit

\* An intent takes the place of a handoff, or room was checked; no live result has its key.
LEMMA AuthorizeKeeps ==
  ASSUME TypeInv, JournalInv, NEW k \in Key, AuthorizeSend(k)
  PROVE  JournalInv'
<1> DEFINE e == session[k].epoch
<1>0. /\ records \in [Key -> Record] /\ intents \in [Key -> Epoch \cup {None}]
      /\ handoffs \in [Key -> Epoch \cup {None}] /\ e \in Epoch
  BY DEF TypeInv, TypeOK, SessionsKnow, AuthorizeSend
<1>m. intents = disk.intents /\ handoffs = disk.handoffs
  BY DEF JournalInv, MemoryTracksDisk, AuthorizeSend
<1>1. /\ records' = records /\ disk'.records = records
      /\ intents' = [intents EXCEPT ![k] = e] /\ disk'.intents = intents'
      /\ handoffs' = [handoffs EXCEPT ![k] = None] /\ disk'.handoffs = handoffs'
      /\ records[k].answer = None /\ intents[k] = None
      /\ \/ handoffs[k] # None
         \/ Cardinality(Present(intents)) + Cardinality(Present(handoffs)) < MaxEntries
  BY DEF AuthorizeSend, SendRecorded, Commit, Snapshot
<1>2. MemoryTracksDisk'
  BY <1>0, <1>1 DEF MemoryTracksDisk, JournalInv
<1>3. DiskSeparates'
  BY <1>0, <1>m, <1>1 DEF DiskSeparates, JournalInv, MemoryTracksDisk
<1>4. DiskFits'
  <2>1. /\ Cardinality(Present(intents)) \in Nat /\ Cardinality(Present(handoffs)) \in Nat
        /\ Cardinality(Present(intents')) = Cardinality(Present(intents)) + 1
        /\ Cardinality(Present(handoffs')) = IF handoffs[k] = None THEN Cardinality(Present(handoffs))
                                             ELSE Cardinality(Present(handoffs)) - 1
    <3>1. /\ Cardinality(Present(intents)) \in Nat
          /\ Cardinality(Present([intents EXCEPT ![k] = e])) = Cardinality(Present(intents)) + 1
      <4>1. intents[k] = None /\ intents \in [Key -> Epoch \cup {None}] /\ e \in Epoch
        BY <1>0, <1>1
      <4> HIDE DEF e
      <4> QED BY <4>1, PresentCount
    <3>2. /\ Cardinality(Present(handoffs)) \in Nat
          /\ Cardinality(Present([handoffs EXCEPT ![k] = None])) =
                IF handoffs[k] = None THEN Cardinality(Present(handoffs))
                ELSE Cardinality(Present(handoffs)) - 1
      BY <1>0, PresentCount
    <3>3. /\ Present(intents') = Present([intents EXCEPT ![k] = e])
          /\ Present(handoffs') = Present([handoffs EXCEPT ![k] = None])
      BY <1>1, Zenon
    <3> QED BY <3>1, <3>2, <3>3
  <2>2. Cardinality(Present(intents)) + Cardinality(Present(handoffs)) <= MaxEntries
    BY <1>m DEF JournalInv, DiskFits
  <2>3. Cardinality(Present(disk'.intents)) + Cardinality(Present(disk'.handoffs)) <= MaxEntries
    BY <1>1, <2>1, <2>2, JournalConstants
  <2>4. Cardinality(Recorded(disk'.records)) <= MaxEntries
    <3>1. Recorded(records) \subseteq Recorded(disk.records) /\ IsFiniteSet(Recorded(disk.records))
      BY JournalConstants, FS_Subset DEF Recorded, JournalInv, MemoryTracksDisk
    <3>2. /\ Cardinality(Recorded(records)) <= Cardinality(Recorded(disk.records))
          /\ Cardinality(Recorded(records)) \in Nat /\ Cardinality(Recorded(disk.records)) \in Nat
      BY <3>1, FS_Subset, FS_CardinalityType
    <3> QED BY <1>1, <3>2, JournalConstants DEF JournalInv, DiskFits
  <2> QED BY <2>3, <2>4 DEF DiskFits, Present, Recorded
<1> QED BY <1>2, <1>3, <1>4 DEF JournalInv

\* A handoff takes the place of the intent it settles.
LEMMA HandoffKeeps ==
  ASSUME TypeInv, JournalInv, NEW k \in Key, up, UNCHANGED up, NEW e \in Epoch,
         intents[k] = e, records[k].answer = None,
         Commit(records, [intents EXCEPT ![k] = None], [handoffs EXCEPT ![k] = e])
  PROVE  JournalInv'
<1>0. /\ records \in [Key -> Record] /\ intents \in [Key -> Epoch \cup {None}]
      /\ handoffs \in [Key -> Epoch \cup {None}]
  BY DEF TypeInv, TypeOK
<1>m. intents = disk.intents /\ handoffs = disk.handoffs /\ handoffs[k] = None /\ e # None
  BY JournalConstants DEF JournalInv, MemoryTracksDisk, DiskSeparates
<1>1. /\ records' = records /\ disk'.records = records
      /\ intents' = [intents EXCEPT ![k] = None] /\ disk'.intents = intents'
      /\ handoffs' = [handoffs EXCEPT ![k] = e] /\ disk'.handoffs = handoffs'
  BY DEF Commit, Snapshot
<1>2. MemoryTracksDisk'
  BY <1>0, <1>1 DEF MemoryTracksDisk, JournalInv
<1>3. DiskSeparates'
  BY <1>0, <1>m, <1>1 DEF DiskSeparates, JournalInv, MemoryTracksDisk
<1>4. DiskFits'
  <2>1. /\ Cardinality(Present(intents)) \in Nat /\ Cardinality(Present(handoffs)) \in Nat
        /\ Cardinality(Present(intents')) = Cardinality(Present(intents)) - 1
        /\ Cardinality(Present(handoffs')) = Cardinality(Present(handoffs)) + 1
    BY <1>0, <1>m, <1>1, PresentCount
  <2>2. Cardinality(Present(intents)) + Cardinality(Present(handoffs)) <= MaxEntries
    BY <1>m DEF JournalInv, DiskFits
  <2>3. Cardinality(Present(disk'.intents)) + Cardinality(Present(disk'.handoffs)) <= MaxEntries
    BY <1>1, <2>1, <2>2, JournalConstants
  <2>4. Cardinality(Recorded(disk'.records)) <= MaxEntries
    <3>1. Recorded(records) \subseteq Recorded(disk.records) /\ IsFiniteSet(Recorded(disk.records))
      BY JournalConstants, FS_Subset DEF Recorded, JournalInv, MemoryTracksDisk
    <3>2. /\ Cardinality(Recorded(records)) <= Cardinality(Recorded(disk.records))
          /\ Cardinality(Recorded(records)) \in Nat /\ Cardinality(Recorded(disk.records)) \in Nat
      BY <3>1, FS_Subset, FS_CardinalityType
    <3> QED BY <1>1, <3>2, JournalConstants DEF JournalInv, DiskFits
  <2> QED BY <2>3, <2>4 DEF DiskFits, Present, Recorded
<1> QED BY <1>2, <1>3, <1>4 DEF JournalInv

\* Ageing a record changes no answer, and disk is never younger than memory.
LEMMA AgeKeeps ==
  ASSUME TypeInv, JournalInv, NEW k \in Key, AgeStep(k)
  PROVE  JournalInv'
<1>0. records \in [Key -> Record] /\ disk.records \in [Key -> Record]
  BY DEF TypeInv, TypeOK
<1>1. /\ disk'.intents = disk.intents /\ disk'.handoffs = disk.handoffs
      /\ \A j \in Key : /\ disk'.records[j].answer = disk.records[j].answer
                        /\ j # k => disk'.records[j] = disk.records[j]
      /\ disk'.records[k].age = "expired"
  <2>1. disk' = [disk EXCEPT !.records = [disk.records EXCEPT ![k] =
                   [disk.records[k] EXCEPT !.age = "expired"]]]
    BY DEF AgeStep, Age
  <2>2. \A x \in Record : /\ [x EXCEPT !.age = "expired"].answer = x.answer
                          /\ [x EXCEPT !.age = "expired"].age = "expired"
    BY DEF Record
  <2>3. disk' .records = [disk.records EXCEPT ![k] = [disk.records[k] EXCEPT !.age = "expired"]]
        /\ disk'.intents = disk.intents /\ disk'.handoffs = disk.handoffs
    BY <2>1 DEF TypeInv, TypeOK
  <2> QED BY <1>0, <2>2, <2>3
<1>2. /\ \A j \in Key : records'[j].answer = records[j].answer /\ (j # k => records'[j] = records[j])
      /\ UNCHANGED <<up, intents, handoffs>>
  <2>1. \A x \in Record : [x EXCEPT !.age = "expired"].answer = x.answer
    BY DEF Record
  <2>2. \/ records' = records
        \/ records' = [records EXCEPT ![k] = [records[k] EXCEPT !.age = "expired"]]
    BY DEF AgeStep, Age
  <2> QED BY <1>0, <2>1, <2>2 DEF AgeStep
<1>3. MemoryTracksDisk' /\ DiskSeparates'
  BY <1>1, <1>2 DEF JournalInv, MemoryTracksDisk, DiskSeparates
<1>4. DiskFits'
  BY <1>1 DEF JournalInv, DiskFits, Recorded, Present
<1> QED BY <1>3, <1>4 DEF JournalInv

\* A crash empties memory only; a restart reads back what is live on disk.
LEMMA RestartKeeps ==
  ASSUME TypeInv, JournalInv, Crash \/ Restart
  PROVE  JournalInv'
<1>0. disk' = disk
  BY DEF Crash, Restart
<1>1. \A j \in Key : Live(disk.records)[j] =
        IF disk.records[j].age = "expired" THEN NoRecord ELSE disk.records[j]
  <2>1. disk.records \in [Key -> Record] BY DEF TypeInv, TypeOK
  <2> QED BY <2>1, LiveFacts
<1>2. CASE Crash
  BY <1>0, <1>2 DEF Crash, JournalInv, MemoryTracksDisk, DiskSeparates, DiskFits, NoRecord
<1>3. CASE Restart
  <2>1. disk.records \in [Key -> Record] BY DEF TypeInv, TypeOK
  <2>2. \A j \in Key : disk.records[j].age \in {"fresh", "expired"} BY <2>1 DEF Record
  <2>3. MemoryTracksDisk'
    BY <1>0, <1>1, <1>3, <2>2 DEF Restart, JournalInv, MemoryTracksDisk, DiskSeparates, NoRecord
  <2> QED BY <1>0, <2>3 DEF JournalInv, DiskSeparates, DiskFits
<1> QED BY <1>2, <1>3

\* Every step keeps memory, snapshot and limits in agreement.
LEMMA JournalStep ==
  ASSUME TypeInv, JournalInv, [Next]_vars
  PROVE  JournalInv'
<1>1. ASSUME UNCHANGED <<up, journalVars, disk>>
      PROVE  JournalInv'
  BY <1>1 DEF journalVars, JournalInv, MemoryTracksDisk, DiskSeparates, DiskFits,
              Recorded, Present
<1>2. ASSUME NEW k \in Key, NEW e \in Epoch, Request(k, e)
      PROVE  JournalInv'
  BY <1>2, FetchedIsLive, PruneKeeps DEF Request
<1>3. ASSUME NEW k \in Key, Publish(k)
      PROVE  JournalInv'
  <2>1. CASE UNCHANGED <<journalVars, disk>>
    BY <1>1, <1>3, <2>1 DEF Publish
  <2>2. CASE records' = Fetched(k) /\ UNCHANGED <<intents, handoffs, disk>>
    BY <1>3, <2>2, FetchedIsLive, PruneKeeps DEF Publish
  <2>3. CASE session[k].at = "final" /\ CommitRecord(Fetched(k), k, session[k].answer)
    <3>1. session[k].answer \in Answer
      BY <2>3 DEF TypeInv, SessionsKnow
    <3>2. CommitRecord(Live(records), k, session[k].answer)
      BY <2>3, FetchedIsLive
    <3> QED BY <1>3, <3>1, <3>2, CommitRecordKeeps DEF Publish
  <2> QED BY <1>3, <2>1, <2>2, <2>3 DEF Publish
<1>4. ASSUME NEW k \in Key, NEW source \in Key, PreserveFinal(source, k)
      PROVE  JournalInv'
  <2>1. session[source].answer \in Answer /\ up /\ UNCHANGED up
    BY <1>4 DEF PreserveFinal, TypeInv, SessionsKnow
  <2>2. CASE CommitRecord(Live(records), k, session[source].answer)
    BY <2>1, <2>2, CommitRecordKeeps
  <2>3. CASE UNCHANGED <<journalVars, disk>>
    BY <1>1, <2>1, <2>3
  <2> QED BY <1>4, <2>2, <2>3 DEF PreserveFinal
<1>5. ASSUME NEW k \in Key, AcceptHandoff(k)
      PROVE  JournalInv'
  <2>1. session[k].epoch \in Epoch /\ up /\ UNCHANGED up
    BY <1>5 DEF AcceptHandoff, TypeInv, SessionsKnow
  <2>2. CASE UNCHANGED <<journalVars, disk>>
    BY <1>1, <2>1, <2>2
  <2>3. CASE /\ intents[k] = session[k].epoch /\ records[k].answer = None
             /\ Commit(records, [intents EXCEPT ![k] = None],
                       [handoffs EXCEPT ![k] = session[k].epoch])
    BY <2>1, <2>3, HandoffKeeps
  <2> QED BY <1>5, <2>2, <2>3 DEF AcceptHandoff
<1>6. ASSUME NEW k \in Key,
             \/ SendRefused(k) \/ ClickSend(k) \/ Retire(k)
             \/ \E v \in Answer : BrowserAnswers(k, v)
      PROVE  JournalInv'
  BY <1>1, <1>6 DEF SendRefused, ClickSend, Retire, BrowserAnswers
<1>7. CASE UNCHANGED vars
  BY <1>1, <1>7 DEF vars
<1> QED
  BY <1>2, <1>3, <1>4, <1>5, <1>6, <1>7, AuthorizeKeeps, AgeKeeps, RestartKeeps DEF Next

\* Memory, snapshot and limits agree in every reachable state.
THEOREM JournalInvariant == Spec => [](TypeInv /\ JournalInv)
<1>1. Init => JournalInv
  <2> SUFFICES ASSUME Init PROVE JournalInv
    OBVIOUS
  <2>1. MemoryTracksDisk /\ DiskSeparates
    BY DEF Init, MemoryTracksDisk, DiskSeparates, Snapshot, NoRecord, Blank
  <2>2. Recorded(disk.records) = {} /\ Present(disk.intents) = {} /\ Present(disk.handoffs) = {}
    BY DEF Init, Recorded, Present, Snapshot, NoRecord, Blank
  <2>3. DiskFits
    BY <2>2, FS_EmptySet, JournalConstants DEF DiskFits
  <2> QED BY <2>1, <2>3 DEF JournalInv
<1>2. TypeInv /\ JournalInv /\ [Next]_vars => JournalInv'
  BY JournalStep
<1> QED BY <1>1, <1>2, TypeInvariant, PTL DEF Spec

\* A crash in any reachable state leaves a snapshot that load accepts.
THEOREM SnapshotAlwaysLoads == Spec => []SnapshotLoads
<1>1. TypeInv /\ JournalInv => SnapshotLoads
  <2> SUFFICES ASSUME TypeInv, JournalInv PROVE SnapshotLoads
    OBVIOUS
  <2>1. /\ disk.records \in [Key -> Record]
        /\ \A j \in Key : disk.records[j].age \in {"fresh", "expired"}
    <3>1. disk.records \in [Key -> Record] BY DEF TypeInv, TypeOK
    <3> QED BY <3>1 DEF Record
  <2>2. \A j \in Key : j \in Recorded(Live(disk.records)) =>
          disk.records[j].answer # None /\ disk.records[j].age = "fresh"
    BY <2>1, LiveFacts DEF Recorded, NoRecord
  <2>3. /\ Recorded(Live(disk.records)) \cap (Present(disk.intents) \cup Present(disk.handoffs)) = {}
        /\ Present(disk.intents) \cap Present(disk.handoffs) = {}
    BY <2>2 DEF JournalInv, DiskSeparates, Present, Recorded
  <2> QED BY <2>3 DEF SnapshotLoads, Valid, JournalInv, DiskFits
<1> QED BY <1>1, JournalInvariant, PTL

\* The checks before a send read maps in memory that say what the disk says.
THEOREM MemoryMatches == Spec => []MemoryMatchesDisk
<1>1. JournalInv => MemoryMatchesDisk
  BY DEF JournalInv, MemoryTracksDisk, MemoryMatchesDisk
<1> QED BY <1>1, JournalInvariant, PTL

-----------------------------------------------------------------------------
(* Sends *)

\* A turn that is about to click Send holds the only intent of its key, and no earlier send of
\* that key is open: this is what the click needs, and what UnknownSendIsDurable does not say.
SendInv ==
    /\ ~up => \A k \in Key : session[k] = NoSession
    /\ UnknownSendIsDurable
    /\ \A k \in Key : session[k].at = "authorized" =>
          outstanding[k] = {} /\ disk.intents[k] = session[k].epoch

\* What committing a result does to the sends: those of its key are settled, or it was known.
LEMMA CommitRecordSettles ==
  ASSUME TypeInv, JournalInv, SendInv, up, UNCHANGED up, NEW k \in Key, NEW v \in Answer,
         CommitRecord(Live(records), k, v), session[k].at # "authorized"
  PROVE  /\ UnknownSendIsDurable'
         /\ \A j \in Key \ {k} : outstanding'[j] = outstanding[j] /\ disk'.intents[j] = disk.intents[j]
<1>1. /\ disk'.intents = intents' /\ disk.intents = intents
      /\ \/ intents' = intents /\ outstanding' = outstanding
         \/ /\ intents' = [intents EXCEPT ![k] = None]
            /\ outstanding' = [outstanding EXCEPT ![k] = {}]
  BY CommitRecordKeeps DEF JournalInv, MemoryTracksDisk
<1>2. outstanding \in [Key -> SUBSET Epoch] /\ intents \in [Key -> Epoch \cup {None}]
  BY DEF TypeInv, TypeOK
<1> QED BY <1>1, <1>2 DEF SendInv, UnknownSendIsDurable

\* Every step keeps what is known of the sends.
LEMMA SendStep ==
  ASSUME TypeInv, JournalInv, SendInv, [Next]_vars
  PROVE  SendInv'
<1>0. /\ outstanding \in [Key -> SUBSET Epoch] /\ session \in [Key -> Session]
      /\ disk.intents \in [Key -> Epoch \cup {None}]
  BY DEF TypeInv, TypeOK
<1>m. up => intents = disk.intents
  BY DEF JournalInv, MemoryTracksDisk
<1>n. NoSession.at = "none" /\ \A v : Final(v).at = "final" /\ Replay(v).at = "replayed"
  BY DEF NoSession, Final, Replay
<1>1. ASSUME UNCHANGED <<up, disk, outstanding>>,
             up \/ session' = session,
             \A k \in Key : session'[k] = session[k] \/ session'[k].at # "authorized"
      PROVE  SendInv'
  BY <1>1 DEF SendInv, UnknownSendIsDurable
<1>2. ASSUME NEW k \in Key, AuthorizeSend(k)
      PROVE  SendInv'
  <2>1. /\ up /\ up' /\ intents[k] = None /\ disk'.intents = [disk.intents EXCEPT ![k] = session[k].epoch]
        /\ outstanding' = outstanding
        /\ session' = [session EXCEPT ![k].at = "authorized"]
    BY <1>2, <1>m DEF AuthorizeSend, SendRecorded, Commit, Snapshot
  <2>2. outstanding[k] = {}
    BY <1>0, <1>m, <2>1, JournalConstants DEF SendInv, UnknownSendIsDurable
  <2>3. /\ session'[k].at = "authorized" /\ session'[k].epoch = session[k].epoch
        /\ \A j \in Key \ {k} : session'[j] = session[j]
    BY <1>0, <2>1 DEF Session
  <2> QED BY <1>0, <2>1, <2>2, <2>3 DEF SendInv, UnknownSendIsDurable
<1>3. ASSUME NEW k \in Key, ClickSend(k)
      PROVE  SendInv'
  <2>1. /\ up /\ up' /\ disk' = disk /\ session[k].at = "authorized"
        /\ outstanding' = [outstanding EXCEPT ![k] = @ \cup {session[k].epoch}]
        /\ session' = [session EXCEPT ![k].at = "sent"]
    BY <1>3 DEF ClickSend
  <2>2. outstanding'[k] = {disk.intents[k]}
    BY <1>0, <2>1 DEF SendInv
  <2>3. session'[k].at = "sent" /\ \A j \in Key \ {k} : session'[j] = session[j]
    BY <1>0, <2>1 DEF Session
  <2> QED BY <1>0, <2>1, <2>2, <2>3 DEF SendInv, UnknownSendIsDurable
<1>4. ASSUME NEW k \in Key, SendRefused(k) \/ Retire(k)
      PROVE  SendInv'
  <2>1. /\ up /\ UNCHANGED <<up, disk, outstanding>>
        /\ \A j \in Key : session'[j] \in {session[j], NoSession}
    BY <1>0, <1>4 DEF SendRefused, Retire
  <2> QED BY <1>1, <1>n, <2>1
<1>5. ASSUME NEW k \in Key, NEW v \in Answer, BrowserAnswers(k, v)
      PROVE  SendInv'
  <2>1. /\ up /\ UNCHANGED <<up, disk, outstanding>>
        /\ \A j \in Key : session'[j] \in {session[j], Final(v)}
    BY <1>0, <1>5 DEF BrowserAnswers
  <2> QED BY <1>1, <1>n, <2>1
<1>6. ASSUME NEW k \in Key, NEW e \in Epoch, Request(k, e)
      PROVE  SendInv'
  <2>1. /\ up /\ UNCHANGED <<up, disk, outstanding>>
        /\ \A j \in Key \ {k} : session'[j] = session[j]
        /\ session'[k].at \in {"none", "replayed", "prepared"}
    BY <1>0, <1>6, <1>n DEF Request
  <2> QED BY <1>1, <2>1
<1>7. ASSUME NEW k \in Key, Publish(k)
      PROVE  SendInv'
  <2>1. up /\ UNCHANGED <<up, session>>
    BY <1>7 DEF Publish
  <2>2. CASE UNCHANGED <<disk, outstanding>>
    BY <1>1, <2>1, <2>2
  <2>3. CASE session[k].at = "final" /\ CommitRecord(Fetched(k), k, session[k].answer)
    <3>1. session[k].answer \in Answer
      BY <2>3 DEF TypeInv, SessionsKnow
    <3>2. CommitRecord(Live(records), k, session[k].answer)
      BY <2>3, FetchedIsLive
    <3>3. /\ UnknownSendIsDurable'
          /\ \A j \in Key \ {k} : /\ outstanding'[j] = outstanding[j]
                                  /\ disk'.intents[j] = disk.intents[j]
      BY <2>1, <2>3, <3>1, <3>2, CommitRecordSettles
    <3> QED BY <2>1, <2>3, <3>3 DEF SendInv
  <2> QED BY <1>7, <2>2, <2>3 DEF Publish
<1>8. ASSUME NEW k \in Key, NEW source \in Key, PreserveFinal(source, k)
      PROVE  SendInv'
  <2>1. up /\ UNCHANGED up /\ session[source].at = "final" /\ session[source].answer \in Answer
    BY <1>8 DEF PreserveFinal, TypeInv, SessionsKnow
  <2>2. CASE /\ k = source \/ session[k] \in {NoSession, Final(session[source].answer),
                                                Replay(session[source].answer)}
             /\ CommitRecord(Live(records), k, session[source].answer)
             /\ session' = [j \in Key |->
                  CASE j = k /\ session[k] = NoSession -> Replay(records'[k].answer)
                    [] j = source /\ k # source -> NoSession
                    [] OTHER -> session[j]]
    <3>1. session[k].at # "authorized"
      BY <1>n, <2>1, <2>2
    <3>2. /\ UnknownSendIsDurable'
          /\ \A j \in Key \ {k} : /\ outstanding'[j] = outstanding[j]
                                  /\ disk'.intents[j] = disk.intents[j]
      BY <2>1, <2>2, <3>1, CommitRecordSettles
    <3>3. \A j \in Key : \/ session'[j] = session[j]
                         \/ session'[j] \in {NoSession, Replay(records'[k].answer)}
      BY <2>2
    <3>4. \A j \in Key : session'[j] = session[j] \/ session'[j].at # "authorized"
      BY <1>n, <3>3
    <3> QED BY <2>1, <3>1, <3>2, <3>4 DEF SendInv
  <2>3. CASE /\ session' = [session EXCEPT ![source] = NoSession]
             /\ UNCHANGED <<journalVars, disk, outstanding>>
    <3>1. \A j \in Key : session'[j] \in {session[j], NoSession}
      BY <1>0, <2>3
    <3> QED BY <1>1, <1>n, <2>1, <2>3, <3>1
  <2> QED BY <1>8, <2>2, <2>3 DEF PreserveFinal
<1>9. ASSUME NEW k \in Key, AcceptHandoff(k)
      PROVE  SendInv'
  <2>1. /\ up /\ UNCHANGED up
        /\ \A j \in Key : session'[j] \in {session[j], NoSession}
        /\ \A j \in Key \ {k} : session'[j] = session[j]
        /\ session'[k] = NoSession
    BY <1>0, <1>9 DEF AcceptHandoff
  <2>2. CASE UNCHANGED <<disk, outstanding>>
    BY <1>1, <1>n, <2>1, <2>2
  <2>3. CASE /\ intents[k] = session[k].epoch
             /\ Commit(records, [intents EXCEPT ![k] = None],
                       [handoffs EXCEPT ![k] = session[k].epoch])
             /\ outstanding' = [outstanding EXCEPT ![k] = @ \ {session[k].epoch}]
    <3>1. outstanding'[k] = {}
      BY <1>0, <1>m, <2>1, <2>3 DEF SendInv, UnknownSendIsDurable
    <3>2. \A j \in Key \ {k} : outstanding'[j] = outstanding[j] /\ disk'.intents[j] = disk.intents[j]
      BY <1>0, <1>m, <2>1, <2>3 DEF Commit, Snapshot
    <3> QED BY <1>n, <2>1, <3>1, <3>2 DEF SendInv, UnknownSendIsDurable
  <2> QED BY <1>9, <2>2, <2>3 DEF AcceptHandoff
<1>10. ASSUME NEW k \in Key, AgeStep(k)
       PROVE  SendInv'
  <2>1. disk'.intents = disk.intents
    BY <1>10 DEF AgeStep, Age, TypeInv, TypeOK
  <2> QED BY <1>10, <2>1 DEF AgeStep, SendInv, UnknownSendIsDurable
<1>11. CASE Crash
  BY <1>n, <1>11 DEF Crash, SendInv, UnknownSendIsDurable
<1>12. CASE Restart
  BY <1>12 DEF Restart, SendInv, UnknownSendIsDurable
<1>13. CASE UNCHANGED vars
  BY <1>13 DEF vars, SendInv, UnknownSendIsDurable
<1> QED
  BY <1>2, <1>3, <1>4, <1>5, <1>6, <1>7, <1>8, <1>9, <1>10, <1>11, <1>12, <1>13 DEF Next

\* Open sends have their intent on disk, and authorized turns have no open send.
THEOREM SendInvariant == Spec => [](TypeInv /\ JournalInv /\ SendInv)
<1>1. Init => SendInv
  BY DEF Init, SendInv, UnknownSendIsDurable, NoSession
<1>2. TypeInv /\ JournalInv /\ SendInv /\ [Next]_vars => SendInv'
  BY SendStep
<1> QED BY <1>1, <1>2, JournalInvariant, PTL DEF Spec

\* Whatever crashes, evictions and expiries happened, a send with no known outcome has its intent
\* on disk.
THEOREM UnknownSendsAreDurable == Spec => []UnknownSendIsDurable
<1>1. SendInv => UnknownSendIsDurable
  BY DEF SendInv
<1> QED BY <1>1, SendInvariant, PTL

\* The button is clicked for a key only while no earlier click of that key is unexplained.
THEOREM NoPromptIsSentTwice == Spec => NoBlindResend
<1> DEFINE Careful == \A k \in Key : outstanding'[k] \ outstanding[k] # {} => outstanding[k] = {}
<1>1. ASSUME TypeInv, JournalInv, SendInv, Next
      PROVE  Careful
  <2>0. outstanding \in [Key -> SUBSET Epoch]
    BY <1>1 DEF TypeInv, TypeOK
  <2>1. ASSUME NEW k \in Key, ClickSend(k)
        PROVE  Careful
    <3>1. outstanding[k] = {}
      BY <1>1, <2>1 DEF ClickSend, SendInv
    <3>2. \A j \in Key \ {k} : outstanding'[j] = outstanding[j]
      BY <2>0, <2>1 DEF ClickSend
    <3> QED BY <3>1, <3>2
  <2>2. CASE outstanding' = outstanding
    BY <2>2
  <2>3. CASE \E k \in Key : outstanding' = [outstanding EXCEPT ![k] = {}]
    BY <2>0, <2>3
  <2>4. CASE \E k \in Key, e \in Epoch : outstanding' = [outstanding EXCEPT ![k] = @ \ {e}]
    BY <2>0, <2>4
  <2>5. ASSUME NEW k \in Key, NEW r, NEW v, CommitRecord(r, k, v)
        PROVE  Careful
    <3>1. outstanding' = outstanding \/ outstanding' = [outstanding EXCEPT ![k] = {}]
      BY <2>5 DEF CommitRecord
    <3> QED BY <2>2, <2>3, <3>1
  <2>6. ASSUME NEW k \in Key, Publish(k) PROVE Careful
    BY <2>2, <2>5, <2>6 DEF Publish
  <2>7. ASSUME NEW k \in Key, NEW source \in Key, PreserveFinal(source, k) PROVE Careful
    BY <2>2, <2>5, <2>7 DEF PreserveFinal
  <2>8. ASSUME NEW k \in Key, AcceptHandoff(k) PROVE Careful
    <3>1. session[k].epoch \in Epoch
      BY <1>1, <2>8 DEF AcceptHandoff, TypeInv, SessionsKnow
    <3> QED BY <2>2, <2>4, <2>8, <3>1 DEF AcceptHandoff
  <2>9. ASSUME NEW k \in Key,
               \/ AuthorizeSend(k) \/ SendRefused(k) \/ Retire(k) \/ AgeStep(k)
               \/ \E e \in Epoch : Request(k, e)
               \/ \E v \in Answer : BrowserAnswers(k, v)
        PROVE  Careful
    BY <2>2, <2>9 DEF AuthorizeSend, SendRefused, Retire, AgeStep, Request, BrowserAnswers
  <2>10. CASE Crash \/ Restart
    BY <2>2, <2>10 DEF Crash, Restart
  <2> QED BY <1>1, <2>1, <2>6, <2>7, <2>8, <2>9, <2>10 DEF Next
<1>2. TypeInv /\ JournalInv /\ SendInv /\ [Next]_vars => [Careful]_vars
  BY <1>1
<1> QED BY <1>2, SendInvariant, PTL DEF Spec, NoBlindResend

-----------------------------------------------------------------------------
(* Answers *)

\* The answers a snapshot loses or keeps, by key.
AnswersKept == \A k \in Key : disk'.records[k].answer \in {None, disk.records[k].answer}

AnswerStep(k) ==
    LET old == disk.records[k]  new == disk'.records[k] IN
    /\ emitted'[k] # emitted[k] /\ session[k].at = "final" => new.answer = emitted'[k]
    /\ old.answer # None /\ new.answer \notin {None, old.answer} => old.age = "expired"

\* A committed result replaces an answer only where none was live.
LEMMA CommitRecordAnswers ==
  ASSUME TypeInv, JournalInv, up, NEW k \in Key, NEW v \in Answer,
         CommitRecord(Live(records), k, v)
  PROVE  /\ Live(records)[k].answer = None => disk'.records[k].answer = v
         /\ \A j \in Key : disk.records[j].answer # None
                           /\ disk'.records[j].answer \notin {None, disk.records[j].answer}
                               => disk.records[j].age = "expired"
<1> DEFINE r == Live(records)
<1>0. /\ records \in [Key -> Record] /\ disk.records \in [Key -> Record]
      /\ \A j \in Key : disk.records[j].age \in {"fresh", "expired"}
  <2>1. records \in [Key -> Record] /\ disk.records \in [Key -> Record]
    BY DEF TypeInv, TypeOK
  <2> QED BY <2>1 DEF Record
<1>r. /\ r \in [Key -> Record] /\ \A j \in Key : r[j].age = "fresh"
      /\ \A j \in Key : r[j] = IF records[j].age = "expired" THEN NoRecord ELSE records[j]
  BY <1>0, LiveFacts
<1>1. PICK after \in WithRecord(r, k, v) : disk'.records = after
  BY DEF CommitRecord, Commit, Snapshot
<1> HIDE DEF r
<1>2. /\ r[k].answer # None => after = r
      /\ r[k].answer = None => /\ after[k] = [answer |-> v, age |-> "fresh"]
                               /\ \A j \in Key \ {k} : after[j] \in {r[j], NoRecord}
  BY <1>r, <1>1, WithRecordFacts
<1>3. \A j \in Key : r[j].answer \in {None, disk.records[j].answer}
  BY <1>r DEF JournalInv, MemoryTracksDisk, NoRecord
<1>4. \A j \in Key : disk.records[j].answer # None /\ disk.records[j].age = "fresh"
                        => r[j] = disk.records[j]
  BY <1>r DEF JournalInv, MemoryTracksDisk
<1>5. r[k].answer = None => disk'.records[k].answer = v
  BY <1>1, <1>2
<1>6. ASSUME NEW j \in Key, disk.records[j].answer # None, disk.records[j].age # "expired"
      PROVE  disk'.records[j].answer \in {None, disk.records[j].answer}
  <2>1. r[j] = disk.records[j]
    BY <1>0, <1>4, <1>6
  <2> QED BY <1>1, <1>2, <1>6, <2>1 DEF NoRecord
<1> QED BY <1>5, <1>6 DEF r

\* No step gives out an answer that is not on disk, or replaces one that is live there.
LEMMA AnswerSteps ==
  ASSUME TypeInv, JournalInv, SendInv, Next, NEW a \in Key
  PROVE  AnswerStep(a)
<1>0. /\ disk.records \in [Key -> Record] /\ emitted \in [Key -> Answer \cup {None}]
      /\ session \in [Key -> Session]
  BY DEF TypeInv, TypeOK
<1>1. ASSUME AnswersKept, emitted' = emitted
      PROVE  AnswerStep(a)
  BY <1>1 DEF AnswersKept, AnswerStep
<1>2. ASSUME disk' = disk, emitted' = emitted
      PROVE  AnswerStep(a)
  BY <1>1, <1>2 DEF AnswersKept
<1>3. ASSUME disk'.records = records, emitted' = emitted
      PROVE  AnswerStep(a)
  BY <1>1, <1>3 DEF AnswersKept, JournalInv, MemoryTracksDisk
<1>4. ASSUME NEW k \in Key, Publish(k)
      PROVE  AnswerStep(a)
  <2> DEFINE v == session[k].answer
             w == Live(records)[k].answer
  <2>1. /\ up
        /\ \/ session[k].at = "replayed" /\ emitted' = [emitted EXCEPT ![k] = v] /\ disk' = disk
           \/ /\ session[k].at = "final" /\ w = v
              /\ emitted' = [emitted EXCEPT ![k] = v] /\ disk' = disk
           \/ /\ session[k].at = "final" /\ w # v
              /\ CommitRecord(Live(records), k, v)
              /\ emitted' = IF w = None THEN [emitted EXCEPT ![k] = v] ELSE emitted
           \/ disk' = disk /\ emitted' = emitted
    BY <1>4, FetchedIsLive DEF Publish
  <2>2. CASE session[k].at = "replayed" /\ emitted' = [emitted EXCEPT ![k] = v] /\ disk' = disk
    BY <1>0, <2>2 DEF AnswerStep
  <2>3. CASE /\ session[k].at = "final" /\ w = v
             /\ emitted' = [emitted EXCEPT ![k] = v] /\ disk' = disk
    <3>1. v # None
      BY <2>3, JournalConstants DEF TypeInv, SessionsKnow
    <3>2. disk.records[k].answer = v
      <4>1. w = IF records[k].age = "expired" THEN None ELSE records[k].answer
        BY LiveFacts DEF TypeInv, TypeOK, NoRecord
      <4>2. records[k].answer = v
        BY <2>3, <3>1, <4>1
      <4> QED BY <3>1, <4>2 DEF JournalInv, MemoryTracksDisk
    <3> QED BY <1>0, <2>3, <3>2 DEF AnswerStep
  <2>4. CASE /\ session[k].at = "final" /\ w # v
             /\ CommitRecord(Live(records), k, v)
             /\ emitted' = IF w = None THEN [emitted EXCEPT ![k] = v] ELSE emitted
    <3>1. v \in Answer
      BY <2>4 DEF TypeInv, SessionsKnow
    <3>2. /\ w = None => disk'.records[k].answer = v
          /\ \A j \in Key : disk.records[j].answer # None
                            /\ disk'.records[j].answer \notin {None, disk.records[j].answer}
                                => disk.records[j].age = "expired"
      BY <2>1, <2>4, <3>1, CommitRecordAnswers
    <3> QED BY <1>0, <2>4, <3>2 DEF AnswerStep
  <2>5. CASE disk' = disk /\ emitted' = emitted
    BY <1>2, <2>5
  <2> QED BY <2>1, <2>2, <2>3, <2>4, <2>5
<1>5. ASSUME NEW k \in Key, NEW source \in Key, PreserveFinal(source, k)
      PROVE  AnswerStep(a)
  <2>1. CASE CommitRecord(Live(records), k, session[source].answer)
    <3>1. session[source].answer \in Answer /\ up /\ emitted' = emitted
      BY <1>5 DEF PreserveFinal, TypeInv, SessionsKnow
    <3>2. \A j \in Key : disk.records[j].answer # None
                         /\ disk'.records[j].answer \notin {None, disk.records[j].answer}
                             => disk.records[j].age = "expired"
      BY <2>1, <3>1, CommitRecordAnswers
    <3> QED BY <3>1, <3>2 DEF AnswerStep
  <2> QED BY <1>2, <1>5, <2>1 DEF PreserveFinal
<1>6. ASSUME NEW k \in Key, AuthorizeSend(k) \/ AcceptHandoff(k)
      PROVE  AnswerStep(a)
  BY <1>2, <1>3, <1>6 DEF AuthorizeSend, AcceptHandoff, Commit, Snapshot
<1>7. ASSUME NEW k \in Key, AgeStep(k)
      PROVE  AnswerStep(a)
  <2>1. disk' = [disk EXCEPT !.records = [disk.records EXCEPT ![k] =
                   [disk.records[k] EXCEPT !.age = "expired"]]]
    BY <1>7 DEF AgeStep, Age
  <2>2. disk'.records = [disk.records EXCEPT ![k] = [disk.records[k] EXCEPT !.age = "expired"]]
    BY <2>1 DEF TypeInv, TypeOK
  <2>3. [disk.records[k] EXCEPT !.age = "expired"].answer = disk.records[k].answer
    BY <1>0 DEF Record
  <2>4. AnswersKept
    BY <1>0, <2>2, <2>3 DEF AnswersKept
  <2> QED BY <1>1, <1>7, <2>4 DEF AgeStep
<1>8. ASSUME NEW k \in Key,
             \/ SendRefused(k) \/ ClickSend(k) \/ Retire(k)
             \/ \E e \in Epoch : Request(k, e)
             \/ \E v \in Answer : BrowserAnswers(k, v)
      PROVE  AnswerStep(a)
  BY <1>2, <1>8 DEF SendRefused, ClickSend, Retire, Request, BrowserAnswers
<1>9. CASE Crash \/ Restart
  BY <1>2, <1>9 DEF Crash, Restart
<1> QED BY <1>4, <1>5, <1>6, <1>7, <1>8, <1>9 DEF Next

\* Codex is given a fresh answer only when it is on disk, and a live answer on disk is never
\* replaced by a different one.
THEOREM AnswersAreStable == Spec => AnswersDurableAndStable
<1>1. TypeInv /\ JournalInv /\ SendInv /\ [Next]_vars => [\A k \in Key : AnswerStep(k)]_vars
  BY AnswerSteps
<1>2. (\A k \in Key : AnswerStep(k)) <=>
        \A k \in Key :
          LET old == disk.records[k]  new == disk'.records[k] IN
          /\ emitted'[k] # emitted[k] /\ session[k].at = "final" => new.answer = emitted'[k]
          /\ old.answer # None /\ new.answer \notin {None, old.answer} => old.age = "expired"
  BY Zenon DEF AnswerStep
<1> QED BY <1>1, <1>2, SendInvariant, PTL DEF Spec, AnswersDurableAndStable

=============================================================================
