-------------------------- MODULE TurnSessionsProofs --------------------------
(***************************************************************************)
(* Safety of TurnSessions for every set of executions, native threads,     *)
(* conversations, requests and surfaces: what an interrupt reaches, when a *)
(* response may start, and that the fresh turns of a thread take turns.    *)
(***************************************************************************)
EXTENDS TurnSessions, TLAPS

-----------------------------------------------------------------------------
(* Surfaces *)

\* What every step but a start and an end leaves of a surface: its identity and phase; no
\* cancellation is taken back, and it is not attached again.
Steady(x, y) ==
    /\ y \in Surface
    /\ y.kind = x.kind /\ y.key = x.key /\ y.phase = x.phase
    /\ y.attached => x.attached
    /\ x.phase = "running" /\ x.cancelled => y.cancelled
    /\ y.phase = "running" => y.cancelled \/ y.outcome = x.outcome

AllSteady ==
    /\ surface' \in [Session -> Surface]
    /\ \A s \in Session : Steady(surface[s], surface'[s])

LEMMA SteadySame == ASSUME NEW x \in Surface PROVE Steady(x, x)
BY DEF Steady, Surface

\* cancel() on a surface.
LEMMA CancelledFacts ==
  ASSUME NEW x \in Surface, NEW reason \in BOOLEAN
  PROVE  /\ Steady(x, Cancelled(x, reason))
         /\ x.phase = "running" => Cancelled(x, reason).cancelled
         /\ Cancelled(x, reason).attached = x.attached
BY DEF Cancelled, Steady, Surface

LEMMA CancelledTwice ==
  ASSUME NEW x \in Surface, NEW y \in Surface, Steady(x, y), NEW reason \in BOOLEAN
  PROVE  Steady(x, Cancelled(y, reason)) /\ (x.phase = "running" => Cancelled(y, reason).cancelled)
BY CancelledFacts DEF Steady

LEMMA StartedFacts ==
  ASSUME NEW kind \in {"response", "handoff", "fresh"}, NEW k \in Key
  PROVE  /\ Started(kind, k) \in Surface
         /\ Started(kind, k).kind = kind /\ Started(kind, k).key = k
         /\ Started(kind, k).phase = "running" /\ Started(kind, k).outcome = "pending"
         /\ Started(kind, k).attached <=> kind = "response"
<1> DEFINE attached == kind = "response"
           started == [kind |-> kind, key |-> k, phase |-> "running", outcome |-> "pending",
                       cancelled |-> FALSE, attached |-> attached, superseded |-> FALSE]
<1>1. Started(kind, k) = started
  BY DEF Started
<1>2. attached \in BOOLEAN
  OBVIOUS
<1> HIDE DEF attached
<1>3. started \in Surface
  BY <1>2 DEF Surface
<1>4. /\ started.kind = kind /\ started.key = k /\ started.phase = "running"
      /\ started.outcome = "pending" /\ started.attached = attached
  OBVIOUS
<1> QED BY <1>1, <1>3, <1>4 DEF attached

\* One surface is cancelled, or all of a set.
LEMMA CancelOne ==
  ASSUME TypeOK, NEW s \in Session \union {None}, NEW reason \in BOOLEAN,
         surface' = [surface EXCEPT ![s] = Cancelled(@, reason)]
  PROVE  AllSteady /\ (s \in Session /\ Running(s) => surface'[s].cancelled)
<1>1. \A p \in Session : surface[p] \in Surface
  BY DEF TypeOK
<1>2. /\ s \in Session => surface'[s] = Cancelled(surface[s], reason)
      /\ \A p \in Session \ {s} : surface'[p] = surface[p]
      /\ surface' = [p \in Session |-> surface'[p]]
  BY DEF TypeOK
<1>3. \A p \in Session : Steady(surface[p], surface'[p])
  BY <1>1, <1>2, SteadySame, CancelledFacts
<1>4. surface' \in [Session -> Surface]
  BY <1>2, <1>3 DEF Steady
<1> QED BY <1>1, <1>2, <1>3, <1>4, CancelledFacts DEF AllSteady, Running

LEMMA CancelMany ==
  ASSUME TypeOK, NEW S, NEW reason \in BOOLEAN
  PROVE  \A p \in Session :
            /\ Steady(surface[p], CancelledAll(S, reason)[p])
            /\ p \in S /\ Running(p) => CancelledAll(S, reason)[p].cancelled
<1>1. \A p \in Session : surface[p] \in Surface
  BY DEF TypeOK
<1>2. \A p \in Session : CancelledAll(S, reason)[p]
                            = IF p \in S THEN Cancelled(surface[p], reason) ELSE surface[p]
  BY DEF CancelledAll
<1> QED BY <1>1, <1>2, SteadySame, CancelledFacts DEF Running

\* The abort signal of some runs cancels what they drive.
LEMMA AbortDrivenFacts ==
  ASSUME TypeOK, NEW K, NEW surfaces,
         \A p \in Session : Steady(surface[p], surfaces[p])
  PROVE  \A p \in Session :
            /\ Steady(surface[p], AbortDriven(K, surfaces)[p])
            /\ surfaces[p].cancelled => (Running(p) => AbortDriven(K, surfaces)[p].cancelled)
            /\ Running(p) /\ (\E k \in K : Ongoing(k) /\ p \in Driven(k))
                  => AbortDriven(K, surfaces)[p].cancelled
<1>1. \A p \in Session : surface[p] \in Surface /\ surfaces[p] \in Surface
  BY DEF TypeOK, Steady
<1> SUFFICES ASSUME NEW p \in Session
             PROVE  /\ Steady(surface[p], AbortDriven(K, surfaces)[p])
                    /\ surfaces[p].cancelled => (Running(p) => AbortDriven(K, surfaces)[p].cancelled)
                    /\ Running(p) /\ (\E k \in K : Ongoing(k) /\ p \in Driven(k))
                          => AbortDriven(K, surfaces)[p].cancelled
  OBVIOUS
<1>2. CASE \E k \in K : Ongoing(k) /\ p \in Driven(k)
  <2> DEFINE reason == surfaces[p].kind = "fresh"
  <2>1. AbortDriven(K, surfaces)[p] = Cancelled(surfaces[p], reason)
    BY <1>2 DEF AbortDriven
  <2>2. reason \in BOOLEAN
    OBVIOUS
  <2> QED BY <1>1, <2>1, <2>2, CancelledTwice DEF Running
<1>3. CASE ~\E k \in K : Ongoing(k) /\ p \in Driven(k)
  <2>1. AbortDriven(K, surfaces)[p] = surfaces[p]
    BY <1>3 DEF AbortDriven
  <2> QED BY <2>1, <1>3
<1> QED BY <1>2, <1>3

-----------------------------------------------------------------------------
(* The registry *)

\* What retirements hold: a key's is a surface that is not released, taken from its entry.
LEMMA BeginRetirementFacts ==
  ASSUME TypeOK, NEW S \in SUBSET Session, BeginRetirement(S),
         \A s \in S : surface[s].key \in Key
  PROVE  /\ keyRetirement' \in [Key -> Session \union {None}]
         /\ ownerRetirement' \in [Owner -> SUBSET Session]
         /\ convRetirement' \in [Conv -> SUBSET Session]
         /\ \A k \in Key :
               \/ keyRetirement'[k] = keyRetirement[k]
               \/ /\ keyRetirement[k] = None /\ keyRetirement'[k] \in S
                  /\ surface[keyRetirement'[k]].key = k /\ ~Released(keyRetirement'[k])
         /\ \A s \in Session, o \in Owner :
               \/ s \in ownerRetirement[o]
               \/ /\ s \in S /\ OwnerOf[surface[s].key] = o /\ ~Released(s)
                  /\ keyRetirement[surface[s].key] = None
               => s \in ownerRetirement'[o]
<1> DEFINE held == {s \in Retirable(S) : ~Released(s)}
           Taken(k) == \E s \in held : surface[s].key = k
           Pick(k) == CHOOSE s \in held : surface[s].key = k
<1>1. \A k \in Key : keyRetirement'[k] = IF Taken(k) THEN Pick(k) ELSE keyRetirement[k]
  BY DEF BeginRetirement
<1>2. \A k \in Key : Taken(k) => Pick(k) \in held /\ surface[Pick(k)].key = k
  OBVIOUS
<1>3. held \subseteq S /\ \A s \in held : ~Released(s) /\ keyRetirement[surface[s].key] = None
  BY DEF Retirable
<1>4. keyRetirement' \in [Key -> Session \union {None}]
  <2>1. DOMAIN keyRetirement' = Key /\ keyRetirement' = [k \in Key |-> keyRetirement'[k]]
    BY DEF BeginRetirement
  <2>2. \A k \in Key : keyRetirement'[k] \in Session \union {None}
    BY <1>1, <1>2, <1>3 DEF TypeOK
  <2> QED BY <2>1, <2>2
<1>5. \A o \in Owner : ownerRetirement'[o]
                          = ownerRetirement[o] \union {s \in held : OwnerOf[surface[s].key] = o}
  BY DEF BeginRetirement
<1>6. ownerRetirement' \in [Owner -> SUBSET Session]
  BY <1>3 DEF BeginRetirement, TypeOK
<1>7. convRetirement' \in [Conv -> SUBSET Session]
  BY <1>3 DEF BeginRetirement, Pending, TypeOK
<1>8. \A k \in Key :
         \/ keyRetirement'[k] = keyRetirement[k]
         \/ /\ keyRetirement[k] = None /\ keyRetirement'[k] \in S
            /\ surface[keyRetirement'[k]].key = k /\ ~Released(keyRetirement'[k])
  <2> SUFFICES ASSUME NEW k \in Key, Taken(k)
               PROVE  /\ keyRetirement[k] = None /\ keyRetirement'[k] \in S
                      /\ surface[keyRetirement'[k]].key = k /\ ~Released(keyRetirement'[k])
    BY <1>1
  <2>1. keyRetirement'[k] = Pick(k) /\ Pick(k) \in held /\ surface[Pick(k)].key = k
    BY <1>1, <1>2
  <2> HIDE DEF held, Pick
  <2> QED BY <2>1, <1>3
<1>9. \A s \in Session, o \in Owner :
         \/ s \in ownerRetirement[o]
         \/ /\ s \in S /\ OwnerOf[surface[s].key] = o /\ ~Released(s)
            /\ keyRetirement[surface[s].key] = None
         => s \in ownerRetirement'[o]
  BY <1>5 DEF Retirable
<1> QED BY <1>4, <1>6, <1>7, <1>8, <1>9

LEMMA WithoutTypes ==
  ASSUME TypeOK, NEW S
  PROVE  /\ EntriesWithout(S) \in [Key -> Session \union {None}]
         /\ HeadsWithout(S) \in [Conv -> Session \union {None}]
BY DEF EntriesWithout, HeadsWithout, TypeOK

\* Entries and surfaces being retired belong to their executions.
LEMMA RegisteredFacts ==
  ASSUME TypeOK, RegistrySound, NEW s \in Registered
  PROVE  /\ s \in Session /\ surface[s].kind = "response" /\ surface[s].key \in Key
         /\ entries[surface[s].key] = s
BY DEF TypeOK, RegistrySound, Registered

-----------------------------------------------------------------------------
(* Blocks of the compactions' steps *)

\* The run of k moves to a place; what it drives may be another surface.
Moves(k, place, surf) ==
    /\ run'[k] \in Run /\ run' = [run EXCEPT ![k] = run'[k]]
    /\ run'[k].pc = place /\ run'[k].surf = surf
    /\ run'[k].prev = run[k].prev /\ run'[k].aborted = run[k].aborted

LEMMA SomeMoves ==
  ASSUME TypeOK, NEW k \in CompactKey, NEW place \in Place
  PROVE  /\ Goes(k, place) => Moves(k, place, run[k].surf)
         /\ Fails(k) => Moves(k, "winding", run[k].surf)
BY DEF TypeOK, Run, Place, Goes, Fails, Moves

LEMMA MovesBy ==
  ASSUME TypeOK, NEW k \in CompactKey, NEW r \in Run, run' = [run EXCEPT ![k] = r],
         r.prev = run[k].prev, r.aborted = run[k].aborted
  PROVE  Moves(k, r.pc, r.surf)
BY DEF TypeOK, Moves

\* The compaction of k drives a new surface, or fails and leaves it aborted.
Starts(k, s, kind) ==
    /\ s \in Unused
    /\ surface'[s] \in Surface /\ surface' = [surface EXCEPT ![s] = surface'[s]]
    /\ surface'[s].kind = kind /\ surface'[s].key = k /\ Running(s)' /\ ~surface'[s].attached
    /\ \/ Active(s)' /\ ~run[k].aborted /\ Moves(k, kind, s)
       \/ surface'[s].cancelled /\ kind = "fresh" /\ Moves(k, "winding", run[k].surf)

LEMMA StartFreshMoves ==
  ASSUME TypeOK, NEW k \in CompactKey, StartFresh(k)
  PROVE  \/ Moves(k, "winding", run[k].surf) /\ UNCHANGED surface
         \/ \E s \in Session : Starts(k, s, "fresh")
<1>1. CASE Fails(k) /\ UNCHANGED surface
  BY <1>1, SomeMoves DEF Place
<1>2. ASSUME NEW s \in Unused,
             IF run[k].aborted THEN Fails(k)
             ELSE run' = [run EXCEPT ![k].pc = "fresh", ![k].surf = s],
             surface' = [surface EXCEPT ![s] =
                IF run[k].aborted THEN Cancelled(Started("fresh", k), TRUE)
                ELSE Started("fresh", k)]
      PROVE  Starts(k, s, "fresh")
  <2> DEFINE x == Started("fresh", k)
  <2>1. k \in Key /\ s \in Session
    BY SessionsAssumption DEF Unused
  <2>2. x \in Surface /\ x.kind = "fresh" /\ x.key = k /\ x.phase = "running"
        /\ x.outcome = "pending" /\ ~x.attached
    BY <2>1, StartedFacts
  <2>3. Steady(x, Cancelled(x, TRUE)) /\ Cancelled(x, TRUE).cancelled
    BY <2>2, CancelledFacts
  <2> HIDE DEF x
  <2>4. surface'[s] = (IF run[k].aborted THEN Cancelled(x, TRUE) ELSE x)
        /\ surface' = [surface EXCEPT ![s] = surface'[s]]
    BY <1>2, <2>1 DEF TypeOK, x
  <2>5. CASE run[k].aborted
    <3>1. Moves(k, "winding", run[k].surf)
      BY <1>2, <2>5, SomeMoves DEF Place
    <3> QED BY <2>2, <2>3, <2>4, <2>5, <3>1 DEF Starts, Steady, Running
  <2>6. CASE ~run[k].aborted
    <3>1. Moves(k, "fresh", s)
      BY <1>2, <2>1, <2>6 DEF Moves, TypeOK, Run, Place
    <3> QED BY <2>2, <2>4, <2>6, <3>1 DEF Starts, Running, Active
  <2> QED BY <2>5, <2>6
<1> QED BY <1>1, <1>2 DEF StartFresh, Unused

LEMMA StartHandoffMoves ==
  ASSUME TypeOK, NEW k \in CompactKey, NEW source \in Session \union {None}, NEW preserve \in BOOLEAN,
         StartHandoff(k, source, preserve), ~run[k].aborted
  PROVE  \/ Moves(k, "unwinding", run[k].surf) /\ UNCHANGED surface
         \/ \E s \in Session : Starts(k, s, "handoff")
<1>1. CASE /\ run' = [run EXCEPT ![k].pc = "unwinding", ![k].source = source,
                                 ![k].preserve = preserve]
           /\ UNCHANGED surface
  <2> DEFINE r == [run[k] EXCEPT !.pc = "unwinding", !.source = source, !.preserve = preserve]
  <2>1. run[k] \in Run
    BY DEF TypeOK
  <2>2. r \in Run /\ r.prev = run[k].prev /\ r.aborted = run[k].aborted
        /\ r.pc = "unwinding" /\ r.surf = run[k].surf
    BY <2>1 DEF Run, Place
  <2>3. run' = [run EXCEPT ![k] = r]
    BY <1>1
  <2> HIDE DEF r
  <2> QED BY <1>1, <2>2, <2>3, MovesBy
<1>2. ASSUME NEW s \in Unused,
             run' = [run EXCEPT ![k].pc = "handoff", ![k].source = source,
                                ![k].preserve = preserve, ![k].surf = s],
             surface' = [surface EXCEPT ![s] = Started("handoff", k)]
      PROVE  Starts(k, s, "handoff")
  <2> DEFINE x == Started("handoff", k)
  <2>1. k \in Key /\ s \in Session
    BY SessionsAssumption DEF Unused
  <2>2. x \in Surface /\ x.kind = "handoff" /\ x.key = k /\ x.phase = "running"
        /\ x.outcome = "pending" /\ ~x.attached
    BY <2>1, StartedFacts
  <2> HIDE DEF x
  <2>3. surface'[s] = x /\ surface' = [surface EXCEPT ![s] = surface'[s]]
    BY <1>2, <2>1 DEF TypeOK, x
  <2> DEFINE r == [run[k] EXCEPT !.pc = "handoff", !.source = source, !.preserve = preserve,
                                 !.surf = s]
  <2>5. run[k] \in Run
    BY DEF TypeOK
  <2>6. r \in Run /\ r.prev = run[k].prev /\ r.aborted = run[k].aborted
        /\ r.pc = "handoff" /\ r.surf = s
    BY <2>1, <2>5 DEF Run, Place
  <2>7. run' = [run EXCEPT ![k] = r]
    BY <1>2
  <2> HIDE DEF r
  <2>4. Moves(k, "handoff", s)
    BY <2>6, <2>7, MovesBy
  <2> QED BY <2>2, <2>3, <2>4 DEF Starts, Running, Active
<1> QED BY <1>1, <1>2 DEF StartHandoff, Unused

\* Closing a conversation takes its entries out of the registry, detaches their surfaces and
\* cancels those that still work, or leaves everything to a retirement under way.
Closes ==
    /\ AllSteady
    /\ entries' \in [Key -> Session \union {None}] /\ heads' \in [Conv -> Session \union {None}]
    /\ convRetirement' \in [Conv -> SUBSET Session]
    /\ UNCHANGED <<keyRetirement, ownerRetirement>>
    /\ \A q \in Key : entries'[q] # entries[q] =>
          /\ entries'[q] = None
          /\ ~surface'[entries[q]].attached
          /\ Active(entries[q]) /\ Running(entries[q]) => surface'[entries[q]].cancelled

LEMMA CloseConversationFacts ==
  ASSUME TypeOK, RegistrySound, NEW k \in CompactKey, NEW place \in Place,
         NEW next \in {"fail", "fresh"}, CloseConversation(k, place, next)
  PROVE  Moves(k, place, run[k].surf) /\ Closes
<1> DEFINE c == ConvOf[k]
           matches == Attached(c)
           kept(s) == run[k].preserve /\ s = run[k].source /\ surface[s].key = k
<1>1. c \in Conv
  BY SessionsAssumption
<1>2. matches \subseteq Session /\ matches \subseteq Registered
  BY RegisteredFacts DEF Attached
<1>3. CASE /\ run' = [run EXCEPT ![k].pc = place, ![k].on = convRetirement[c],
                        ![k].next = IF convRetirement[c] = {} /\ matches # {}
                                    THEN "fail" ELSE next]
           /\ UNCHANGED <<surface, registry>>
  <2> DEFINE fails == IF convRetirement[c] = {} /\ matches # {} THEN "fail" ELSE next
             r == [run[k] EXCEPT !.pc = place, !.on = convRetirement[c], !.next = fails]
  <2>3. run[k] \in Run /\ convRetirement[c] \in SUBSET Session /\ fails \in {"fail", "fresh"}
    BY <1>1 DEF TypeOK
  <2>4. run' = [run EXCEPT ![k] = r]
    BY <1>3
  <2> HIDE DEF fails
  <2>5. r \in Run /\ r.prev = run[k].prev /\ r.aborted = run[k].aborted
        /\ r.pc = place /\ r.surf = run[k].surf
    BY <2>3 DEF Run
  <2> HIDE DEF r
  <2>1. Moves(k, place, run[k].surf)
    BY <2>4, <2>5, MovesBy
  <2>2. AllSteady
    BY <1>3, SteadySame DEF AllSteady, TypeOK
  <2> QED BY <1>3, <2>1, <2>2 DEF Closes, registry, TypeOK
<1>4. CASE /\ run' = [run EXCEPT ![k].pc = place, ![k].next = next, ![k].on = matches]
           /\ surface' = [s \in Session |->
                IF s \notin matches THEN surface[s]
                ELSE [(IF Active(s) THEN Cancelled(surface[s], FALSE) ELSE surface[s])
                        EXCEPT !.attached = FALSE]]
           /\ entries' = EntriesWithout({s \in matches : ~kept(s)})
           /\ heads' = [heads EXCEPT ![c] = None]
           /\ convRetirement' = [convRetirement EXCEPT ![c] = Pending(matches)]
           /\ UNCHANGED <<keyRetirement, ownerRetirement>>
  <2> DEFINE r == [run[k] EXCEPT !.pc = place, !.next = next, !.on = matches]
  <2>7. run[k] \in Run /\ matches \in SUBSET Session
    BY <1>2 DEF TypeOK
  <2>8. run' = [run EXCEPT ![k] = r]
    BY <1>4
  <2> HIDE DEF matches
  <2>9. r \in Run /\ r.prev = run[k].prev /\ r.aborted = run[k].aborted
        /\ r.pc = place /\ r.surf = run[k].surf
    BY <2>7 DEF Run
  <2> USE DEF matches
  <2> HIDE DEF r
  <2>1. Moves(k, place, run[k].surf)
    BY <2>8, <2>9, MovesBy
  <2>2. \A s \in matches : /\ Steady(surface[s], surface'[s]) /\ ~surface'[s].attached
                           /\ Active(s) /\ Running(s) => surface'[s].cancelled
    <3> SUFFICES ASSUME NEW s \in matches
                 PROVE  /\ Steady(surface[s], surface'[s]) /\ ~surface'[s].attached
                        /\ Active(s) /\ Running(s) => surface'[s].cancelled
      OBVIOUS
    <3> DEFINE x == IF Active(s) THEN Cancelled(surface[s], FALSE) ELSE surface[s]
    <3>1. s \in Session /\ surface[s] \in Surface
      BY <1>2 DEF TypeOK
    <3>2. Steady(surface[s], x) /\ (Active(s) /\ Running(s) => x.cancelled)
      BY <3>1, SteadySame, CancelledFacts DEF Running
    <3>3. surface'[s] = [x EXCEPT !.attached = FALSE]
      BY <1>4, <3>1
    <3> HIDE DEF x
    <3> QED BY <3>2, <3>3 DEF Steady, Surface
  <2>3. AllSteady
    <3>1. \A s \in Session : Steady(surface[s], surface'[s])
      BY <1>4, <2>2, SteadySame DEF TypeOK
    <3>2. surface' = [s \in Session |-> surface'[s]]
      BY <1>4
    <3> QED BY <3>1, <3>2 DEF AllSteady, Steady
  <2>4. /\ entries' \in [Key -> Session \union {None}]
        /\ heads' \in [Conv -> Session \union {None}]
    BY <1>1, <1>4, WithoutTypes DEF TypeOK
  <2>5. convRetirement' \in [Conv -> SUBSET Session]
    BY <1>1, <1>2, <1>4 DEF TypeOK, Pending
  <2>6. \A q \in Key : entries'[q] # entries[q] => entries'[q] = None /\ entries[q] \in matches
    BY <1>4 DEF EntriesWithout
  <2> QED BY <1>4, <2>1, <2>2, <2>3, <2>4, <2>5, <2>6 DEF Closes
<1> QED BY <1>3, <1>4 DEF CloseConversation

LEMMA ClosesNothing == ASSUME TypeOK, UNCHANGED <<surface, registry>> PROVE Closes
<1>1. AllSteady
  BY SteadySame DEF AllSteady, TypeOK
<1> QED BY <1>1 DEF Closes, registry, TypeOK

LEMMA GivesUpFacts ==
  ASSUME TypeOK, RegistrySound, NEW k \in CompactKey, NEW next \in {"fail", "fresh"},
         GivesUp(k, next)
  PROVE  /\ Closes
         /\ Moves(k, "retiring", run[k].surf) \/ Moves(k, "winding", run[k].surf)
<1>1. CASE CloseConversation(k, "retiring", next)
  BY <1>1, CloseConversationFacts DEF Place
<1>2. CASE Fails(k) /\ UNCHANGED <<surface, registry>>
  <2>1. Moves(k, "winding", run[k].surf)
    BY <1>2, SomeMoves DEF Place
  <2>2. Closes
    BY <1>2, ClosesNothing
  <2> QED BY <2>1, <2>2
<1> QED BY <1>1, <1>2 DEF GivesUp

-----------------------------------------------------------------------------
(* How the invariant is kept *)

Inv == TypeOK /\ SessionsInv /\ FreshOwned /\ ThreadsQueue

\* Steady surfaces stay sound, and what was interrupted stays cancelled.
LEMMA SteadySound ==
  ASSUME TypeOK, SurfacesSound, AllSteady
  PROVE  SurfacesSound' /\ surface' \in [Session -> Surface]
BY DEF SurfacesSound, AllSteady, Steady, Running, Active, TypeOK, Surface

\* The queue of a thread does not change unless a run begins or ends.
LEMMA QueueSame ==
  ASSUME TypeOK, ThreadsQueue, gate' = gate,
         \A q \in CompactKey : (Ongoing(q)' <=> Ongoing(q)) /\ run'[q].prev = run[q].prev
  PROVE  ThreadsQueue'
<1>1. {q \in CompactKey : Ongoing(q)'} = {q \in CompactKey : Ongoing(q)}
  OBVIOUS
<1>2. \A K \in SUBSET {q \in CompactKey : Ongoing(q)'} :
         K # {} => \E q \in K : run'[q].prev \notin K
  BY <1>1 DEF ThreadsQueue
<1>3. \A q \in CompactKey : run[q].prev \in CompactKey \union {None}
  BY DEF TypeOK, Run
<1>4. \A q \in CompactKey : Ongoing(q)' /\ run'[q].prev # None =>
         LET p == run[q].prev IN
         p = run'[q].prev /\ p \in CompactKey /\ Ongoing(p)' /\ OwnerOf[p] = OwnerOf[q]
  BY <1>3 DEF ThreadsQueue
<1>5. \A o \in Owner :
         /\ gate'[o] # None => Ongoing(gate[o])' /\ OwnerOf[gate'[o]] = o
         /\ \A q \in CompactKey : Ongoing(q)' /\ OwnerOf[q] = o =>
               gate'[o] # None /\ run'[q].prev # gate'[o]
  BY DEF ThreadsQueue, TypeOK
<1>6. \A q, p \in CompactKey :
         Ongoing(q)' /\ Ongoing(p)' /\ OwnerOf[q] = OwnerOf[p] /\ run'[q].prev = run'[p].prev
         => q = p
  BY DEF ThreadsQueue
<1> QED BY <1>2, <1>4, <1>5, <1>6 DEF ThreadsQueue, Ongoing

\* A step of requests only.
LEMMA RequestKeeps ==
  ASSUME Inv, UNCHANGED <<surface, registry, compactions, interrupted>>,
         request' \in [Request -> RequestState],
         \A r \in Request : request'[r].pc # "idle" =>
            \/ request[r].pc # "idle" /\ request'[r].key = request[r].key
            \/ request'[r].key \in Key /\ TurnOf[request'[r].key] \notin interrupted
  PROVE  Inv'
<1> USE DEF Inv, registry, compactions
<1>1. TypeOK'
  BY DEF TypeOK
<1>2. FreshOwned' /\ ThreadsQueue'
  BY QueueSame DEF FreshOwned, Ongoing, Running
<1>3. SurfacesSound' /\ RegistrySound' /\ HeldOnRecord' /\ InterruptReaches'
  BY DEF SessionsInv, SurfacesSound, RegistrySound, HeldOnRecord, InterruptReaches, Running,
     Active, Released
<1>4. RunsReachable'
  BY DEF SessionsInv, RunsReachable, Running, Driven
<1>5. InterruptedStops'
  BY DEF SessionsInv, InterruptedStops, Ongoing
<1> QED BY <1>1, <1>2, <1>3, <1>4, <1>5 DEF SessionsInv

\* A compaction moves on, perhaps closing its conversation.
LEMMA RunMoveKeeps ==
  ASSUME Inv, Closes, UNCHANGED <<request, gate, interrupted>>,
         NEW k \in CompactKey, NEW place \in Place \ {"idle", "cached", "gate"},
         Moves(k, place, run[k].surf), Ongoing(k),
         place # "winding" => run[k].prev = None /\ run[k].pc \notin {"fresh", "winding"},
         \A s \in Driven(k) \ {None} :
            Running(s) => s \in Driven(k)' \/ surface'[s].cancelled
  PROVE  Inv'
<1> USE DEF Inv, Closes
<1>1. /\ \A q \in CompactKey \ {k} : run'[q] = run[q]
      /\ run'[k] \in Run /\ run'[k].pc = place /\ run'[k].surf = run[k].surf
      /\ run'[k].prev = run[k].prev /\ run'[k].aborted = run[k].aborted
      /\ run' \in [CompactKey -> Run]
  BY DEF Moves, TypeOK
<1>2. \A s \in Session : Steady(surface[s], surface'[s])
  BY DEF AllSteady
<1>3. SurfacesSound' /\ surface' \in [Session -> Surface]
  BY SteadySound DEF SessionsInv
<1>4. TypeOK'
  BY <1>1, <1>3 DEF TypeOK
<1>5. RegistrySound'
  BY <1>2 DEF SessionsInv, RegistrySound, Steady, TypeOK
<1>6. HeldOnRecord'
  BY <1>2 DEF SessionsInv, SurfacesSound, HeldOnRecord, Steady, Released
<1>7. RunsReachable'
  <2> SUFFICES ASSUME NEW s \in Session, Running(s)', ~surface'[s].cancelled,
                      NEW q, q = surface[s].key
               PROVE  /\ surface'[s].key = q
                      /\ \/ surface'[s].kind = "response" /\ entries'[q] = s
                            /\ keyRetirement'[q] = None
                         \/ surface'[s].kind # "response" /\ s \in Driven(q)' /\ ~run'[q].aborted
    BY DEF RunsReachable, Driven
  <2>1. Running(s) /\ ~surface[s].cancelled /\ surface'[s].kind = surface[s].kind
        /\ surface'[s].key = q /\ Active(s)
    BY <1>2 DEF Steady, Running, SessionsInv, SurfacesSound
  <2>2. CASE surface[s].kind = "response"
    <3>1. entries[q] = s /\ keyRetirement[q] = None /\ q \in Key
      BY <2>1, <2>2 DEF SessionsInv, RunsReachable, SurfacesSound
    <3> QED BY <2>1, <2>2, <3>1
  <2>3. CASE surface[s].kind # "response"
    <3>1. s \in Driven(q) /\ ~run[q].aborted /\ q \in CompactKey /\ s # None
      BY <2>1, <2>3, SessionsAssumption
         DEF SessionsInv, RunsReachable, SurfacesSound, TypeOK, Surface, Running
    <3>2. s \in Driven(q)' /\ ~run'[q].aborted
      <4>1. CASE q = k
        BY <1>1, <2>1, <3>1, <4>1
      <4>2. CASE q # k
        BY <1>1, <3>1, <4>2 DEF Driven
      <4> QED BY <4>1, <4>2
    <3> QED BY <2>1, <2>3, <3>2
  <2> QED BY <2>2, <2>3
<1>8. InterruptReaches' /\ InterruptedStops'
  BY <1>1, <1>2 DEF SessionsInv, InterruptReaches, InterruptedStops, Steady, Running, Ongoing
<1>9. FreshOwned'
  <2>1. \A s \in Session : Running(s)' <=> Running(s)
    BY <1>2 DEF Steady, Running
  <2>2. \A s \in Session : surface[s].kind = "fresh" => surface[s].key \in CompactKey
    BY DEF SessionsInv, SurfacesSound
  <2> QED BY <1>1, <1>2, <2>1, <2>2 DEF FreshOwned, Steady, Ongoing
<1>10. ThreadsQueue'
  BY <1>1, QueueSame DEF Ongoing
<1> QED BY <1>3, <1>4, <1>5, <1>6, <1>7, <1>8, <1>9, <1>10 DEF SessionsInv

\* Surfaces are cancelled, entries retire, runs are aborted and requests end; nothing starts.
AbortsOnly ==
    /\ run' \in [CompactKey -> Run]
    /\ \A q \in CompactKey :
          /\ run'[q].pc = run[q].pc /\ run'[q].prev = run[q].prev /\ run'[q].surf = run[q].surf
          /\ run[q].aborted => run'[q].aborted
          /\ \A s \in Session :
                Ongoing(q) /\ run'[q].aborted /\ ~run[q].aborted /\ s \in Driven(q) /\ Running(s)
                => surface'[s].cancelled
RetiresSome ==
    /\ entries' \in [Key -> Session \union {None}] /\ heads' \in [Conv -> Session \union {None}]
    /\ keyRetirement' \in [Key -> Session \union {None}]
    /\ ownerRetirement' \in [Owner -> SUBSET Session]
    /\ convRetirement' \in [Conv -> SUBSET Session]
    /\ \A q \in Key :
          (entries'[q] # entries[q] \/ keyRetirement'[q] # keyRetirement[q]) /\ entries[q] # None
          => (Running(entries[q]) => surface'[entries[q]].cancelled)
    /\ \A q \in Key : keyRetirement'[q] # keyRetirement[q] => entries[q] # None
RequestsEnd ==
    /\ request' \in [Request -> RequestState]
    /\ \A r \in Request : request'[r].pc # "idle" =>
          /\ request[r].pc # "idle" /\ request'[r].key = request[r].key
          /\ TurnOf[request[r].key] \notin interrupted'
StopsInterrupted ==
    /\ interrupted' \in SUBSET Turn
    /\ \A q \in CompactKey : Ongoing(q) /\ TurnOf[q] \in interrupted' => run'[q].aborted
    /\ \A s \in Registered : Running(s) /\ TurnOf[surface[s].key] \in interrupted'
          => surface'[s].cancelled

LEMMA StoppingKeeps ==
  ASSUME Inv, AllSteady, gate' = gate,
         AbortsOnly, RetiresSome, RegistrySound', HeldOnRecord', RequestsEnd, StopsInterrupted
  PROVE  Inv'
<1> USE DEF Inv
<1>1. \A s \in Session : Steady(surface[s], surface'[s])
  BY DEF AllSteady
<1>2. SurfacesSound' /\ surface' \in [Session -> Surface]
  BY SteadySound DEF SessionsInv
<1>3. TypeOK'
  BY <1>2 DEF TypeOK, AbortsOnly, RetiresSome, RequestsEnd, StopsInterrupted
<1>4. \A q \in CompactKey : Ongoing(q)' <=> Ongoing(q)
  BY DEF AbortsOnly, Ongoing
<1>5. \A q \in CompactKey : Driven(q)' = Driven(q)
  BY DEF AbortsOnly, Driven
<1>6. RunsReachable'
  <2> SUFFICES ASSUME NEW s \in Session, Running(s)', ~surface'[s].cancelled,
                      NEW q, q = surface[s].key
               PROVE  /\ surface'[s].key = q
                      /\ \/ surface'[s].kind = "response" /\ entries'[q] = s
                            /\ keyRetirement'[q] = None
                         \/ surface'[s].kind # "response" /\ s \in Driven(q)' /\ ~run'[q].aborted
    BY DEF RunsReachable, Driven
  <2>1. Running(s) /\ ~surface[s].cancelled /\ surface'[s].kind = surface[s].kind
        /\ surface'[s].key = q /\ s # None
    BY <1>1, SessionsAssumption DEF Steady, Running
  <2>2. CASE surface[s].kind = "response"
    <3>1. entries[q] = s /\ keyRetirement[q] = None /\ q \in Key
      BY <2>1, <2>2 DEF SessionsInv, RunsReachable, SurfacesSound
    <3> QED BY <2>1, <2>2, <3>1 DEF RetiresSome
  <2>3. CASE surface[s].kind # "response"
    <3>1. s \in Driven(q) /\ ~run[q].aborted /\ q \in CompactKey
      BY <2>1, <2>3 DEF SessionsInv, RunsReachable, SurfacesSound, TypeOK, Surface, Running
    <3>2. Ongoing(q)
      BY <3>1 DEF Driven, Ongoing
    <3>3. ~run'[q].aborted
      BY <2>1, <3>1, <3>2 DEF AbortsOnly
    <3> QED BY <1>5, <2>1, <2>3, <3>1, <3>3
  <2> QED BY <2>2, <2>3
<1>7. InterruptReaches'
  <2> SUFFICES ASSUME NEW s \in Session, Running(s)', ~surface'[s].cancelled,
                      TurnOf[surface'[s].key] \in interrupted'
               PROVE  FALSE
    BY DEF InterruptReaches
  <2>1. Running(s)
    BY <1>1 DEF Steady, Running
  <2>2. surface'[s].key = surface[s].key /\ surface'[s].kind = surface[s].kind
    BY <1>1 DEF Steady
  <2>3. CASE surface[s].kind = "response"
    <3>1. entries'[surface[s].key] = s /\ surface[s].key \in Key
      BY <1>2, <1>6, <2>2, <2>3 DEF RunsReachable, SurfacesSound
    <3>2. s # None
      BY SessionsAssumption
    <3>3. CASE s \in Registered
      BY <2>1, <2>2, <3>3 DEF StopsInterrupted
    <3>4. CASE s \notin Registered
      <4>1. entries[surface[s].key] # s
        BY <3>1, <3>2, <3>4 DEF Registered
      <4>2. ~(Running(s) /\ ~surface[s].cancelled)
        BY <2>3, <4>1 DEF SessionsInv, RunsReachable
      <4> QED BY <1>1, <2>1, <4>2 DEF Steady, Running
    <3> QED BY <3>3, <3>4
  <2>4. CASE surface[s].kind # "response"
    <3> SUFFICES ASSUME NEW q, q = surface[s].key PROVE FALSE
      OBVIOUS
    <3>1. s \in Driven(q)' /\ ~run'[q].aborted
      BY <1>6, <2>2, <2>4 DEF RunsReachable, Driven
    <3>2. q \in CompactKey
      BY <2>1, <2>4 DEF SessionsInv, SurfacesSound, Running, TypeOK, Surface
    <3>3. Ongoing(q)
      BY <1>4, <3>1, <3>2 DEF Driven, Ongoing
    <3> QED BY <2>2, <3>1, <3>2, <3>3 DEF StopsInterrupted
  <2> QED BY <2>3, <2>4
<1>8. InterruptedStops'
  <2>1. \A r \in Request : request'[r].pc # "idle" =>
           request'[r].key \in Key /\ TurnOf[request'[r].key] \notin interrupted'
    BY DEF RequestsEnd, SessionsInv, InterruptedStops
  <2>2. \A q \in CompactKey : Ongoing(q)' /\ ~run'[q].aborted => TurnOf[q] \notin interrupted'
    BY <1>4 DEF StopsInterrupted
  <2> QED BY <2>1, <2>2 DEF InterruptedStops
<1>9. FreshOwned'
  <2>1. \A s \in Session : /\ Running(s)' <=> Running(s)
                           /\ surface'[s].key = surface[s].key /\ surface'[s].kind = surface[s].kind
    BY <1>1 DEF Steady, Running
  <2>2. \A s \in Session : surface[s].kind = "fresh" => surface[s].key \in CompactKey
    BY DEF SessionsInv, SurfacesSound
  <2>3. \A q \in CompactKey :
           run'[q].pc = run[q].pc /\ run'[q].prev = run[q].prev /\ run'[q].surf = run[q].surf
    BY DEF AbortsOnly
  <2>4. \A s \in Session : surface'[s].kind = "fresh" /\ Running(s)' =>
           LET q == surface[s].key IN
           /\ surface'[s].key = q
           /\ (run'[q].pc = "fresh" /\ run'[q].surf = s) \/ run'[q].pc = "winding"
           /\ run'[q].prev = None
    BY <2>1, <2>2, <2>3 DEF FreshOwned
  <2>5. \A q \in CompactKey :
           Ongoing(q)' /\ run'[q].pc \notin {"gate", "winding"} => run'[q].prev = None
    BY <1>4, <2>3 DEF FreshOwned
  <2>6. \A s, p \in Session :
           /\ surface'[s].kind = "fresh" /\ surface'[p].kind = "fresh" /\ Running(s)' /\ Running(p)'
           /\ surface'[s].key = surface'[p].key
           => s = p
    BY <2>1 DEF FreshOwned
  <2> QED BY <2>4, <2>5, <2>6 DEF FreshOwned, Ongoing, Running
<1>10. ThreadsQueue'
  BY <1>4, QueueSame DEF AbortsOnly
<1> QED BY <1>2, <1>3, <1>6, <1>7, <1>8, <1>9, <1>10 DEF SessionsInv

\* Retiring entries keeps the registry in order, whether they leave it or stay as tombstones.
LEMMA RetirementKeeps ==
  ASSUME TypeOK, SurfacesSound, RegistrySound, HeldOnRecord, AllSteady,
         NEW S \in SUBSET Registered, BeginRetirement(S),
         \A s \in Retirable(S) : Running(s) => surface'[s].cancelled,
         RunsReachable,
         heads' \in [Conv -> Session \union {None}], entries' \in [Key -> Session \union {None}],
         \A q \in Key : entries'[q] # entries[q] => entries'[q] = None /\ entries[q] \in S
  PROVE  /\ RegistrySound' /\ HeldOnRecord' /\ RetiresSome
         /\ \A s \in S : Running(s) => surface'[s].cancelled
<1>1. \A s \in Session : Steady(surface[s], surface'[s])
  BY DEF AllSteady
<1>2. \A s \in S : /\ s \in Session /\ surface[s].kind = "response" /\ surface[s].key \in Key
                   /\ entries[surface[s].key] = s
  BY RegisteredFacts
<1>3. S \in SUBSET Session /\ \A s \in S : surface[s].key \in Key
  BY <1>2
<1>4. /\ keyRetirement' \in [Key -> Session \union {None}]
      /\ ownerRetirement' \in [Owner -> SUBSET Session]
      /\ convRetirement' \in [Conv -> SUBSET Session]
  BY <1>3, BeginRetirementFacts
<1>5. \A k \in Key :
         \/ keyRetirement'[k] = keyRetirement[k]
         \/ /\ keyRetirement[k] = None /\ keyRetirement'[k] \in S
            /\ surface[keyRetirement'[k]].key = k /\ ~Released(keyRetirement'[k])
  BY <1>3, BeginRetirementFacts
<1>6. \A s \in Session, o \in Owner :
         \/ s \in ownerRetirement[o]
         \/ /\ s \in S /\ OwnerOf[surface[s].key] = o /\ ~Released(s)
            /\ keyRetirement[surface[s].key] = None
         => s \in ownerRetirement'[o]
  BY <1>3, BeginRetirementFacts
<1>7. OwnerOf \in [Key -> Owner]
  BY SessionsAssumption
<1>8. \A s \in S : Running(s) => surface'[s].cancelled
  <2> SUFFICES ASSUME NEW s \in S, Running(s), NEW k, k = surface[s].key PROVE surface'[s].cancelled
    OBVIOUS
  <2>1. CASE keyRetirement[k] = None
    BY <1>2, <2>1 DEF Retirable
  <2>2. CASE keyRetirement[k] # None
    <3>1. surface[s].cancelled
      BY <1>2, <2>2 DEF RunsReachable
    <3> QED BY <1>1, <1>2, <3>1 DEF Steady, Running
  <2> QED BY <2>1, <2>2
<1>9. RetiresSome
  <2>1. \A q \in Key : keyRetirement'[q] # keyRetirement[q] => entries[q] # None /\ entries[q] \in S
    BY <1>2, <1>5, SessionsAssumption
  <2> QED BY <1>4, <1>8, <2>1 DEF RetiresSome
<1>10. RegistrySound'
  <2> SUFFICES ASSUME NEW k \in Key
               PROVE  /\ entries'[k] # None =>
                           surface'[entries'[k]].kind = "response" /\ surface'[entries'[k]].key = k
                      /\ keyRetirement'[k] # None =>
                           /\ surface'[keyRetirement'[k]].kind = "response"
                           /\ surface'[keyRetirement'[k]].key = k
                           /\ keyRetirement'[k] \in ownerRetirement'[OwnerOf[k]]
                           /\ entries'[k] \in {None, keyRetirement'[k]}
    BY DEF RegistrySound
  <2>1. entries'[k] \in {None, entries[k]}
    OBVIOUS
  <2>2. entries[k] # None => entries[k] \in Session /\ surface[entries[k]].kind = "response"
                             /\ surface[entries[k]].key = k
    BY DEF RegistrySound, TypeOK
  <2>3. entries'[k] # None =>
           surface'[entries'[k]].kind = "response" /\ surface'[entries'[k]].key = k
    BY <1>1, <2>1, <2>2 DEF Steady
  <2>4. CASE keyRetirement'[k] = keyRetirement[k]
    <3>1. keyRetirement[k] # None =>
             /\ keyRetirement[k] \in Session /\ surface[keyRetirement[k]].kind = "response"
             /\ surface[keyRetirement[k]].key = k
             /\ keyRetirement[k] \in ownerRetirement[OwnerOf[k]]
             /\ entries[k] \in {None, keyRetirement[k]}
      BY DEF RegistrySound, TypeOK
    <3> QED BY <1>1, <1>6, <1>7, <2>1, <2>3, <2>4, <3>1 DEF Steady
  <2>5. CASE keyRetirement'[k] # keyRetirement[k]
    <3> DEFINE p == keyRetirement'[k]
    <3>1. p \in S /\ p \in Session /\ keyRetirement[k] = None /\ ~Released(p)
          /\ surface[p].kind = "response" /\ surface[p].key = k /\ entries[k] = p
      BY <1>2, <1>5, <2>5
    <3>2. p \in ownerRetirement'[OwnerOf[k]]
      BY <1>6, <1>7, <3>1
    <3> QED BY <1>1, <2>1, <2>3, <3>1, <3>2 DEF Steady
  <2> QED BY <2>4, <2>5
<1>11. HeldOnRecord'
  <2> SUFFICES ASSUME NEW s \in Session, surface'[s].kind = "response", surface'[s].attached,
                      surface'[s].phase # "released", NEW k, k = surface[s].key
               PROVE  /\ surface'[s].key = k
                      /\ entries'[k] = s \/ s \in ownerRetirement'[OwnerOf[k]]
    BY DEF HeldOnRecord, Released
  <2>1. /\ surface[s].kind = "response" /\ surface[s].attached /\ ~Released(s)
        /\ surface'[s].key = k
    BY <1>1 DEF Steady, Released
  <2>2. k \in Key
    BY <2>1 DEF SurfacesSound
  <2>3. CASE s \in ownerRetirement[OwnerOf[k]]
    BY <1>6, <1>7, <2>1, <2>2, <2>3
  <2>4. CASE entries[k] = s
    <3>1. CASE entries'[k] = s
      BY <2>1, <3>1
    <3>2. CASE entries'[k] # s
      <4>1. s \in S
        BY <2>2, <2>4, <3>2
      <4>2. CASE keyRetirement[k] = None
        BY <1>6, <1>7, <2>1, <2>2, <4>1, <4>2
      <4>3. CASE keyRetirement[k] # None
        <5>1. s = keyRetirement[k] /\ s \in ownerRetirement[OwnerOf[k]]
          BY <2>2, <2>4, <4>3, SessionsAssumption DEF RegistrySound
        <5> QED BY <1>6, <1>7, <2>1, <2>2, <5>1
      <4> QED BY <4>2, <4>3
    <3> QED BY <3>1, <3>2
  <2> QED BY <2>1, <2>3, <2>4 DEF HeldOnRecord
<1> QED BY <1>8, <1>9, <1>10, <1>11

\* A registry that is left alone.
LEMMA RegistrySame ==
  ASSUME TypeOK, SurfacesSound, RegistrySound, HeldOnRecord, AllSteady, UNCHANGED registry
  PROVE  RegistrySound' /\ HeldOnRecord' /\ RetiresSome
<1>1. \A s \in Session : Steady(surface[s], surface'[s])
  BY DEF AllSteady
<1>2. RegistrySound'
  BY <1>1 DEF RegistrySound, Steady, TypeOK, registry
<1>3. HeldOnRecord'
  BY <1>1 DEF HeldOnRecord, Steady, Released, registry
<1> QED BY <1>2, <1>3 DEF RetiresSome, registry, TypeOK

\* A compaction starts a surface.
LEMMA StartKeeps ==
  ASSUME Inv, NEW k \in CompactKey, NEW s \in Session, NEW kind \in {"handoff", "fresh"},
         Starts(k, s, kind), UNCHANGED <<registry, request, gate, interrupted>>,
         Ongoing(k), run[k].pc \notin {"gate", "winding"},
         \A p \in Session : p \in Driven(k) => ~Running(p)
  PROVE  Inv'
<1> USE DEF Inv, registry
<1>1. /\ \A q \in CompactKey \ {k} : run'[q] = run[q]
      /\ run' \in [CompactKey -> Run] /\ run'[k].prev = run[k].prev
      /\ run'[k].aborted = run[k].aborted /\ run'[k].pc \in {"handoff", "fresh", "winding"}
      /\ run[k].prev = None
  BY DEF Starts, Moves, TypeOK, FreshOwned
<1>2. /\ surface' \in [Session -> Surface] /\ \A p \in Session \ {s} : surface'[p] = surface[p]
      /\ surface'[s].kind = kind /\ surface'[s].key = k /\ surface'[s].phase = "running"
      /\ ~surface'[s].attached
      /\ surface'[s].outcome = "pending" \/ surface'[s].cancelled
      /\ surface[s].kind = "unused" /\ surface[s].phase = "none"
  BY DEF Starts, TypeOK, Unused, Running, Active, SessionsInv, SurfacesSound
<1>3. TypeOK'
  BY <1>1, <1>2 DEF TypeOK
<1>4. SurfacesSound'
  <2>1. \A p \in Session \ {s} : (Running(p)' <=> Running(p)) /\ (Active(p)' <=> Active(p))
    BY <1>2 DEF Running, Active
  <2>2. k \in Key
    BY SessionsAssumption
  <2> QED BY <1>2, <2>1, <2>2 DEF SessionsInv, SurfacesSound, Active
<1>5. RegistrySound'
  BY <1>2 DEF SessionsInv, RegistrySound, TypeOK
<1>6. HeldOnRecord'
  BY <1>2 DEF SessionsInv, HeldOnRecord, Released
<1>7. RunsReachable'
  <2> SUFFICES ASSUME NEW p \in Session, surface'[p].phase = "running", ~surface'[p].cancelled,
                      NEW q, q = surface'[p].key
               PROVE  \/ surface'[p].kind = "response" /\ entries'[q] = p
                         /\ keyRetirement'[q] = None
                      \/ surface'[p].kind # "response" /\ p \in Driven(q)' /\ ~run'[q].aborted
    BY DEF RunsReachable, Driven, Running
  <2>1. CASE p = s
    <3>1. q = k /\ ~run[k].aborted /\ run'[k].pc = kind /\ run'[k].surf = s
      BY <1>2, <2>1 DEF Starts, Moves
    <3> QED BY <1>1, <1>2, <2>1, <3>1 DEF Driven
  <2>2. CASE p # s
    <3>1. Running(p) /\ ~surface[p].cancelled /\ surface'[p] = surface[p]
      BY <1>2, <2>2 DEF Running
    <3>2. CASE surface[p].kind = "response"
      BY <3>1, <3>2 DEF SessionsInv, RunsReachable
    <3>3. CASE surface[p].kind # "response"
      <4>1. p \in Driven(q) /\ ~run[q].aborted /\ q \in CompactKey
        BY <3>1, <3>3 DEF SessionsInv, RunsReachable, SurfacesSound, TypeOK, Surface, Running
      <4>2. q # k
        BY <3>1, <4>1
      <4> QED BY <1>1, <3>1, <3>3, <4>1, <4>2 DEF Driven
    <3> QED BY <3>2, <3>3
  <2> QED BY <2>1, <2>2
<1>8. InterruptReaches'
  <2>1. TurnOf[k] \in interrupted => surface'[s].cancelled
    BY DEF Starts, SessionsInv, InterruptedStops
  <2> QED BY <1>2, <2>1 DEF SessionsInv, InterruptReaches, Running
<1>9. InterruptedStops'
  BY <1>1 DEF SessionsInv, InterruptedStops, Ongoing
<1>10. \A p \in Session : p # s /\ surface[p].kind = "fresh" /\ Running(p) => surface[p].key # k
  <2> SUFFICES ASSUME NEW p \in Session, p # s, surface[p].kind = "fresh", Running(p),
                      surface[p].key = k
               PROVE  FALSE
    OBVIOUS
  <2>1. run[k].pc = "fresh" /\ run[k].surf = p
    BY DEF FreshOwned
  <2> QED BY <2>1 DEF Driven
<1>11. FreshOwned'
  <2>1. ASSUME NEW p \in Session, surface'[p].kind = "fresh", surface'[p].phase = "running",
               NEW q, q = surface'[p].key
        PROVE  /\ (run'[q].pc = "fresh" /\ run'[q].surf = p) \/ run'[q].pc = "winding"
               /\ run'[q].prev = None
    <3>1. CASE p = s
      <4>1. q = k /\ kind = "fresh"
        BY <1>2, <2>1, <3>1
      <4>2. (run'[k].pc = "fresh" /\ run'[k].surf = s) \/ run'[k].pc = "winding"
        BY <4>1 DEF Starts, Moves
      <4> QED BY <1>1, <3>1, <4>1, <4>2
    <3>2. CASE p # s
      <4>1. surface'[p] = surface[p] /\ q # k /\ q \in CompactKey /\ Running(p)
        BY <1>2, <1>10, <2>1, <3>2 DEF Running, SessionsInv, SurfacesSound
      <4> QED BY <1>1, <2>1, <4>1 DEF FreshOwned
    <3> QED BY <3>1, <3>2
  <2>2. \A p, q \in Session :
           /\ surface'[p].kind = "fresh" /\ surface'[q].kind = "fresh"
           /\ surface'[p].phase = "running" /\ surface'[q].phase = "running"
           /\ surface'[p].key = surface'[q].key
           => p = q
    BY <1>2, <1>10 DEF FreshOwned, Running
  <2>3. \A q \in CompactKey :
           run'[q].pc \notin {"idle", "cached", "gate", "winding"} => run'[q].prev = None
    BY <1>1 DEF FreshOwned, Ongoing
  <2> QED BY <2>1, <2>2, <2>3 DEF FreshOwned, Ongoing, Running
<1>12. ThreadsQueue'
  <2>1. \A q \in CompactKey : (Ongoing(q)' <=> Ongoing(q)) /\ run'[q].prev = run[q].prev
    BY <1>1 DEF Ongoing
  <2> QED BY <2>1, QueueSame
<1> QED BY <1>3, <1>4, <1>5, <1>6, <1>7, <1>8, <1>9, <1>11, <1>12 DEF SessionsInv

\* A browser run ends.
LEMMA RunEndsKeeps ==
  ASSUME Inv, NEW s \in Session, NEW phase \in {"released", "failed"},
         NEW outcome \in {"final", "error"}, RunEnds(s, phase, outcome)
  PROVE  Inv'
<1> USE DEF Inv, compactions, outside
<1>1. surface[s].phase = "running" /\ surface[s].kind # "unused" /\ surface[s] \in Surface
  BY DEF RunEnds, Running, SessionsInv, SurfacesSound, TypeOK
<1>2. /\ surface' \in [Session -> Surface]
      /\ surface'[s].phase = phase /\ surface'[s].kind = surface[s].kind
      /\ surface'[s].key = surface[s].key
      /\ \A p \in Session \ {s} : surface'[p] = surface[p]
  <2> DEFINE x == [surface[s] EXCEPT !.phase = phase, !.cancelled = FALSE,
                                     !.outcome = IF @ = "pending" THEN outcome ELSE @]
  <2>1. x \in Surface /\ x.phase = phase /\ x.kind = surface[s].kind /\ x.key = surface[s].key
    BY <1>1 DEF Surface
  <2>2. surface' = [surface EXCEPT ![s] = x]
    BY DEF RunEnds
  <2> HIDE DEF x
  <2> QED BY <2>1, <2>2 DEF TypeOK
<1>3. /\ keyRetirement' \in [Key -> Session \union {None}]
      /\ ownerRetirement' \in [Owner -> SUBSET Session]
      /\ convRetirement' \in [Conv -> SUBSET Session]
      /\ \A k \in Key : keyRetirement'[k] \in {None, keyRetirement[k]}
                        /\ (keyRetirement'[k] # None => keyRetirement'[k] # s \/ phase = "failed")
      /\ \A o \in Owner, p \in Session : p \in ownerRetirement[o] =>
            p \in ownerRetirement'[o] \/ (p = s /\ phase = "released")
  BY SessionsAssumption DEF RunEnds, Remembered, TypeOK
<1>4. UNCHANGED <<entries, heads, request, run, gate, interrupted>>
  BY DEF RunEnds
<1>5. TypeOK'
  BY <1>2, <1>3, <1>4 DEF TypeOK
<1>6. SurfacesSound'
  BY <1>1, <1>2 DEF SessionsInv, SurfacesSound, Running, Active
<1>7. RegistrySound'
  <2>1. OwnerOf \in [Key -> Owner]
    BY SessionsAssumption
  <2>2. \A p \in Session : surface'[p].kind = surface[p].kind /\ surface'[p].key = surface[p].key
    BY <1>2
  <2>3. \A k \in Key : entries'[k] # None =>
           surface'[entries'[k]].kind = "response" /\ surface'[entries'[k]].key = k
    BY <1>4, <2>2 DEF SessionsInv, RegistrySound, TypeOK
  <2>4. ASSUME NEW k \in Key, keyRetirement'[k] # None
        PROVE  /\ surface'[keyRetirement'[k]].kind = "response"
               /\ surface'[keyRetirement'[k]].key = k
               /\ keyRetirement'[k] \in ownerRetirement'[OwnerOf[k]]
               /\ entries'[k] \in {None, keyRetirement'[k]}
    <3> DEFINE p == keyRetirement[k]
    <3>1. keyRetirement'[k] = p /\ p \in Session /\ (p # s \/ phase = "failed")
          /\ surface[p].kind = "response" /\ surface[p].key = k
          /\ p \in ownerRetirement[OwnerOf[k]] /\ entries[k] \in {None, p}
      BY <1>3, <2>4 DEF SessionsInv, RegistrySound, TypeOK
    <3> QED BY <1>3, <1>4, <2>1, <2>2, <3>1
  <2> QED BY <2>3, <2>4 DEF RegistrySound
<1>8. HeldOnRecord'
  <2> SUFFICES ASSUME NEW p \in Session, surface'[p].kind = "response", surface'[p].attached,
                      surface'[p].phase # "released", NEW k, k = surface[p].key
               PROVE  /\ surface'[p].key = k
                      /\ entries'[k] = p \/ p \in ownerRetirement'[OwnerOf[k]]
    BY DEF HeldOnRecord, Released
  <2>1. surface[p].kind = "response" /\ surface[p].attached /\ surface'[p].key = k
        /\ ~Released(p) /\ (p = s => phase # "released")
    <3>1. CASE p = s
      <4>1. surface'[s].attached = surface[s].attached
        BY <1>1 DEF RunEnds, TypeOK
      <4> QED BY <1>1, <1>2, <3>1, <4>1 DEF Released
    <3>2. CASE p # s
      BY <1>2, <3>2 DEF Released
    <3> QED BY <3>1, <3>2
  <2>2. k \in Key /\ OwnerOf[k] \in Owner
    BY <2>1, SessionsAssumption DEF SessionsInv, SurfacesSound
  <2>3. entries[k] = p \/ p \in ownerRetirement[OwnerOf[k]]
    BY <2>1 DEF SessionsInv, HeldOnRecord
  <2> QED BY <1>3, <1>4, <2>1, <2>2, <2>3
<1>9. RunsReachable'
  <2> SUFFICES ASSUME NEW p \in Session, surface'[p].phase = "running", ~surface'[p].cancelled,
                      NEW q, q = surface'[p].key
               PROVE  \/ surface'[p].kind = "response" /\ entries'[q] = p
                         /\ keyRetirement'[q] = None
                      \/ surface'[p].kind # "response" /\ p \in Driven(q)' /\ ~run'[q].aborted
    BY DEF RunsReachable, Driven, Running
  <2>1. p # s /\ surface'[p] = surface[p] /\ Running(p)
    BY <1>2 DEF Running
  <2>2. CASE surface[p].kind = "response"
    <3>1. entries[q] = p /\ keyRetirement[q] = None /\ q \in Key
      BY <2>1, <2>2 DEF SessionsInv, RunsReachable, SurfacesSound
    <3> QED BY <1>3, <1>4, <2>1, <2>2, <3>1
  <2>3. CASE surface[p].kind # "response"
    BY <1>4, <2>1, <2>3 DEF SessionsInv, RunsReachable, Driven
  <2> QED BY <2>2, <2>3
<1>10. InterruptReaches' /\ InterruptedStops'
  BY <1>2, <1>4 DEF SessionsInv, InterruptReaches, InterruptedStops, Running, Ongoing
<1>11. FreshOwned'
  <2>1. \A p \in Session : surface'[p].phase = "running" => p # s /\ surface'[p] = surface[p]
    BY <1>2
  <2> QED BY <1>4, <2>1 DEF FreshOwned, Running, Ongoing
<1>12. ThreadsQueue'
  BY <1>4, QueueSame DEF Ongoing
<1> QED BY <1>5, <1>6, <1>7, <1>8, <1>9, <1>10, <1>11, <1>12 DEF SessionsInv

\* A response starts.
LEMMA StartResponseKeeps ==
  ASSUME Inv, NEW r \in Request, NEW k \in Key, NEW s \in Session, StartResponse(r, k, s)
  PROVE  Inv'
<1> USE DEF Inv, compactions, outside
<1>1. /\ entries[k] = None /\ keyRetirement[k] = None
      /\ request[r].pc = "waiting" /\ request[r].key = k
      /\ surface[s].kind = "unused" /\ surface[s].phase = "none" /\ s # None
  BY SessionsAssumption
     DEF StartResponse, Clear, Looks, Retiring, TypeOK, Unused, SessionsInv, SurfacesSound
<1>2. /\ surface' \in [Session -> Surface] /\ \A p \in Session \ {s} : surface'[p] = surface[p]
      /\ surface'[s].kind = "response" /\ surface'[s].key = k /\ surface'[s].phase = "running"
      /\ surface'[s].outcome = "pending"
  <2> DEFINE x == Started("response", k)
  <2>1. x \in Surface /\ x.kind = "response" /\ x.key = k /\ x.phase = "running"
        /\ x.outcome = "pending"
    BY StartedFacts
  <2>2. surface' = [surface EXCEPT ![s] = x]
    BY DEF StartResponse
  <2> HIDE DEF x
  <2> QED BY <2>1, <2>2 DEF TypeOK
<1>3. /\ entries' \in [Key -> Session \union {None}] /\ heads' \in [Conv -> Session \union {None}]
      /\ entries'[k] = s /\ \A q \in Key \ {k} : entries'[q] = entries[q]
      /\ UNCHANGED <<keyRetirement, ownerRetirement, convRetirement, run, gate, interrupted>>
  BY SessionsAssumption DEF StartResponse, TypeOK
<1>4. /\ request' \in [Request -> RequestState]
      /\ \A p \in Request : request'[p].key = request[p].key
                            /\ (request'[p].pc # "idle" => request[p].pc # "idle")
  <2> DEFINE x == [request[r] EXCEPT !.pc = "attached", !.on = {s}]
  <2>1. request[r] \in RequestState
    BY DEF TypeOK
  <2>2. x \in RequestState /\ x.key = request[r].key
    BY <2>1 DEF RequestState
  <2>3. request' = [request EXCEPT ![r] = x]
    BY DEF StartResponse, GoesOn
  <2> HIDE DEF x
  <2> QED BY <1>1, <2>2, <2>3 DEF TypeOK
<1>5. TypeOK'
  BY <1>2, <1>3, <1>4 DEF TypeOK
<1>6. SurfacesSound'
  BY <1>2 DEF SessionsInv, SurfacesSound, Running, Active
<1>7. RegistrySound'
  <2>1. \A q \in Key : entries'[q] # None =>
           surface'[entries'[q]].kind = "response" /\ surface'[entries'[q]].key = q
    BY <1>1, <1>2, <1>3 DEF SessionsInv, RegistrySound, TypeOK
  <2> QED BY <1>1, <1>2, <1>3, <2>1 DEF SessionsInv, RegistrySound, TypeOK
<1>8. HeldOnRecord'
  <2>1. ASSUME NEW p \in Session, p # s, surface[p].kind = "response", surface[p].attached,
               ~Released(p)
        PROVE  entries'[surface[p].key] = p \/ p \in ownerRetirement[OwnerOf[surface[p].key]]
    BY <1>1, <1>3, <2>1, SessionsAssumption DEF SessionsInv, HeldOnRecord, SurfacesSound
  <2> QED BY <1>2, <1>3, <2>1 DEF HeldOnRecord, Released
<1>9. RunsReachable'
  <2> SUFFICES ASSUME NEW p \in Session, surface'[p].phase = "running", ~surface'[p].cancelled,
                      NEW q, q = surface'[p].key
               PROVE  \/ surface'[p].kind = "response" /\ entries'[q] = p
                         /\ keyRetirement'[q] = None
                      \/ surface'[p].kind # "response" /\ p \in Driven(q)' /\ ~run'[q].aborted
    BY DEF RunsReachable, Driven, Running
  <2>1. CASE p = s
    BY <1>1, <1>2, <1>3, <2>1
  <2>2. CASE p # s
    <3>1. Running(p) /\ ~surface[p].cancelled /\ surface'[p] = surface[p] /\ p # None
      BY <1>2, <2>2, SessionsAssumption DEF Running
    <3>2. CASE surface[p].kind = "response"
      <4>1. entries[q] = p /\ keyRetirement[q] = None /\ q \in Key
        BY <3>1, <3>2 DEF SessionsInv, RunsReachable, SurfacesSound
      <4> QED BY <1>1, <1>3, <3>1, <3>2, <4>1
    <3>3. CASE surface[p].kind # "response"
      BY <1>3, <3>1, <3>3 DEF SessionsInv, RunsReachable, Driven
    <3> QED BY <3>2, <3>3
  <2> QED BY <2>1, <2>2
<1>10. InterruptReaches' /\ InterruptedStops'
  <2>1. TurnOf[k] \notin interrupted
    BY <1>1 DEF SessionsInv, InterruptedStops
  <2>2. InterruptReaches'
    BY <1>2, <1>3, <2>1 DEF SessionsInv, InterruptReaches, Running
  <2>3. InterruptedStops'
    BY <1>3, <1>4 DEF SessionsInv, InterruptedStops, Ongoing
  <2> QED BY <2>2, <2>3
<1>11. FreshOwned'
  <2>1. \A p \in Session : surface'[p].kind = "fresh" => p # s /\ surface'[p] = surface[p]
    BY <1>2
  <2> QED BY <1>3, <2>1 DEF FreshOwned, Running, Ongoing
<1>12. ThreadsQueue'
  BY <1>3, QueueSame DEF Ongoing
<1> QED BY <1>5, <1>6, <1>7, <1>8, <1>9, <1>10, <1>11, <1>12 DEF SessionsInv

\* The surfaces and the registry stay; a run begins or ends.
LEMMA RunsOnlyKeep ==
  ASSUME Inv, UNCHANGED <<surface, registry, request, interrupted>>,
         run' \in [CompactKey -> Run], gate' \in [Owner -> CompactKey \union {None}],
         \A q \in CompactKey :
            Driven(q)' = Driven(q) /\ (Driven(q) # {} => run'[q].aborted = run[q].aborted),
         \A q \in CompactKey : Ongoing(q)' /\ ~run'[q].aborted => TurnOf[q] \notin interrupted
  PROVE  /\ TypeOK' /\ SessionsInv'
<1> USE DEF Inv, registry
<1>1. TypeOK'
  BY DEF TypeOK
<1>2. SurfacesSound' /\ RegistrySound' /\ HeldOnRecord' /\ InterruptReaches'
  BY DEF SessionsInv, SurfacesSound, RegistrySound, HeldOnRecord, InterruptReaches, Running,
     Active, Released
<1>3. RunsReachable'
  <2> SUFFICES ASSUME NEW p \in Session, surface[p].phase = "running", ~surface[p].cancelled,
                      NEW q, q = surface[p].key
               PROVE  \/ surface[p].kind = "response" /\ entries[q] = p
                         /\ keyRetirement[q] = None
                      \/ surface[p].kind # "response" /\ p \in Driven(q)' /\ ~run'[q].aborted
    BY DEF RunsReachable, Driven, Running
  <2>1. CASE surface[p].kind = "response"
    BY <2>1 DEF SessionsInv, RunsReachable, Running
  <2>2. CASE surface[p].kind # "response"
    <3>1. p \in Driven(q) /\ ~run[q].aborted /\ q \in CompactKey
      BY <2>2 DEF SessionsInv, RunsReachable, SurfacesSound, TypeOK, Surface, Running
    <3> QED BY <2>2, <3>1
  <2> QED BY <2>1, <2>2
<1>4. InterruptedStops'
  BY DEF SessionsInv, InterruptedStops, Ongoing
<1> QED BY <1>1, <1>2, <1>3, <1>4 DEF SessionsInv

LEMMA RegisterKeeps == ASSUME Inv, NEW k \in CompactKey, Register(k) PROVE Inv'
<1> USE DEF Inv
<1> DEFINE o == OwnerOf[k]
           r == [NoRun EXCEPT !.pc = "gate", !.prev = gate[o]]
<1>1. k \in Key /\ o \in Owner /\ k # None /\ \A q \in CompactKey : OwnerOf[q] \in Owner
  BY SessionsAssumption
<1>2. gate[o] \in CompactKey \union {None}
  BY <1>1 DEF TypeOK
<1>3. r \in Run /\ r.pc = "gate" /\ r.prev = gate[o] /\ r.aborted = FALSE
  BY <1>2 DEF Run, Place, NoRun
<1>4. run' = [run EXCEPT ![k] = r] /\ gate' = [gate EXCEPT ![o] = k] /\ run[k].pc = "idle"
      /\ TurnOf[k] \notin interrupted /\ UNCHANGED <<surface, registry, request, interrupted>>
  BY DEF Register
<1> HIDE DEF r
<1>5. /\ run' \in [CompactKey -> Run] /\ gate' \in [Owner -> CompactKey \union {None}]
      /\ run'[k].pc = "gate" /\ run'[k].prev = gate[o] /\ ~run'[k].aborted
      /\ gate'[o] = k
      /\ \A q \in CompactKey \ {k} : run'[q] = run[q]
      /\ \A p \in Owner \ {o} : gate'[p] = gate[p]
  BY <1>1, <1>3, <1>4 DEF TypeOK
<1> HIDE DEF o
<1>6. /\ \A q \in CompactKey : Ongoing(q)' <=> Ongoing(q) \/ q = k
      /\ ~Ongoing(k)
  BY <1>4, <1>5 DEF Ongoing
<1>7. TypeOK' /\ SessionsInv'
  <2>1. \A q \in CompactKey :
            Driven(q)' = Driven(q) /\ (Driven(q) # {} => run'[q].aborted = run[q].aborted)
    BY <1>4, <1>5 DEF Driven
  <2>2. \A q \in CompactKey : Ongoing(q)' /\ ~run'[q].aborted => TurnOf[q] \notin interrupted
    BY <1>4, <1>5, <1>6 DEF SessionsInv, InterruptedStops
  <2> QED BY <1>4, <1>5, <2>1, <2>2, RunsOnlyKeep
<1>8. FreshOwned'
  <2>1. ASSUME NEW p \in Session, surface[p].kind = "fresh", surface[p].phase = "running",
               NEW q, q = surface[p].key
        PROVE  /\ (run'[q].pc = "fresh" /\ run'[q].surf = p) \/ run'[q].pc = "winding"
               /\ run'[q].prev = None
    <3>1. q \in CompactKey
      BY <2>1 DEF SessionsInv, SurfacesSound
    <3>2. (run[q].pc = "fresh" /\ run[q].surf = p) \/ run[q].pc = "winding"
      BY <2>1 DEF FreshOwned, Running
    <3>3. run[q].prev = None /\ q # k
      BY <1>4, <2>1, <3>2 DEF FreshOwned, Running
    <3> QED BY <1>5, <3>1, <3>2, <3>3
  <2>2. \A q \in CompactKey :
           run'[q].pc \notin {"idle", "cached", "gate", "winding"} => run'[q].prev = None
    BY <1>5 DEF FreshOwned, Ongoing
  <2> QED BY <1>4, <2>1, <2>2 DEF FreshOwned, Ongoing, Running
<1>9. \A q \in CompactKey : run[q].prev \in CompactKey \union {None}
  BY DEF TypeOK, Run
<1>10. gate[o] # None => gate[o] # k /\ Ongoing(gate[o]) /\ OwnerOf[gate[o]] = o
  BY <1>1, <1>6 DEF ThreadsQueue, o
<1>11. \A q \in CompactKey : Ongoing(q) /\ OwnerOf[q] = o => gate[o] # None /\ run[q].prev # gate[o]
  BY <1>1 DEF ThreadsQueue, o
<1>12. \A q \in CompactKey : Ongoing(q) => run[q].prev # k
  BY <1>1, <1>6 DEF ThreadsQueue
<1>13. ThreadsQueue'
  <2>1. ASSUME NEW q \in CompactKey, Ongoing(q)', run'[q].prev # None
        PROVE  run'[run'[q].prev].pc \notin {"idle", "cached"} /\ OwnerOf[run'[q].prev] = OwnerOf[q]
    <3>1. CASE q = k
      BY <1>2, <1>5, <1>6, <1>10, <2>1, <3>1 DEF Ongoing, o
    <3>2. CASE q # k
      <4>1. Ongoing(q) /\ run'[q].prev = run[q].prev
        BY <1>5, <1>6, <2>1, <3>2
      <4>2. Ongoing(run[q].prev) /\ OwnerOf[run[q].prev] = OwnerOf[q]
        BY <2>1, <4>1 DEF ThreadsQueue
      <4> QED BY <1>5, <1>6, <1>9, <2>1, <4>1, <4>2 DEF Ongoing
    <3> QED BY <3>1, <3>2
  <2>2. ASSUME NEW q \in CompactKey, NEW p \in CompactKey, Ongoing(q)', Ongoing(p)',
               OwnerOf[q] = OwnerOf[p], run'[q].prev = run'[p].prev
        PROVE  q = p
    <3>1. CASE q = k /\ p # k
      BY <1>5, <1>6, <1>11, <2>2, <3>1 DEF o
    <3>2. CASE q # k /\ p = k
      BY <1>5, <1>6, <1>11, <2>2, <3>2 DEF o
    <3>3. CASE q # k /\ p # k
      BY <1>5, <1>6, <2>2, <3>3 DEF ThreadsQueue
    <3> QED BY <3>1, <3>2, <3>3
  <2>3. ASSUME NEW p \in Owner
        PROVE  /\ gate'[p] # None => run'[gate'[p]].pc \notin {"idle", "cached"} /\ OwnerOf[gate'[p]] = p
               /\ \A q \in CompactKey : Ongoing(q)' /\ OwnerOf[q] = p =>
                     gate'[p] # None /\ run'[q].prev # gate'[p]
    <3>1. CASE p = o
      <4>1. run'[gate'[p]].pc \notin {"idle", "cached"} /\ OwnerOf[gate'[p]] = p
        BY <1>5, <1>6, <3>1 DEF Ongoing, o
      <4>2. \A q \in CompactKey : Ongoing(q)' => run'[q].prev # k
        BY <1>1, <1>5, <1>6, <1>10, <1>12
      <4> QED BY <1>1, <1>5, <3>1, <4>1, <4>2
    <3>2. CASE p # o
      <4>1. gate'[p] = gate[p] /\ (gate[p] # None => gate[p] \in CompactKey)
        BY <1>5, <3>2 DEF TypeOK
      <4>2. gate[p] # None => Ongoing(gate[p]) /\ OwnerOf[gate[p]] = p
        BY DEF ThreadsQueue
      <4>3. gate'[p] # None => run'[gate'[p]].pc \notin {"idle", "cached"} /\ OwnerOf[gate'[p]] = p
        BY <1>5, <4>1, <4>2, <1>6 DEF Ongoing
      <4>4. \A q \in CompactKey : OwnerOf[q] = p => q # k
        BY <3>2 DEF o
      <4>5. \A q \in CompactKey : Ongoing(q)' /\ OwnerOf[q] = p =>
               gate'[p] # None /\ run'[q].prev # gate'[p]
        BY <1>5, <1>6, <4>1, <4>4 DEF ThreadsQueue
      <4> QED BY <4>3, <4>5
    <3> QED BY <3>1, <3>2
  <2>4. ASSUME NEW K \in SUBSET {q \in CompactKey : Ongoing(q)'}, K # {}
        PROVE  \E q \in K : run'[q].prev \notin K
    <3>1. CASE K \subseteq {k}
      BY <1>2, <1>5, <1>1, <1>10, <2>4, <3>1
    <3>2. CASE ~(K \subseteq {k})
      <4>1. K \ {k} \in SUBSET {q \in CompactKey : Ongoing(q)} /\ K \ {k} # {}
        BY <1>6, <3>2
      <4>2. PICK q \in K \ {k} : run[q].prev \notin K \ {k}
        BY <4>1 DEF ThreadsQueue
      <4>3. q \in CompactKey /\ Ongoing(q)
        BY <4>1, <4>2
      <4> QED BY <1>5, <1>12, <4>2, <4>3
    <3> QED BY <3>1, <3>2
  <2> QED BY <2>1, <2>2, <2>3, <2>4 DEF ThreadsQueue, Ongoing
<1> QED BY <1>7, <1>8, <1>13

\* A run ends, and its thread's next one has its turn.
LEMMA OwnerSettlesKeeps == ASSUME Inv, NEW k \in CompactKey, OwnerSettles(k) PROVE Inv'
<1> USE DEF Inv
<1> DEFINE o == OwnerOf[k]
           r == [NoRun EXCEPT !.pc = IF run[k].failed THEN "idle" ELSE "cached"]
<1>1. k \in Key /\ o \in Owner /\ k # None /\ \A q \in CompactKey : OwnerOf[q] \in Owner /\ q # None
  BY SessionsAssumption
<1>2. r \in Run /\ r.pc \in {"idle", "cached"} /\ r.prev = None
  BY DEF Run, Place, NoRun
<1>3. /\ run' = [q \in CompactKey |->
           IF q = k THEN r ELSE [run[q] EXCEPT !.prev = IF @ = k THEN None ELSE @]]
      /\ gate' = [gate EXCEPT ![o] = IF @ = k THEN None ELSE @]
      /\ run[k].pc = "winding" /\ run[k].prev = None /\ FreshTurnsEnded(k)
      /\ UNCHANGED <<surface, registry, request, interrupted>>
  BY DEF OwnerSettles, outside
<1> HIDE DEF r
<1>4. /\ run' \in [CompactKey -> Run] /\ run'[k].pc \in {"idle", "cached"}
      /\ \A q \in CompactKey \ {k} :
            /\ run'[q].pc = run[q].pc /\ run'[q].aborted = run[q].aborted
            /\ run'[q].surf = run[q].surf
            /\ run'[q].prev = IF run[q].prev = k THEN None ELSE run[q].prev
  <2> SUFFICES ASSUME NEW q \in CompactKey
               PROVE  /\ run'[q] \in Run
                      /\ q = k => run'[k].pc \in {"idle", "cached"}
                      /\ q # k => /\ run'[q].pc = run[q].pc /\ run'[q].aborted = run[q].aborted
                                  /\ run'[q].surf = run[q].surf
                                  /\ run'[q].prev = IF run[q].prev = k THEN None ELSE run[q].prev
    BY <1>3
  <2>1. CASE q = k
    BY <1>2, <1>3, <2>1
  <2>2. CASE q # k
    <3>1. run[q] \in Run
      BY DEF TypeOK
    <3>2. run'[q] = [run[q] EXCEPT !.prev = IF @ = k THEN None ELSE @]
      BY <1>3, <2>2
    <3> QED BY <2>2, <3>1, <3>2 DEF Run
  <2> QED BY <2>1, <2>2
<1>5. /\ gate' \in [Owner -> CompactKey \union {None}]
      /\ gate'[o] = (IF gate[o] = k THEN None ELSE gate[o])
      /\ \A p \in Owner \ {o} : gate'[p] = gate[p]
  BY <1>1, <1>3 DEF TypeOK
<1> HIDE DEF o
<1>6. /\ \A q \in CompactKey : Ongoing(q)' <=> Ongoing(q) /\ q # k
      /\ Ongoing(k) /\ run[k].prev = None
  BY <1>3, <1>4 DEF Ongoing
<1>7. TypeOK' /\ SessionsInv'
  <2>1. \A q \in CompactKey :
            Driven(q)' = Driven(q) /\ (Driven(q) # {} => run'[q].aborted = run[q].aborted)
    BY <1>3, <1>4 DEF Driven
  <2>2. \A q \in CompactKey : Ongoing(q)' /\ ~run'[q].aborted => TurnOf[q] \notin interrupted
    BY <1>4, <1>6 DEF SessionsInv, InterruptedStops
  <2> QED BY <1>3, <1>4, <1>5, <2>1, <2>2, RunsOnlyKeep
<1>8. FreshOwned'
  <2>1. ASSUME NEW p \in Session, surface[p].kind = "fresh", surface[p].phase = "running",
               NEW q, q = surface[p].key
        PROVE  /\ (run'[q].pc = "fresh" /\ run'[q].surf = p) \/ run'[q].pc = "winding"
               /\ run'[q].prev = None
    <3>1. q \in CompactKey /\ q # k
      BY <1>3, <2>1 DEF SessionsInv, SurfacesSound, FreshTurnsEnded, Running
    <3>2. (run[q].pc = "fresh" /\ run[q].surf = p) \/ run[q].pc = "winding"
      BY <2>1 DEF FreshOwned, Running
    <3>3. run[q].prev = None
      BY <2>1 DEF FreshOwned, Running
    <3> QED BY <1>4, <3>1, <3>2, <3>3
  <2>2. \A q \in CompactKey :
           run'[q].pc \notin {"idle", "cached", "gate", "winding"} => run'[q].prev = None
    BY <1>4 DEF FreshOwned, Ongoing
  <2> QED BY <1>3, <2>1, <2>2 DEF FreshOwned, Ongoing, Running
<1>9. \A q \in CompactKey : Ongoing(q) /\ run[q].prev # None =>
         run[q].prev \in CompactKey /\ Ongoing(run[q].prev) /\ OwnerOf[run[q].prev] = OwnerOf[q]
  BY DEF TypeOK, Run, ThreadsQueue
<1>10. \A q \in CompactKey : Ongoing(q) /\ OwnerOf[q] = o /\ q # k => run[q].prev # None
  BY <1>6 DEF ThreadsQueue, o
<1>11. gate[o] = k => \A q \in CompactKey : ~(Ongoing(q) /\ OwnerOf[q] = o /\ q # k)
  <2> SUFFICES ASSUME gate[o] = k, NEW q \in CompactKey, Ongoing(q), OwnerOf[q] = o, q # k
               PROVE  FALSE
    OBVIOUS
  <2> DEFINE K == {p \in CompactKey : Ongoing(p) /\ OwnerOf[p] = o /\ p # k}
  <2>1. K \in SUBSET {p \in CompactKey : Ongoing(p)} /\ K # {}
    OBVIOUS
  <2>2. \A p \in K : run[p].prev # k
    BY <1>1 DEF ThreadsQueue
  <2>3. \A p \in K : run[p].prev \in K
    BY <1>9, <1>10, <2>2
  <2> QED BY <2>1, <2>3 DEF ThreadsQueue
<1>12. ThreadsQueue'
  <2>1. ASSUME NEW q \in CompactKey, Ongoing(q)', run'[q].prev # None
        PROVE  run'[run'[q].prev].pc \notin {"idle", "cached"} /\ OwnerOf[run'[q].prev] = OwnerOf[q]
    <3>1. Ongoing(q) /\ run'[q].prev = run[q].prev /\ run[q].prev # k
      BY <1>4, <1>6, <2>1
    <3>2. run[q].prev \in CompactKey /\ Ongoing(run[q].prev) /\ OwnerOf[run[q].prev] = OwnerOf[q]
      BY <1>9, <2>1, <3>1
    <3>3. run'[run[q].prev].pc \notin {"idle", "cached"}
      BY <1>4, <3>1, <3>2 DEF Ongoing
    <3> QED BY <3>1, <3>2, <3>3 DEF Ongoing
  <2>2. ASSUME NEW q \in CompactKey, NEW p \in CompactKey, Ongoing(q)', Ongoing(p)',
               OwnerOf[q] = OwnerOf[p], run'[q].prev = run'[p].prev
        PROVE  q = p
    <3>1. Ongoing(q) /\ Ongoing(p) /\ q # k /\ p # k
      BY <1>6, <2>2
    <3>2. CASE run[q].prev = run[p].prev
      BY <2>2, <3>1, <3>2 DEF ThreadsQueue
    <3>3. CASE run[q].prev # run[p].prev
      <4>1. \/ run[q].prev = k /\ run[p].prev = None
            \/ run[q].prev = None /\ run[p].prev = k
        BY <1>4, <2>2, <3>1, <3>3
      <4>2. OwnerOf[q] = o
        BY <1>1, <1>9, <2>2, <3>1, <4>1 DEF o
      <4> QED BY <1>10, <2>2, <3>1, <4>1, <4>2
    <3> QED BY <3>2, <3>3
  <2>3. ASSUME NEW p \in Owner
        PROVE  /\ gate'[p] # None => run'[gate'[p]].pc \notin {"idle", "cached"} /\ OwnerOf[gate'[p]] = p
               /\ \A q \in CompactKey : Ongoing(q)' /\ OwnerOf[q] = p =>
                     gate'[p] # None /\ run'[q].prev # gate'[p]
    <3>1. gate[p] # None => gate[p] \in CompactKey /\ Ongoing(gate[p]) /\ OwnerOf[gate[p]] = p
      BY DEF TypeOK, ThreadsQueue
    <3>2. gate'[p] \in {None, gate[p]} /\ gate'[p] # k
      BY <1>1, <1>5, <3>1 DEF o
    <3>3. gate'[p] # None => run'[gate'[p]].pc \notin {"idle", "cached"} /\ OwnerOf[gate'[p]] = p
      BY <1>4, <3>1, <3>2 DEF Ongoing
    <3>4. ASSUME NEW q \in CompactKey, Ongoing(q)', OwnerOf[q] = p
          PROVE  gate'[p] # None /\ run'[q].prev # gate'[p]
      <4>1. Ongoing(q) /\ q # k
        BY <1>6, <3>4
      <4>2. gate[p] # None /\ run[q].prev # gate[p]
        BY <3>4, <4>1 DEF ThreadsQueue
      <4>3. gate'[p] = gate[p]
        BY <1>5, <1>11, <3>4, <4>1
      <4> QED BY <1>4, <4>1, <4>2, <4>3
    <3> QED BY <3>3, <3>4 DEF Ongoing
  <2>4. ASSUME NEW K \in SUBSET {q \in CompactKey : Ongoing(q)'}, K # {}
        PROVE  \E q \in K : run'[q].prev \notin K
    <3>1. K \in SUBSET {q \in CompactKey : Ongoing(q)}
      BY <1>6
    <3>2. PICK q \in K : run[q].prev \notin K
      BY <2>4, <3>1 DEF ThreadsQueue
    <3>3. q \in CompactKey /\ q # k /\ None \notin K
      BY <1>1, <1>6
    <3> QED BY <1>4, <3>2, <3>3
  <2> QED BY <2>1, <2>2, <2>3, <2>4 DEF ThreadsQueue, Ongoing
<1> QED BY <1>7, <1>8, <1>12

-----------------------------------------------------------------------------
(* Every step keeps the invariant *)

LEMMA RequestSteps ==
  ASSUME TypeOK, NEW r \in Request, NEW pc \in {"idle", "waiting", "attached"},
         NEW S \in SUBSET Session
  PROVE  /\ Ended(r) => /\ request' \in [Request -> RequestState] /\ request'[r].pc = "idle"
                        /\ \A q \in Request \ {r} : request'[q] = request[q]
         /\ GoesOn(r, pc, S) => /\ request' \in [Request -> RequestState]
                                /\ request'[r].pc = pc /\ request'[r].key = request[r].key
                                /\ \A q \in Request \ {r} : request'[q] = request[q]
<1>1. NoRequest \in RequestState /\ NoRequest.pc = "idle"
  BY DEF NoRequest, RequestState
<1>2. request[r] \in RequestState
  BY DEF TypeOK
<1> DEFINE x == [request[r] EXCEPT !.pc = pc, !.on = S]
<1>3. x \in RequestState /\ x.pc = pc /\ x.key = request[r].key
  BY <1>2 DEF RequestState
<1>4. GoesOn(r, pc, S) => request' = [request EXCEPT ![r] = x]
  BY DEF GoesOn
<1> HIDE DEF x
<1> QED BY <1>1, <1>3, <1>4 DEF TypeOK, Ended

LEMMA LookupKeeps == ASSUME Inv, NEW r \in Request, Lookup(r) PROVE Inv'
<1> USE DEF outside, compactions
<1>1. TypeOK
  BY DEF Inv
<1> SUFFICES ASSUME NEW k \in Key,
               \/ FindExisting(r, k) \/ WaitForRetirement(r, k) \/ StartRefused(r, k)
               \/ \E s \in Session :
                    \/ Supersede(r, k, s) \/ RefuseOlder(r, k, s)
                    \/ WaitForPredecessor(r, k, s) \/ StartResponse(r, k, s)
             PROVE  Inv'
  BY DEF Lookup
<1>2. ASSUME request[r].pc = "waiting", UNCHANGED <<surface, registry, run, gate, interrupted>>,
             Ended(r) \/ \E pc \in {"waiting", "attached"}, S \in SUBSET Session : GoesOn(r, pc, S)
      PROVE  Inv'
  <2>1. /\ request' \in [Request -> RequestState]
        /\ \A q \in Request : request'[q].pc # "idle" =>
              request[q].pc # "idle" /\ request'[q].key = request[q].key
    BY <1>1, <1>2, RequestSteps
  <2> QED BY <1>2, <2>1, RequestKeeps
<1>3. CASE FindExisting(r, k)
  <2>1. {entries[k]} \in SUBSET Session
    BY <1>1, <1>3 DEF FindExisting, TypeOK
  <2> QED BY <1>2, <1>3, <2>1 DEF FindExisting, Looks
<1>4. CASE WaitForRetirement(r, k)
  <2>1. Retiring(k) \in SUBSET Session
    BY <1>1, SessionsAssumption DEF Retiring, TypeOK
  <2> QED BY <1>2, <1>4, <2>1 DEF WaitForRetirement, Looks
<1>5. CASE StartRefused(r, k)
  BY <1>2, <1>5 DEF StartRefused, Clear, Looks
<1>6. ASSUME NEW s \in Session, Supersede(r, k, s)
      PROVE  Inv'
  <2>1. surface[s] \in Surface /\ s \in Registered /\ {s} \in SUBSET Registered
    BY <1>1, <1>6 DEF Supersede, Predecessor, TypeOK
  <2>2. \A p \in Session : /\ Steady(surface[p], CancelledAll(Retirable({s}), TRUE)[p])
                           /\ p \in Retirable({s}) /\ Running(p)
                                 => CancelledAll(Retirable({s}), TRUE)[p].cancelled
    BY <1>1, CancelMany
  <2> DEFINE all == CancelledAll(Retirable({s}), TRUE)
  <2>3. all = [p \in Session |-> all[p]] /\ all \in [Session -> Surface]
    BY <2>2 DEF CancelledAll, Steady
  <2>4. surface' = [all EXCEPT ![s].superseded = TRUE]
    BY <1>6 DEF Supersede
  <2> HIDE DEF all
  <2>5. /\ surface' \in [Session -> Surface]
        /\ \A p \in Session \ {s} : surface'[p] = all[p]
        /\ Steady(surface[s], surface'[s]) /\ (surface'[s].cancelled <=> all[s].cancelled)
    <3>1. ASSUME NEW x \in Surface
          PROVE  /\ [x EXCEPT !.superseded = TRUE] \in Surface
                 /\ [x EXCEPT !.superseded = TRUE].cancelled = x.cancelled
                 /\ \A y : Steady(y, x) => Steady(y, [x EXCEPT !.superseded = TRUE])
      BY DEF Surface, Steady
    <3>2. Steady(surface[s], all[s]) /\ s \in Session /\ all[s] \in Surface
      BY <2>1, <2>2, <2>3, <1>6 DEF all
    <3>3. surface' = [all EXCEPT ![s] = [all[s] EXCEPT !.superseded = TRUE]]
      BY <2>4
    <3>4. /\ surface'[s] = [all[s] EXCEPT !.superseded = TRUE]
          /\ \A p \in Session \ {s} : surface'[p] = all[p]
      BY <2>3, <3>2, <3>3
    <3> QED BY <2>3, <3>1, <3>2, <3>3, <3>4
  <2>6. AllSteady /\ \A p \in Retirable({s}) : Running(p) => surface'[p].cancelled
    BY <2>2, <2>5 DEF AllSteady, all, Retirable
  <2>7. /\ BeginRetirement({s}) /\ entries' = entries /\ UNCHANGED <<gate, run, interrupted>>
        /\ heads' \in [Conv -> Session \union {None}] /\ GoesOn(r, "waiting", {s})
        /\ request[r].pc # "idle"
    BY <1>1, <1>6, WithoutTypes DEF Supersede, Clear, Looks
  <2>8. entries' \in [Key -> Session \union {None}]
    BY <1>1, <2>7 DEF TypeOK
  <2>9. RegistrySound' /\ HeldOnRecord' /\ RetiresSome
    BY <2>1, <2>6, <2>7, <2>8, RetirementKeeps DEF Inv, SessionsInv
  <2>10. AbortsOnly
    BY <1>1, <2>7 DEF AbortsOnly, TypeOK
  <2>11. RequestsEnd
    <3>1. /\ request' \in [Request -> RequestState]
          /\ \A q \in Request : request'[q].pc # "idle" =>
                request[q].pc # "idle" /\ request'[q].key = request[q].key
      BY <1>1, <2>7, RequestSteps
    <3> QED BY <2>7, <3>1 DEF RequestsEnd, Inv, SessionsInv, InterruptedStops
  <2>12. StopsInterrupted
    <3>1. \A p \in Registered : Running(p) /\ TurnOf[surface[p].key] \in interrupted
             => surface'[p].cancelled
      BY <2>6 DEF Inv, SessionsInv, InterruptReaches, AllSteady, Steady, Registered, TypeOK, Running
    <3> QED BY <2>7, <3>1 DEF StopsInterrupted, Inv, SessionsInv, InterruptedStops, TypeOK
  <2> QED BY <2>6, <2>7, <2>9, <2>10, <2>11, <2>12, StoppingKeeps
<1>7. ASSUME NEW s \in Session, RefuseOlder(r, k, s) \/ WaitForPredecessor(r, k, s)
      PROVE  Inv'
  BY <1>2, <1>7 DEF RefuseOlder, WaitForPredecessor, Clear, Looks
<1> QED BY <1>3, <1>4, <1>5, <1>6, <1>7, StartResponseKeeps

\* What an interruption asks is already true when nothing new is interrupted.
LEMMA NothingInterrupted ==
  ASSUME Inv, AllSteady, UNCHANGED interrupted,
         \A q \in CompactKey : run[q].aborted => run'[q].aborted
  PROVE  StopsInterrupted
<1>1. \A p \in Registered : Running(p) /\ TurnOf[surface[p].key] \in interrupted
         => surface'[p].cancelled
  BY DEF Inv, SessionsInv, InterruptReaches, AllSteady, Steady, Registered, TypeOK, Running
<1> QED BY <1>1 DEF StopsInterrupted, Inv, SessionsInv, InterruptedStops, TypeOK

LEMMA ObservesKeeps == ASSUME Inv, NEW r \in Request, Observes(r) PROVE Inv'
<1> USE DEF outside, compactions
<1>1. TypeOK
  BY DEF Inv
<1>2. /\ Ended(r) /\ UNCHANGED <<run, gate, interrupted>>
      /\ request' \in [Request -> RequestState]
      /\ \A q \in Request : request'[q].pc # "idle" =>
            request[q].pc # "idle" /\ request'[q].key = request[q].key
  BY <1>1, RequestSteps DEF Observes, ObserverDone, ObserverFails, ObserverRetires
<1>3. AbortsOnly
  BY <1>1, <1>2 DEF AbortsOnly, TypeOK
<1>4. RequestsEnd
  BY <1>2 DEF RequestsEnd, Inv, SessionsInv, InterruptedStops
<1>5. CASE UNCHANGED <<surface, registry>>
  BY <1>2, <1>5, RequestKeeps
<1>6. ASSUME NEW s \in Session, ObserverFails(r, s)
      PROVE  Inv'
  <2>1. AllSteady /\ UNCHANGED registry
    BY <1>1, <1>6, CancelOne DEF ObserverFails
  <2>2. RegistrySound' /\ HeldOnRecord' /\ RetiresSome
    BY <1>1, <2>1, RegistrySame DEF Inv, SessionsInv
  <2> QED BY <1>2, <1>3, <1>4, <2>1, <2>2, NothingInterrupted, StoppingKeeps DEF AbortsOnly
<1>7. ASSUME NEW s \in Registered, surface' = CancelledAll(Retirable({s}), FALSE),
             RemoveAndRetire({s})
      PROVE  Inv'
  <2>1. {s} \in SUBSET Registered
    BY <1>7
  <2>2. \A p \in Session : /\ Steady(surface[p], surface'[p])
                           /\ p \in Retirable({s}) /\ Running(p) => surface'[p].cancelled
    BY <1>1, <1>7, CancelMany
  <2>3. AllSteady /\ \A p \in Retirable({s}) : Running(p) => surface'[p].cancelled
    BY <1>7, <2>2, RegisteredFacts DEF AllSteady, Steady, CancelledAll, Retirable, Inv, SessionsInv
  <2>4. /\ entries' \in [Key -> Session \union {None}]
        /\ heads' \in [Conv -> Session \union {None}]
        /\ \A q \in Key : entries'[q] # entries[q] => entries'[q] = None /\ entries[q] \in {s}
    BY <1>1, <1>7, WithoutTypes DEF RemoveAndRetire, EntriesWithout
  <2>5. RegistrySound' /\ HeldOnRecord' /\ RetiresSome
    BY <1>1, <1>7, <2>1, <2>3, <2>4, RetirementKeeps DEF Inv, SessionsInv, RemoveAndRetire
  <2> QED BY <1>2, <1>3, <1>4, <2>3, <2>5, NothingInterrupted, StoppingKeeps DEF AbortsOnly
<1> QED BY <1>5, <1>6, <1>7 DEF Observes, ObserverDone, ObserverRetires

LEMMA RequestActions ==
  ASSUME Inv, NEW r \in Request,
         \/ \E k \in Key : Arrive(r, k)
         \/ RequestGoesOn(r) \/ ClientDisconnects(r) \/ Observes(r)
  PROVE  Inv'
<1> USE DEF outside, compactions
<1>1. TypeOK
  BY DEF Inv
<1>2. ASSUME NEW k \in Key, Arrive(r, k)
      PROVE  Inv'
  <2> DEFINE x == [pc |-> "waiting", key |-> k, on |-> {}]
  <2>1. x \in RequestState /\ x.key = k
    BY DEF RequestState
  <2>2. request' = [request EXCEPT ![r] = x] /\ TurnOf[k] \notin interrupted
        /\ UNCHANGED <<surface, registry, run, gate, interrupted>>
    BY <1>2 DEF Arrive
  <2> HIDE DEF x
  <2>3. /\ request' \in [Request -> RequestState] /\ request'[r].key = k
        /\ \A q \in Request \ {r} : request'[q] = request[q]
    BY <1>1, <2>1, <2>2 DEF TypeOK
  <2> QED BY <2>2, <2>3, RequestKeeps
<1>3. CASE WaitFails(r) \/ ClientDisconnects(r)
  <2>1. Ended(r) /\ UNCHANGED <<surface, registry, run, gate, interrupted>>
    BY <1>3 DEF WaitFails, ClientDisconnects
  <2>2. /\ request' \in [Request -> RequestState] /\ request'[r].pc = "idle"
        /\ \A q \in Request \ {r} : request'[q] = request[q]
    BY <1>1, <2>1, RequestSteps
  <2> QED BY <2>1, <2>2, RequestKeeps
<1> QED BY <1>2, <1>3, LookupKeeps, ObservesKeeps DEF RequestGoesOn

\* A compaction moves on with the surfaces and the registry as they are, with one surface
\* cancelled, or by closing its conversation.
LEMMA RunStays ==
  ASSUME Inv, UNCHANGED <<surface, registry, request, gate, interrupted>>,
         NEW k \in CompactKey, NEW place \in Place \ {"idle", "cached", "gate"},
         Moves(k, place, run[k].surf), Ongoing(k),
         place # "winding" => run[k].prev = None /\ run[k].pc \notin {"fresh", "winding"},
         \A s \in Driven(k) \intersect Session : Running(s) => s \in Driven(k)'
  PROVE  Inv'
<1>1. Closes
  BY ClosesNothing DEF Inv
<1>2. \A s \in Driven(k) \ {None} : s \in Session
  BY DEF Driven, Inv, TypeOK, Run
<1> QED BY <1>1, <1>2, RunMoveKeeps

LEMMA RunCancels ==
  ASSUME Inv, UNCHANGED <<registry, request, gate, interrupted>>,
         NEW k \in CompactKey, NEW place \in Place \ {"idle", "cached", "gate"},
         NEW reason \in BOOLEAN,
         surface' = [surface EXCEPT ![run[k].surf] = Cancelled(@, reason)],
         Moves(k, place, run[k].surf), Ongoing(k),
         place # "winding" => run[k].prev = None /\ run[k].pc \notin {"fresh", "winding"}
  PROVE  Inv'
<1>1. TypeOK /\ run[k].surf \in Session \union {None}
  BY DEF Inv, TypeOK, Run
<1>2. AllSteady /\ (run[k].surf \in Session /\ Running(run[k].surf)
                       => surface'[run[k].surf].cancelled)
  BY <1>1, CancelOne
<1>3. Closes
  BY <1>1, <1>2 DEF Closes, registry, TypeOK
<1>4. \A s \in Driven(k) \ {None} : s = run[k].surf /\ s \in Session
  BY <1>1 DEF Driven
<1> QED BY <1>2, <1>3, <1>4, RunMoveKeeps

LEMMA RunCloses ==
  ASSUME Inv, Closes, UNCHANGED <<request, gate, interrupted>>, NEW k \in CompactKey,
         NEW place \in {"retiring", "winding", "cleaning"},
         Moves(k, place, run[k].surf), Ongoing(k), run[k].pc \notin {"gate", "fresh", "winding"},
         \A s \in Driven(k) \intersect Session : Running(s) => surface[s].cancelled
  PROVE  Inv'
<1>1. \A s \in Driven(k) \ {None} : s \in Session
  BY DEF Driven, Inv, TypeOK, Run
<1>2. \A s \in Driven(k) \ {None} : Running(s) => surface'[s].cancelled
  BY <1>1 DEF Closes, AllSteady, Steady, Running
<1>3. run[k].prev = None
  BY DEF Inv, FreshOwned
<1>4. place \in Place \ {"idle", "cached", "gate"}
  BY DEF Place
<1> QED BY <1>2, <1>3, <1>4, RunMoveKeeps

LEMMA RunWaits ==
  ASSUME Inv, NEW k \in CompactKey,
         GateOpens(k) \/ EndsEarly(k) \/ HandoffMissing(k) \/ CleanedUp(k)
  PROVE  Inv'
<1> USE DEF outside
<1>1. TypeOK /\ run[k] \in Run
  BY DEF Inv, TypeOK
<1>2. CASE GateOpens(k)
  <2> DEFINE x == [run[k] EXCEPT !.pc = "conversation", !.on = convRetirement[ConvOf[k]]]
  <2>1. convRetirement[ConvOf[k]] \in SUBSET Session
    BY <1>1, SessionsAssumption DEF TypeOK
  <2>2. x \in Run /\ x.pc = "conversation" /\ x.prev = run[k].prev
        /\ x.aborted = run[k].aborted /\ x.surf = run[k].surf
    BY <1>1, <2>1 DEF Run, Place
  <2>3. run' = [run EXCEPT ![k] = x]
    BY <1>2 DEF GateOpens
  <2> HIDE DEF x
  <2>4. Moves(k, "conversation", run[k].surf)
    BY <1>1, <2>2, <2>3, MovesBy
  <2>5. /\ run[k].pc = "gate" /\ run[k].prev = None
        /\ UNCHANGED <<surface, registry, request, gate, interrupted>>
    BY <1>2 DEF GateOpens, At
  <2> QED BY <2>4, <2>5, RunStays DEF Driven, Ongoing, Place
<1>3. CASE EndsEarly(k)
  <2>1. /\ run[k].pc \in {"gate", "conversation"} /\ Moves(k, "winding", run[k].surf)
        /\ UNCHANGED <<surface, registry, request, gate, interrupted>>
    BY <1>1, <1>3, SomeMoves DEF EndsEarly, Place
  <2> QED BY <2>1, RunStays DEF Driven, Ongoing, Place
<1>4. CASE HandoffMissing(k)
  <2>1. PICK place \in {"grace", "unwinding"} : Goes(k, place)
    BY <1>4 DEF HandoffMissing
  <2>2. Moves(k, place, run[k].surf)
    BY <1>1, <2>1, SomeMoves DEF Place
  <2>3. /\ run[k].pc = "handoff" /\ ~Running(run[k].surf)
        /\ UNCHANGED <<surface, registry, request, gate, interrupted>>
    BY <1>4 DEF HandoffMissing, At
  <2>4. run[k].prev = None
    BY <2>3 DEF Inv, FreshOwned, Ongoing
  <2> QED BY <2>2, <2>3, <2>4, RunStays DEF Driven, Ongoing, Place
<1>5. CASE CleanedUp(k)
  <2>1. /\ run[k].pc = "cleaning" /\ Moves(k, "winding", run[k].surf)
        /\ UNCHANGED <<surface, registry, request, gate, interrupted>>
    BY <1>1, <1>5, SomeMoves DEF CleanedUp, Succeeds, Place
  <2> QED BY <2>1, RunStays DEF Driven, Ongoing, Place
<1> QED BY <1>2, <1>3, <1>4, <1>5

LEMMA RunStarts ==
  ASSUME Inv, NEW k \in CompactKey,
         Inspect(k) \/ SourceSettles(k) \/ Retired(k) \/ FreshAnswered(k)
  PROVE  Inv'
<1> USE DEF outside
<1>1. TypeOK /\ run[k] \in Run /\ heads[ConvOf[k]] \in Session \union {None}
  BY SessionsAssumption DEF Inv, TypeOK
<1>2. /\ UNCHANGED <<registry, request, gate, interrupted>>
      /\ run[k].pc \in {"conversation", "settling", "retiring", "fresh"}
      /\ run[k].pc = "fresh" => ~Running(run[k].surf)
  BY DEF Inspect, SourceSettles, Retired, FreshAnswered, At, Running, Released
<1>3. Ongoing(k) /\ run[k].prev = None /\ \A p \in Session : p \in Driven(k) => ~Running(p)
  BY <1>2 DEF Ongoing, Driven, Inv, FreshOwned
<1>4. ASSUME StartFresh(k) PROVE Inv'
  <2>1. CASE Moves(k, "winding", run[k].surf) /\ UNCHANGED surface
    BY <1>2, <1>3, <2>1, RunStays DEF Place
  <2>2. CASE \E s \in Session : Starts(k, s, "fresh")
    BY <1>2, <1>3, <2>2, StartKeeps
  <2> QED BY <1>1, <1>4, <2>1, <2>2, StartFreshMoves
<1>5. ASSUME NEW source \in Session \union {None}, NEW preserve \in BOOLEAN,
             StartHandoff(k, source, preserve), ~run[k].aborted, run[k].pc # "fresh"
      PROVE  Inv'
  <2>1. CASE Moves(k, "unwinding", run[k].surf) /\ UNCHANGED surface
    BY <1>2, <1>3, <1>5, <2>1, RunStays DEF Place
  <2>2. CASE \E s \in Session : Starts(k, s, "handoff")
    BY <1>2, <1>3, <2>2, StartKeeps
  <2> QED BY <1>1, <1>5, <2>1, <2>2, StartHandoffMoves
<1>6. CASE Inspect(k)
  <2> DEFINE source == heads[ConvOf[k]]
             x == [run[k] EXCEPT !.pc = "settling", !.source = source]
  <2>1. x \in Run /\ x.pc = "settling" /\ x.prev = run[k].prev
        /\ x.aborted = run[k].aborted /\ x.surf = run[k].surf
    BY <1>1 DEF Run, Place
  <2> HIDE DEF x
  <2>2. CASE run' = [run EXCEPT ![k] = x] /\ UNCHANGED surface
    <3>1. Moves(k, "settling", run[k].surf)
      BY <1>1, <2>1, <2>2, MovesBy
    <3>2. run[k].pc = "conversation"
      BY <1>6 DEF Inspect, At
    <3> QED BY <1>2, <1>3, <2>2, <3>1, <3>2, RunStays DEF Place
  <2>3. CASE StartHandoff(k, source, Answered(source))
    <3>1. Answered(source) \in BOOLEAN
      BY DEF Answered
    <3> HIDE DEF source
    <3> QED BY <1>1, <1>5, <1>6, <2>3, <3>1 DEF Inspect, At, source
  <2> QED BY <1>4, <1>6, <2>2, <2>3 DEF Inspect, x
<1>7. CASE SourceSettles(k)
  <2>1. run[k].source \in Session \union {None} /\ run[k].pc # "fresh" /\ ~run[k].aborted
    BY <1>1, <1>7 DEF SourceSettles, At, Run
  <2> QED BY <1>5, <1>7, <2>1 DEF SourceSettles
<1>8. CASE Retired(k)
  <2>1. CASE Fails(k) /\ UNCHANGED surface
    <3>1. Moves(k, "winding", run[k].surf)
      BY <1>1, <2>1, SomeMoves DEF Place
    <3> QED BY <1>2, <1>3, <2>1, <3>1, RunStays DEF Place
  <2> QED BY <1>4, <1>8, <2>1 DEF Retired
<1>9. CASE FreshAnswered(k)
  <2>1. CASE Succeeds(k) /\ UNCHANGED surface
    <3>1. Moves(k, "winding", run[k].surf)
      BY <1>1, <2>1, SomeMoves DEF Succeeds, Place
    <3> QED BY <1>2, <1>3, <2>1, <3>1, RunStays DEF Place
  <2> QED BY <1>4, <1>9, <2>1 DEF FreshAnswered
<1> QED BY <1>6, <1>7, <1>8, <1>9

LEMMA RunEndsWork ==
  ASSUME Inv, NEW k \in CompactKey,
         \/ SourceFails(k) \/ AbortedSettling(k) \/ Unwound(k) \/ Commit(k)
         \/ HandoffLost(k) \/ FreshFails(k) \/ Submit(k)
  PROVE  Inv'
<1> USE DEF outside
<1>1. TypeOK /\ RegistrySound /\ run[k] \in Run
  BY DEF Inv, TypeOK, SessionsInv
<1>2. ASSUME NEW next \in {"fail", "fresh"}, GivesUp(k, next), UNCHANGED <<request, gate, interrupted>>,
             run[k].pc \in {"settling", "unwinding"}
      PROVE  Inv'
  <2>1. Closes /\ (Moves(k, "retiring", run[k].surf) \/ Moves(k, "winding", run[k].surf))
    BY <1>1, <1>2, GivesUpFacts
  <2> QED BY <1>2, <2>1, RunCloses DEF Ongoing, Driven
<1>3. CASE SourceFails(k) \/ AbortedSettling(k) \/ Unwound(k)
  <2>1. \E next \in {"fail", "fresh"} : GivesUp(k, next)
    BY <1>3 DEF SourceFails, AbortedSettling, Unwound
  <2> QED BY <1>2, <1>3, <2>1 DEF SourceFails, AbortedSettling, Unwound, At
<1>4. CASE Commit(k)
  <2>1. Closes /\ Moves(k, "cleaning", run[k].surf)
    BY <1>1, <1>4, CloseConversationFacts DEF Commit, Place
  <2>2. run[k].pc = "accepted" /\ ~Running(run[k].surf) /\ UNCHANGED <<request, gate, interrupted>>
    BY <1>4 DEF Commit, At
  <2> QED BY <2>1, <2>2, RunCloses DEF Ongoing, Driven
<1>5. CASE HandoffLost(k)
  <2>1. /\ run[k].pc \in {"handoff", "grace", "accepted"} /\ Goes(k, "unwinding")
        /\ surface' = [surface EXCEPT ![run[k].surf] = Cancelled(@, FALSE)]
        /\ UNCHANGED <<registry, request, gate, interrupted>>
    BY <1>5 DEF HandoffLost, At
  <2>2. Moves(k, "unwinding", run[k].surf) /\ Ongoing(k) /\ run[k].prev = None
    BY <1>1, <2>1, SomeMoves DEF Place, Ongoing, Inv, FreshOwned
  <2> QED BY <2>1, <2>2, RunCancels DEF Place
<1>6. CASE FreshFails(k)
  <2>1. /\ run[k].pc = "fresh" /\ Fails(k)
        /\ surface' = [surface EXCEPT ![run[k].surf] = Cancelled(@, TRUE)]
        /\ UNCHANGED <<registry, request, gate, interrupted>>
    BY <1>6 DEF FreshFails
  <2>2. Moves(k, "winding", run[k].surf) /\ Ongoing(k)
    BY <1>1, <2>1, SomeMoves DEF Place, Ongoing
  <2> QED BY <2>1, <2>2, RunCancels DEF Place
<1>7. CASE Submit(k)
  <2> DEFINE x == [run[k] EXCEPT !.pc = "accepted", !.accepted = TRUE]
  <2>1. x \in Run /\ x.pc = "accepted" /\ x.prev = run[k].prev
        /\ x.aborted = run[k].aborted /\ x.surf = run[k].surf
    BY <1>1 DEF Run, Place
  <2>2. run' = [run EXCEPT ![k] = x]
    BY <1>7 DEF Submit
  <2> HIDE DEF x
  <2>3. Moves(k, "accepted", run[k].surf)
    BY <1>1, <2>1, <2>2, MovesBy
  <2>4. /\ run[k].pc \in {"handoff", "grace"}
        /\ surface' = [surface EXCEPT ![run[k].surf] = Cancelled(@, FALSE)]
        /\ UNCHANGED <<registry, request, gate, interrupted>>
    BY <1>7 DEF Submit
  <2>5. Ongoing(k) /\ run[k].prev = None
    BY <2>4 DEF Ongoing, Inv, FreshOwned
  <2> QED BY <2>3, <2>4, <2>5, RunCancels DEF Place
<1> QED BY <1>3, <1>4, <1>5, <1>6, <1>7

\* The abort signal of some runs, after some surfaces were already cancelled.
LEMMA AbortFacts ==
  ASSUME TypeOK, NEW K, NEW surfaces, surfaces = [s \in Session |-> surfaces[s]],
         \A s \in Session : Steady(surface[s], surfaces[s]),
         AbortRuns(K), surface' = AbortDriven(K, surfaces)
  PROVE  /\ AllSteady /\ AbortsOnly
         /\ \A s \in Session : Running(s) /\ surfaces[s].cancelled => surface'[s].cancelled
         /\ \A q \in CompactKey : Ongoing(q) /\ q \in K => run'[q].aborted
<1>1. \A s \in Session :
         /\ Steady(surface[s], surface'[s])
         /\ surfaces[s].cancelled => (Running(s) => surface'[s].cancelled)
         /\ Running(s) /\ (\E k \in K : Ongoing(k) /\ s \in Driven(k)) => surface'[s].cancelled
  BY AbortDrivenFacts
<1>2. surface' = [s \in Session |-> surface'[s]]
  BY DEF AbortDriven
<1>3. AllSteady
  BY <1>1, <1>2 DEF AllSteady, Steady
<1>4. ASSUME NEW q \in CompactKey
      PROVE  /\ run'[q] \in Run
             /\ run'[q].pc = run[q].pc /\ run'[q].prev = run[q].prev /\ run'[q].surf = run[q].surf
             /\ run[q].aborted => run'[q].aborted
             /\ run'[q].aborted => run[q].aborted \/ (q \in K /\ Ongoing(q))
             /\ Ongoing(q) /\ q \in K => run'[q].aborted
  <2>1. run[q] \in Run
    BY DEF TypeOK
  <2>2. run'[q] = IF q \in K /\ Ongoing(q) THEN [run[q] EXCEPT !.aborted = TRUE] ELSE run[q]
    BY DEF AbortRuns
  <2>3. CASE q \in K /\ Ongoing(q)
    <3> DEFINE x == [run[q] EXCEPT !.aborted = TRUE]
    <3>1. x \in Run /\ x.aborted
      BY <2>1 DEF Run
    <3>2. x.pc = run[q].pc /\ x.prev = run[q].prev /\ x.surf = run[q].surf
      BY <2>1 DEF Run
    <3>3. run'[q] = x
      BY <2>2, <2>3
    <3> HIDE DEF x
    <3> QED BY <2>3, <3>1, <3>2, <3>3
  <2>4. CASE ~(q \in K /\ Ongoing(q))
    BY <2>1, <2>2, <2>4
  <2> QED BY <2>3, <2>4
<1>5. run' \in [CompactKey -> Run]
  <2>1. run' = [q \in CompactKey |-> run'[q]]
    BY DEF AbortRuns
  <2> QED BY <1>4, <2>1
<1>6. AbortsOnly
  BY <1>1, <1>4, <1>5 DEF AbortsOnly
<1> QED BY <1>1, <1>3, <1>4, <1>6

LEMMA DeadlineKeeps == ASSUME Inv, NEW k \in CompactKey, DeadlinePasses(k) PROVE Inv'
<1>1. TypeOK
  BY DEF Inv
<1>2. surface = [s \in Session |-> surface[s]]
      /\ \A s \in Session : Steady(surface[s], surface[s])
  BY <1>1, SteadySame DEF TypeOK
<1>3. AllSteady /\ AbortsOnly
  BY <1>1, <1>2, AbortFacts DEF DeadlinePasses
<1>4. UNCHANGED <<registry, request, gate, interrupted>>
  BY DEF DeadlinePasses, outside
<1>5. RegistrySound' /\ HeldOnRecord' /\ RetiresSome
  BY <1>3, <1>4, RegistrySame DEF Inv, SessionsInv
<1>6. RequestsEnd
  BY <1>4 DEF RequestsEnd, Inv, TypeOK, SessionsInv, InterruptedStops
<1>7. StopsInterrupted
  BY <1>3, <1>4, NothingInterrupted DEF AbortsOnly
<1> QED BY <1>3, <1>4, <1>5, <1>6, <1>7, StoppingKeeps

LEMMA CancelTraceKeeps == ASSUME Inv, NEW k \in Key, CancelTrace(k) PROVE Inv'
<1>1. TypeOK
  BY DEF Inv
<1>2. AllSteady /\ AbortsOnly
  <2>1. CASE /\ entries[k] # None
             /\ surface' = [surface EXCEPT ![entries[k]] = Cancelled(@, TRUE)]
             /\ UNCHANGED run
    <3>1. entries[k] \in Session \union {None}
      BY <1>1 DEF TypeOK
    <3>2. AllSteady
      BY <1>1, <2>1, <3>1, CancelOne
    <3> QED BY <1>1, <2>1, <3>2 DEF AbortsOnly, TypeOK
  <2>2. CASE AbortRuns({k}) /\ surface' = AbortDriven({k}, surface)
    <3>1. surface = [s \in Session |-> surface[s]]
          /\ \A s \in Session : Steady(surface[s], surface[s])
      BY <1>1, SteadySame DEF TypeOK
    <3> QED BY <1>1, <2>2, <3>1, AbortFacts
  <2> QED BY <2>1, <2>2 DEF CancelTrace
<1>3. UNCHANGED <<registry, request, gate, interrupted>>
  BY DEF CancelTrace
<1>4. RegistrySound' /\ HeldOnRecord' /\ RetiresSome
  BY <1>2, <1>3, RegistrySame DEF Inv, SessionsInv
<1>5. RequestsEnd
  BY <1>3 DEF RequestsEnd, Inv, TypeOK, SessionsInv, InterruptedStops
<1>6. StopsInterrupted
  BY <1>2, <1>3, NothingInterrupted DEF AbortsOnly
<1> QED BY <1>2, <1>3, <1>4, <1>5, <1>6, StoppingKeeps

\* Everything of a set of executions is aborted and leaves the registry.
LEMMA AbortAndRetire ==
  ASSUME Inv, NEW K, NEW S \in SUBSET Registered, NEW reason \in BOOLEAN, AbortRuns(K),
         surface' = AbortDriven(K, CancelledAll(Retirable(S), reason)),
         entries' = EntriesWithout(S), heads' \in [Conv -> Session \union {None}],
         BeginRetirement(S)
  PROVE  /\ AllSteady /\ AbortsOnly /\ RegistrySound' /\ HeldOnRecord' /\ RetiresSome
         /\ \A s \in S : Running(s) => surface'[s].cancelled
         /\ \A q \in CompactKey : Ongoing(q) /\ q \in K => run'[q].aborted
<1>1. TypeOK
  BY DEF Inv
<1> DEFINE all == CancelledAll(Retirable(S), reason)
<1>2. all = [s \in Session |-> all[s]]
  BY DEF CancelledAll
<1>3. \A s \in Session : /\ Steady(surface[s], all[s])
                         /\ s \in Retirable(S) /\ Running(s) => all[s].cancelled
  BY <1>1, CancelMany
<1> HIDE DEF all
<1>4. /\ AllSteady /\ AbortsOnly
      /\ \A s \in Session : Running(s) /\ all[s].cancelled => surface'[s].cancelled
      /\ \A q \in CompactKey : Ongoing(q) /\ q \in K => run'[q].aborted
  BY <1>1, <1>2, <1>3, AbortFacts DEF all
<1>5. \A s \in Retirable(S) : Running(s) => surface'[s].cancelled
  <2>1. Retirable(S) \subseteq Session
    BY <1>1 DEF Retirable, Registered, TypeOK
  <2> QED BY <1>3, <1>4, <2>1
<1>6. /\ entries' \in [Key -> Session \union {None}]
      /\ \A q \in Key : entries'[q] # entries[q] => entries'[q] = None /\ entries[q] \in S
  BY <1>1, WithoutTypes DEF EntriesWithout
<1>7. /\ RegistrySound' /\ HeldOnRecord' /\ RetiresSome
      /\ \A s \in S : Running(s) => surface'[s].cancelled
  BY <1>1, <1>4, <1>5, <1>6, RetirementKeeps DEF Inv, SessionsInv
<1> QED BY <1>4, <1>7

LEMMA InterruptKeeps == ASSUME Inv, NEW t \in Turn, Interrupt(t) PROVE Inv'
<1> DEFINE K == {k \in CompactKey : TurnOf[k] = t}
           S == {s \in Registered : TurnOf[surface[s].key] = t}
<1>1. TypeOK
  BY DEF Inv
<1>2. /\ AbortRuns(K) /\ surface' = AbortDriven(K, CancelledAll(Retirable(S), TRUE))
      /\ RemoveAndRetire(S) /\ gate' = gate /\ interrupted' = interrupted \union {t}
      /\ request' = [r \in Request |->
            IF request[r].pc # "idle" /\ TurnOf[request[r].key] = t THEN NoRequest ELSE request[r]]
  BY DEF Interrupt
<1>3. S \in SUBSET Registered
  OBVIOUS
<1>4. heads' \in [Conv -> Session \union {None}]
  BY <1>1, <1>2, WithoutTypes DEF RemoveAndRetire
<1> HIDE DEF K, S
<1>5. /\ AllSteady /\ AbortsOnly /\ RegistrySound' /\ HeldOnRecord' /\ RetiresSome
      /\ \A s \in S : Running(s) => surface'[s].cancelled
      /\ \A q \in CompactKey : Ongoing(q) /\ q \in K => run'[q].aborted
  BY <1>2, <1>3, <1>4, AbortAndRetire DEF RemoveAndRetire
<1>6. RequestsEnd
  <2>1. NoRequest \in RequestState /\ NoRequest.pc = "idle"
    BY DEF NoRequest, RequestState
  <2>2. request' \in [Request -> RequestState]
    BY <1>1, <1>2, <2>1 DEF TypeOK
  <2>3. \A r \in Request : request'[r].pc # "idle" =>
           request'[r] = request[r] /\ TurnOf[request[r].key] # t
    BY <1>2, <2>1
  <2> QED BY <1>2, <2>2, <2>3 DEF RequestsEnd, Inv, SessionsInv, InterruptedStops
<1>7. StopsInterrupted
  <2>1. interrupted' \in SUBSET Turn
    BY <1>1, <1>2 DEF TypeOK
  <2>2. ASSUME NEW q \in CompactKey, Ongoing(q), TurnOf[q] \in interrupted'
        PROVE  run'[q].aborted
    <3>1. CASE TurnOf[q] = t
      BY <1>5, <2>2, <3>1 DEF K
    <3>2. CASE TurnOf[q] # t
      <4>1. run[q].aborted
        BY <1>2, <2>2, <3>2 DEF Inv, SessionsInv, InterruptedStops
      <4> QED BY <1>5, <4>1 DEF AbortsOnly
    <3> QED BY <3>1, <3>2
  <2>3. ASSUME NEW s \in Registered, Running(s), TurnOf[surface[s].key] \in interrupted'
        PROVE  surface'[s].cancelled
    <3>1. CASE TurnOf[surface[s].key] = t
      BY <1>5, <2>3, <3>1 DEF S
    <3>2. CASE TurnOf[surface[s].key] # t
      <4>1. s \in Session /\ surface[s].cancelled
        BY <1>1, <1>2, <2>3, <3>2 DEF Inv, SessionsInv, InterruptReaches, Registered, TypeOK
      <4> QED BY <1>5, <2>3, <4>1 DEF AllSteady, Steady, Running
    <3> QED BY <3>1, <3>2
  <2> QED BY <2>1, <2>2, <2>3 DEF StopsInterrupted
<1> QED BY <1>2, <1>5, <1>6, <1>7, StoppingKeeps

LEMMA CancelAllKeeps == ASSUME Inv, CancelAll PROVE Inv'
<1>1. TypeOK
  BY DEF Inv
<1>2. /\ AbortRuns(CompactKey)
      /\ surface' = AbortDriven(CompactKey, CancelledAll(Retirable(Registered), FALSE))
      /\ entries' = EntriesWithout(Registered) /\ heads' = [c \in Conv |-> None]
      /\ BeginRetirement(Registered) /\ UNCHANGED <<gate, interrupted>>
      /\ request' = [r \in Request |-> NoRequest]
  BY DEF CancelAll
<1>3. heads' \in [Conv -> Session \union {None}]
  BY <1>2
<1>4. AllSteady /\ AbortsOnly /\ RegistrySound' /\ HeldOnRecord' /\ RetiresSome
  BY <1>2, <1>3, AbortAndRetire
<1>5. RequestsEnd
  <2>1. NoRequest \in RequestState /\ NoRequest.pc = "idle"
    BY DEF NoRequest, RequestState
  <2> QED BY <1>2, <2>1 DEF RequestsEnd
<1>6. StopsInterrupted
  BY <1>2, <1>4, NothingInterrupted DEF AbortsOnly
<1> QED BY <1>2, <1>4, <1>5, <1>6, StoppingKeeps

LEMMA InitInv == Init => Inv
<1> SUFFICES ASSUME Init PROVE Inv
  OBVIOUS
<1>1. NoRun \in Run /\ NoRun.pc = "idle" /\ NoRequest \in RequestState /\ NoRequest.pc = "idle"
  BY DEF NoRun, Run, Place, NoRequest, RequestState
<1> DEFINE x == [kind |-> "unused", key |-> None, phase |-> "none", outcome |-> "none",
                 cancelled |-> FALSE, attached |-> FALSE, superseded |-> FALSE]
<1>2. x \in Surface /\ x.kind = "unused" /\ x.phase = "none"
  BY DEF Surface
<1>3. surface = [s \in Session |-> x]
  BY DEF Init
<1> HIDE DEF x
<1>4. \A s \in Session : surface[s].kind = "unused" /\ surface[s].phase = "none" /\ ~Running(s)
  BY <1>2, <1>3 DEF Running
<1>5. \A k \in CompactKey : run[k].pc = "idle" /\ ~Ongoing(k)
  BY <1>1 DEF Init, Ongoing
<1>6. TypeOK
  BY <1>1, <1>2, <1>3 DEF Init, TypeOK
<1>7. SessionsInv
  BY <1>1, <1>4, <1>5 DEF Init, SessionsInv, SurfacesSound, RegistrySound, HeldOnRecord,
     RunsReachable, InterruptReaches, InterruptedStops
<1>8. FreshOwned
  BY <1>4, <1>5 DEF FreshOwned
<1>9. ThreadsQueue
  BY <1>5 DEF Init, ThreadsQueue
<1> QED BY <1>6, <1>7, <1>8, <1>9 DEF Inv

LEMMA NextInv == ASSUME Inv, [Next]_vars PROVE Inv'
<1>1. ASSUME NEW s \in Session, Ends(s) PROVE Inv'
  BY <1>1, RunEndsKeeps DEF Ends
<1>2. ASSUME NEW r \in Request,
             \/ \E k \in Key : Arrive(r, k)
             \/ RequestGoesOn(r) \/ ClientDisconnects(r) \/ Observes(r)
      PROVE  Inv'
  BY <1>2, RequestActions
<1>3. ASSUME NEW k \in CompactKey,
             Register(k) \/ RunGoesOn(k) \/ Submit(k) \/ DeadlinePasses(k)
      PROVE  Inv'
  BY <1>3, RegisterKeeps, OwnerSettlesKeeps, RunWaits, RunStarts, RunEndsWork, DeadlineKeeps
     DEF RunGoesOn
<1>4. ASSUME NEW t \in Turn, Interrupt(t) PROVE Inv'
  BY <1>4, InterruptKeeps
<1>5. ASSUME NEW k \in Key, CancelTrace(k) PROVE Inv'
  BY <1>5, CancelTraceKeeps
<1>6. CASE CancelAll
  BY <1>6, CancelAllKeeps
<1>7. CASE UNCHANGED vars
  <2>1. \A r \in Request : request'[r].pc # "idle" =>
           request[r].pc # "idle" /\ request'[r].key = request[r].key
    BY <1>7 DEF vars
  <2>2. request' \in [Request -> RequestState]
    BY <1>7 DEF vars, Inv, TypeOK
  <2>3. UNCHANGED <<surface, registry, compactions, interrupted>>
    BY <1>7 DEF vars, outside
  <2> QED BY <2>1, <2>2, <2>3, RequestKeeps
<1> QED BY <1>1, <1>2, <1>3, <1>4, <1>5, <1>6, <1>7 DEF Next

-----------------------------------------------------------------------------
(* What follows of it *)

(***************************************************************************)
(* The inductive invariant: types, the registry's records of everything    *)
(* that still holds a surface or works, the reach of an interruption and   *)
(* the queues of the compactions (turn-execution.ts, compaction-handoff.ts). *)
(***************************************************************************)
THEOREM SessionsInvariant == Spec => [](TypeOK /\ SessionsInv /\ QueueInv)
<1>1. Init => Inv
  BY InitInv
<1>2. Inv /\ [Next]_vars => Inv'
  BY NextInv
<1>3. Inv => TypeOK /\ SessionsInv /\ QueueInv
  BY DEF Inv, SessionsInv, QueueInv
<1> QED BY <1>1, <1>2, <1>3, PTL DEF Spec

(***************************************************************************)
(* Interrupting a native turn reaches every browser run that works for it, *)
(* in the registry, retiring, detached or known only to a compaction       *)
(* (server.ts:1018-1029, compaction-handoff.ts:597-610).                   *)
(***************************************************************************)
THEOREM InterruptReachesEverything == Spec => []InterruptReaches
<1>1. SessionsInv => InterruptReaches
  BY DEF SessionsInv
<1> QED BY <1>1, SessionsInvariant, PTL

(***************************************************************************)
(* The fresh summarization turns of one native thread never overlap        *)
(* (compaction-handoff.ts:558-566).                                        *)
(***************************************************************************)
THEOREM FreshTurnsNeverOverlap == Spec => []FreshTurnsSerialize
<1>1. TypeOK /\ QueueInv => FreshTurnsSerialize
  <2> SUFFICES ASSUME TypeOK, SurfacesSound, FreshOwned, ThreadsQueue,
                      NEW s \in Session, NEW p \in Session,
                      surface[s].kind = "fresh", surface[p].kind = "fresh",
                      Running(s), Running(p), OwnerOf[surface[s].key] = OwnerOf[surface[p].key]
               PROVE  s = p
    BY DEF QueueInv, FreshTurnsSerialize
  <2> SUFFICES ASSUME NEW k, NEW q, k = surface[s].key, q = surface[p].key PROVE s = p
    OBVIOUS
  <2>1. k \in CompactKey /\ q \in CompactKey
    BY DEF SurfacesSound
  <2>2. Ongoing(k) /\ Ongoing(q) /\ run[k].prev = None /\ run[q].prev = None
    BY DEF FreshOwned, Ongoing
  <2>3. k = q
    BY <2>1, <2>2 DEF ThreadsQueue
  <2> QED BY <2>3 DEF FreshOwned
<1> QED BY <1>1, SessionsInvariant, PTL

\* Only getOrCreateAfterOwnerRetirement makes a surface a response.
LEMMA NewResponse ==
  ASSUME TypeOK, RegistrySound, [Next]_vars, NEW s \in Unused, surface'[s].kind = "response"
  PROVE  \E r \in Request, k \in Key : StartResponse(r, k, s)
<1>1. s \in Session /\ surface[s].kind = "unused" /\ surface[s] \in Surface
  BY DEF Unused, TypeOK
<1>2. ~AllSteady /\ surface' # surface
  BY <1>1 DEF AllSteady, Steady
<1>3. ASSUME NEW k \in CompactKey, NEW p \in Session, NEW kind \in {"handoff", "fresh"}
      PROVE  ~Starts(k, p, kind)
  <2> SUFFICES ASSUME Starts(k, p, kind) PROVE FALSE
    OBVIOUS
  <2>1. p # s
    BY DEF Starts
  <2>2. surface'[s] = surface[s]
    <3> DEFINE x == surface'[p]
    <3>1. surface' = [surface EXCEPT ![p] = x]
      BY DEF Starts
    <3> HIDE DEF x
    <3> QED BY <1>1, <2>1, <3>1 DEF TypeOK
  <2> QED BY <1>1, <2>2
<1>4. ASSUME NEW p \in Session PROVE ~Ends(p)
  <2> SUFFICES ASSUME NEW phase, NEW outcome, RunEnds(p, phase, outcome) PROVE FALSE
    BY DEF Ends
  <2> DEFINE x == [surface[p] EXCEPT !.phase = phase, !.cancelled = FALSE,
                                     !.outcome = IF @ = "pending" THEN outcome ELSE @]
  <2>1. surface[p] \in Surface
    BY DEF TypeOK
  <2>2. x.kind = surface[p].kind
    BY <2>1 DEF Surface
  <2>3. surface' = [surface EXCEPT ![p] = x]
    BY DEF RunEnds
  <2> HIDE DEF x
  <2> QED BY <1>1, <2>2, <2>3 DEF TypeOK
<1>5. ASSUME NEW r \in Request, NEW k \in Key, NEW p \in Session, Supersede(r, k, p)
      PROVE  FALSE
  <2>1. Steady(surface[s], CancelledAll(Retirable({p}), TRUE)[s])
    BY <1>1, CancelMany
  <2> DEFINE all == CancelledAll(Retirable({p}), TRUE)
  <2>2. all[s].kind = "unused" /\ DOMAIN all = Session
    BY <1>1, <2>1 DEF Steady, CancelledAll
  <2>3. surface' = [all EXCEPT ![p].superseded = TRUE]
    BY <1>5 DEF Supersede
  <2> HIDE DEF all
  <2>4. all[s] \in Surface
    BY <2>1 DEF Steady, all
  <2> QED BY <1>1, <2>2, <2>3, <2>4 DEF Surface
<1>6. ASSUME NEW r \in Request, NEW k \in Key, NEW p \in Session, StartResponse(r, k, p)
      PROVE  p = s
  BY <1>1, <1>6 DEF StartResponse, TypeOK
<1>7. ASSUME NEW r \in Request,
             \/ \E k \in Key : Arrive(r, k)
             \/ RequestGoesOn(r) \/ ClientDisconnects(r) \/ Observes(r)
      PROVE  \E k \in Key : StartResponse(r, k, s)
  <2>1. ASSUME NEW p \in Session, ObserverFails(r, p) PROVE FALSE
    BY <1>2, <2>1, CancelOne DEF ObserverFails
  <2>2. ASSUME NEW p \in Session, ObserverRetires(r, p) PROVE FALSE
    <3>1. surface' = CancelledAll(Retirable({p}), FALSE)
      BY <1>2, <2>2 DEF ObserverRetires
    <3>2. Steady(surface[s], surface'[s])
      BY <1>1, <3>1, CancelMany
    <3> QED BY <1>1, <3>2 DEF Steady
  <2>3. ~ObserverDone(r) /\ ~WaitFails(r) /\ ~ClientDisconnects(r)
    BY <1>2 DEF ObserverDone, WaitFails, ClientDisconnects
  <2>4. \A k \in Key : ~Arrive(r, k)
    BY <1>2 DEF Arrive
  <2>5. \A k \in Key : ~FindExisting(r, k) /\ ~WaitForRetirement(r, k) /\ ~StartRefused(r, k)
    BY <1>2 DEF FindExisting, WaitForRetirement, StartRefused
  <2>6. \A k \in Key, p \in Session : ~RefuseOlder(r, k, p) /\ ~WaitForPredecessor(r, k, p)
    BY <1>2 DEF RefuseOlder, WaitForPredecessor
  <2> QED BY <1>5, <1>6, <1>7, <2>1, <2>2, <2>3, <2>4, <2>5, <2>6
          DEF RequestGoesOn, Lookup, Observes
<1>8. ASSUME NEW k \in CompactKey PROVE ~Register(k) /\ ~RunGoesOn(k) /\ ~Submit(k) /\ ~DeadlinePasses(k)
  <2>1. run[k].surf \in Session \union {None} /\ run[k].source \in Session \union {None}
        /\ heads[ConvOf[k]] \in Session \union {None}
    BY SessionsAssumption DEF TypeOK, Run
  <2>2. ~Closes /\ \A next \in {"fail", "fresh"} : ~GivesUp(k, next)
    BY <1>2, GivesUpFacts DEF Closes
  <2>3. ~StartFresh(k)
    BY <1>2, <1>3, StartFreshMoves
  <2>4. \A source \in Session \union {None}, preserve \in BOOLEAN :
           ~run[k].aborted => ~StartHandoff(k, source, preserve)
    BY <1>2, <1>3, StartHandoffMoves
  <2>5. \A reason \in BOOLEAN : surface' # [surface EXCEPT ![run[k].surf] = Cancelled(@, reason)]
    BY <1>2, <2>1, CancelOne
  <2>6. ~Register(k) /\ ~GateOpens(k) /\ ~EndsEarly(k) /\ ~HandoffMissing(k) /\ ~CleanedUp(k)
        /\ ~OwnerSettles(k)
    BY <1>2 DEF Register, GateOpens, EndsEarly, HandoffMissing, CleanedUp, OwnerSettles
  <2>7. ~Inspect(k)
    <3>1. \A x \in Session \union {None} : Answered(x) \in BOOLEAN
      BY DEF Answered
    <3> QED BY <1>2, <2>1, <2>3, <2>4, <3>1 DEF Inspect, At
  <2>8. ~SourceSettles(k) /\ ~Retired(k) /\ ~FreshAnswered(k)
    BY <1>2, <2>1, <2>3, <2>4 DEF SourceSettles, Retired, FreshAnswered, At
  <2>9. ~SourceFails(k) /\ ~AbortedSettling(k) /\ ~Unwound(k)
    BY <2>2 DEF SourceFails, AbortedSettling, Unwound
  <2>10. ~Commit(k)
    BY <2>2, CloseConversationFacts DEF Commit, Place
  <2>11. ~HandoffLost(k) /\ ~FreshFails(k) /\ ~Submit(k)
    BY <2>5 DEF HandoffLost, FreshFails, Submit
  <2>12. ~DeadlinePasses(k)
    <3>1. surface = [p \in Session |-> surface[p]]
          /\ \A p \in Session : Steady(surface[p], surface[p])
      BY SteadySame DEF TypeOK
    <3> QED BY <1>2, <3>1, AbortFacts DEF DeadlinePasses
  <2> QED BY <2>6, <2>7, <2>8, <2>9, <2>10, <2>11, <2>12 DEF RunGoesOn
<1>9. ASSUME NEW K, NEW S, NEW reason \in BOOLEAN,
             surface' = AbortDriven(K, CancelledAll(S, reason))
      PROVE  FALSE
  <2> DEFINE all == CancelledAll(S, reason)
  <2>1. \A p \in Session : Steady(surface[p], all[p])
    BY CancelMany
  <2> HIDE DEF all
  <2>2. Steady(surface[s], surface'[s])
    BY <1>1, <1>9, <2>1, AbortDrivenFacts DEF all
  <2> QED BY <1>1, <2>2 DEF Steady
<1>10. \A t \in Turn : ~Interrupt(t)
  BY <1>9 DEF Interrupt
<1>11. ~CancelAll
  BY <1>9 DEF CancelAll
<1>12. ASSUME NEW k \in Key PROVE ~CancelTrace(k)
  <2>1. ASSUME surface' = [surface EXCEPT ![entries[k]] = Cancelled(@, TRUE)] PROVE FALSE
    <3>1. entries[k] \in Session \union {None}
      BY DEF TypeOK
    <3> QED BY <1>2, <2>1, <3>1, CancelOne
  <2>2. ASSUME surface' = AbortDriven({k}, surface) PROVE FALSE
    <3>1. \A p \in Session : Steady(surface[p], surface[p])
      BY SteadySame DEF TypeOK
    <3>2. Steady(surface[s], surface'[s])
      BY <1>1, <2>2, <3>1, AbortDrivenFacts
    <3> QED BY <1>1, <3>2 DEF Steady
  <2> QED BY <2>1, <2>2 DEF CancelTrace
<1> QED BY <1>2, <1>4, <1>7, <1>8, <1>10, <1>11, <1>12 DEF Next, vars

(***************************************************************************)
(* A native thread's next response starts only when each earlier response  *)
(* of the thread has released its surface, or was taken out by the         *)
(* retirement of its conversation (turn-execution.ts:637-676).             *)
(***************************************************************************)
THEOREM ResponsesStartAfterPredecessors == Spec => StartsAfterPredecessors
<1> DEFINE Step ==
      \A s \in Unused : \A o \in Owner :
         s \in Responses(o)' => \A p \in Responses(o) : Released(p) \/ ~surface[p].attached
<1>1. ASSUME TypeOK, SessionsInv, [Next]_vars PROVE Step
  <2> SUFFICES ASSUME NEW s \in Unused, NEW o \in Owner, surface'[s].kind = "response",
                      OwnerOf[surface'[s].key] = o,
                      NEW p \in Session, surface[p].kind = "response", NEW q, q = surface[p].key,
                      OwnerOf[q] = o, surface[p].attached, ~Released(p)
               PROVE  FALSE
    BY DEF Responses
  <2>1. PICK r \in Request, k \in Key : StartResponse(r, k, s)
    BY <1>1, NewResponse DEF SessionsInv
  <2>2. surface'[s].key = k
    BY <1>1, <2>1, StartedFacts DEF StartResponse, TypeOK, Unused
  <2>3. /\ Clear(r, k) /\ Predecessor(k) = {} /\ OwnerOf[k] = o
    BY <2>1, <2>2 DEF StartResponse
  <2>4. entries[k] = None /\ ownerRetirement[o] = {}
    BY <2>3 DEF Clear, Retiring
  <2>5. entries[q] = p /\ q \in Key /\ p # None
    BY <1>1, <2>4, SessionsAssumption DEF SessionsInv, HeldOnRecord, SurfacesSound
  <2>6. p \in Registered /\ q # k
    BY <2>4, <2>5 DEF Registered
  <2> QED BY <2>3, <2>6 DEF Predecessor
<1>2. (TypeOK /\ SessionsInv) /\ [Next]_vars => [Step]_vars
  BY <1>1
<1>3. Spec => [](TypeOK /\ SessionsInv)
  BY SessionsInvariant, PTL
<1>4. Spec => [][Step]_vars
  BY <1>2, <1>3, PTL DEF Spec
<1> QED BY <1>4 DEF StartsAfterPredecessors
=============================================================================
