---------------------- MODULE MetadataEnrichment_proofs ----------------------
(***************************************************************************)
(* Proofs about MetadataEnrichment, for any films, matches, passes and     *)
(* requests, any batch and any number of faults and restarts: types, that  *)
(* a torn poster takes two enrichments that write it at once, and that a   *)
(* recorded poster is on disk unless a sweep took it.                      *)
(***************************************************************************)
EXTENDS MetadataEnrichment, FiniteSetTheorems, WellFoundedInduction, TLAPS

-----------------------------------------------------------------------------
(* The helpers on tables *)

LEMMA PutType ==
    ASSUME NEW f, NEW S, NEW T, IsPartial(f, S, T), NEW x \in S, NEW v \in T
    PROVE  IsPartial(Put(f, x, v), S, T)
  BY DEF IsPartial, Put

LEMMA WithoutType ==
    ASSUME NEW f, NEW S, NEW T, IsPartial(f, S, T), NEW X
    PROVE  IsPartial(Without(f, X), S, T)
  <1>1. Without(f, X) = [y \in DOMAIN f \ X |-> f[y]]
    BY DEF Without, Restrict
  <1> QED
    BY <1>1 DEF IsPartial

LEMMA ExceptType ==
    ASSUME NEW f, NEW S, NEW T, IsPartial(f, S, T), NEW x \in DOMAIN f, NEW v \in T
    PROVE  IsPartial([f EXCEPT ![x] = v], S, T)
  BY DEF IsPartial

LEMMA EntryType ==
    ASSUME NEW f, NEW S, NEW T, IsPartial(f, S, T), NEW x \in DOMAIN f
    PROVE  x \in S /\ f[x] \in T
  BY DEF IsPartial

LEMMA NothingType == \A S, T : IsPartial(Nothing, S, T)
  BY DEF IsPartial, Nothing

LEMMA PutFacts ==
    ASSUME NEW f, NEW x, NEW v
    PROVE  /\ DOMAIN Put(f, x, v) = DOMAIN f \cup {x} /\ Put(f, x, v)[x] = v
           /\ \A y \in DOMAIN f : y # x => Put(f, x, v)[y] = f[y]
  BY DEF Put

LEMMA WithoutFacts ==
    ASSUME NEW f, NEW S
    PROVE  /\ DOMAIN Without(f, S) = DOMAIN f \ S
           /\ \A y \in DOMAIN f \ S : Without(f, S)[y] = f[y]
  BY DEF Without, Restrict

-----------------------------------------------------------------------------
(* Ids and batches *)

\* A bounded set of naturals that has an element has a greatest one.
LEMMA GreatestOf ==
    ASSUME NEW n \in Nat, NEW S, S \subseteq 0 .. n, S # {}
    PROVE  \E i \in S : \A j \in S : i >= j
  <1> DEFINE D == {n - i : i \in S}
  <1>1. D \subseteq Nat /\ D # {}
    <2>1. \A i \in S : n - i \in Nat
      OBVIOUS
    <2>2. PICK i \in S : TRUE
      OBVIOUS
    <2>3. n - i \in D
      BY <2>2
    <2> QED
      BY <2>1, <2>3
  <1> HIDE DEF D
  <1>2. PICK d \in D : \A e \in D : ~(<<e, d>> \in OpToRel(<, Nat))
    BY <1>1, NatLessThanWellFounded, WFMin, Zenon
  <1>3. PICK i \in S : d = n - i
    BY <1>2 DEF D
  <1>4. ASSUME NEW j \in S PROVE i >= j
    <2>1. n - j \in D
      BY DEF D
    <2>2. n - j \in Nat /\ d \in Nat
      BY <1>1, <1>2, <2>1
    <2>3. ~(n - j < d)
      BY <1>2, <2>1, <2>2 DEF OpToRel
    <2>4. i \in 0 .. n /\ j \in 0 .. n
      OBVIOUS
    <2> QED
      BY <1>3, <2>3, <2>4
  <1> QED
    BY <1>4

\* An id given to a title is one more than some id there, at most (INTEGER PRIMARY KEY).
LEMMA NextIdBound ==
    ASSUME NEW n \in Nat, DOMAIN rows \subseteq 1 .. n
    PROVE  NextId \in 1 .. (n + 1)
  <1> DEFINE S == DOMAIN rows \cup {0}
  <1>1. S \subseteq 0 .. n /\ S # {}
    OBVIOUS
  <1>2. \E i \in S : \A j \in S : i >= j
    BY <1>1, GreatestOf, Zenon
  <1>3. Max(S) \in S
    BY <1>2 DEF Max
  <1>4. Max(S) \in 0 .. n
    BY <1>1, <1>3
  <1> QED
    BY <1>4 DEF NextId

\* The smaller of two limits.
LEMMA LimitFacts ==
    /\ Min({Batch, MaxLimit}) \in Nat /\ Min({Batch, MaxLimit}) <= MaxLimit
    /\ Min({Batch, MaxLimit}) <= Batch
  <1>1. Batch \in Nat /\ MaxLimit \in Nat
    BY EnrichmentAssumption
  <1>2. \E x \in {Batch, MaxLimit} : \A y \in {Batch, MaxLimit} : x =< y
    <2>1. CASE Batch <= MaxLimit
      BY <1>1, <2>1
    <2>2. CASE ~(Batch <= MaxLimit)
      BY <1>1, <2>2
    <2> QED
      BY <2>1, <2>2
  <1> QED
    BY <1>1, <1>2 DEF Min

\* The query keeps to its limit (list_pending_metadata): of a set of ids, those
\* that fewer than k others come before are at most k.
LEMMA LimitHolds ==
    ASSUME NEW n \in Nat, NEW P, P \subseteq 1 .. n, NEW k \in Nat
    PROVE  LET first == {id \in P : Cardinality({i \in P : i < id}) < k}
           IN  IsFiniteSet(first) /\ Cardinality(first) <= k
  <1> DEFINE first == {id \in P : Cardinality({i \in P : i < id}) < k}
  <1> SUFFICES IsFiniteSet(first) /\ Cardinality(first) <= k
    OBVIOUS
  <1>1. IsFiniteSet(1 .. n)
    BY FS_Interval
  <1>2. \A S : S \subseteq 1 .. n => IsFiniteSet(S)
    BY <1>1, FS_Subset, Zenon
  <1>3. first \subseteq P /\ IsFiniteSet(first)
    <2>1. first \subseteq P
      OBVIOUS
    <2>2. first \subseteq 1 .. n
      BY <2>1
    <2> HIDE DEF first
    <2> QED
      BY <1>2, <2>1, <2>2
  <1>4. CASE first = {}
    <2>1. Cardinality(first) = 0
      BY <1>4, FS_EmptySet
    <2> HIDE DEF first
    <2> QED
      BY <1>3, <2>1
  <1>5. CASE first # {}
    <2> HIDE DEF first
    <2>1. first \subseteq 0 .. n
      BY <1>3
    <2>2. PICK m \in first : \A j \in first : m >= j
      BY <1>5, <2>1, GreatestOf, Zenon
    <2> DEFINE before == {i \in P : i < m}
    <2>3. Cardinality(before) < k
      BY <2>2 DEF first
    <2>4. before \subseteq 1 .. n
      OBVIOUS
    <2>5. first \ {m} \subseteq before
      <3>1. ASSUME NEW j \in first \ {m} PROVE j \in P /\ j < m
        <4>1. j \in P /\ m \in P /\ j \in Nat /\ m \in Nat
          BY <1>3, <2>2
        <4>2. m >= j /\ j # m
          BY <2>2
        <4> QED
          BY <4>1, <4>2
      <3> QED
        BY <3>1
    <2> HIDE DEF before
    <2>6. IsFiniteSet(before)
      BY <1>2, <2>4
    <2>7. Cardinality(first \ {m}) <= Cardinality(before)
      BY <2>5, <2>6, FS_Subset
    <2>8. Cardinality(first \ {m}) = Cardinality(first) - 1
      BY <1>3, <2>2, FS_RemoveElement
    <2>9. Cardinality(first) \in Nat /\ Cardinality(before) \in Nat
      BY <1>3, <2>6, FS_CardinalityType
    <2> QED
      BY <1>3, <2>3, <2>7, <2>8, <2>9
  <1> QED
    BY <1>4, <1>5

-----------------------------------------------------------------------------
(* Types *)

\* What an enrichment has got by the stage it is at: the film it searches, the
\* match it fetches, and a file open while it writes one.
StageInv(t) ==
    /\ t.pc = "search" => t.film \in Film
    /\ t.pc \notin {"gate", "search"} => t.match \in Match
    /\ t.file = "none" <=> t.pc \notin {"writing", "renaming"}
StagedTask == {t \in Task : StageInv(t)}

RowsInv ==
    /\ added \in 0 .. MaxTitles /\ DOMAIN rows \subseteq 1 .. added
    /\ IsPartial(rows, Id, Row)
TaskInv == IsPartial(task, Slot, StagedTask)
FilesInv == IsPartial(posters, Id, File) /\ IsPartial(temps, Id, File)
PassInv == IsPartial(pass, Worker, Batching)
SweepInv == IsPartial(sweep, Sweeper, Sweeping)
BoundsInv ==
    /\ shared \subseteq Id /\ lost \subseteq Id /\ asked \in 0 .. MaxAsked
    /\ faults \in 0 .. MaxFaults /\ crashes \in 0 .. MaxCrashes

TypeInv == RowsInv /\ TaskInv /\ FilesInv /\ PassInv /\ SweepInv /\ BoundsInv

LEMMA TypeInvTypes == TypeInv => TypeOK
  <1> SUFFICES ASSUME TypeInv PROVE TypeOK
    OBVIOUS
  <1>1. IsPartial(task, Slot, Task)
    BY DEF TypeInv, TaskInv, IsPartial, StagedTask
  <1> QED
    BY <1>1 DEF TypeInv, RowsInv, FilesInv, PassInv, SweepInv, BoundsInv, TypeOK

\* The slot of a task, its task and its title are well formed.
LEMMA TaskFacts ==
    ASSUME TaskInv, NEW s \in DOMAIN task
    PROVE  /\ s \in Slot /\ task[s] \in Task /\ StageInv(task[s]) /\ task[s].id \in Id
           /\ task[s].got \in BOOLEAN /\ task[s].force \in BOOLEAN
  <1>1. s \in Slot /\ task[s] \in StagedTask
    BY EntryType DEF TaskInv
  <1> QED
    BY <1>1 DEF StagedTask, Task

LEMMA StartsTyped == Init => TypeInv
  <1> SUFFICES ASSUME Init PROVE TypeInv
    OBVIOUS
  <1>1. /\ rows = Nothing /\ posters = Nothing /\ temps = Nothing /\ pass = Nothing
        /\ task = Nothing /\ sweep = Nothing /\ shared = {} /\ lost = {}
        /\ added = 0 /\ asked = 0 /\ faults = 0 /\ crashes = 0
    BY DEF Init
  <1>2. DOMAIN rows = {}
    BY <1>1 DEF Nothing
  <1>3. RowsInv
    BY <1>1, <1>2, NothingType, EnrichmentAssumption DEF RowsInv
  <1>4. TaskInv /\ FilesInv /\ PassInv /\ SweepInv
    BY <1>1, NothingType DEF TaskInv, FilesInv, PassInv, SweepInv
  <1>5. BoundsInv
    BY <1>1, EnrichmentAssumption DEF BoundsInv
  <1> QED
    BY <1>3, <1>4, <1>5 DEF TypeInv

\* Titles: a row keeps its type when it is added, marked or persisted, and ids
\* are not given out beyond the rows ever added.
LEMMA MarkType ==
    ASSUME RowsInv, NEW id, NEW st \in State, Mark(id, st), UNCHANGED added
    PROVE  RowsInv'
  <1>1. CASE id \in DOMAIN rows
    <2>1. rows[id] \in Row
      BY <1>1, EntryType DEF RowsInv
    <2>2. [rows[id] EXCEPT !.state = st] \in Row
      BY <2>1 DEF Row
    <2>3. rows' = [rows EXCEPT ![id] = [rows[id] EXCEPT !.state = st]]
      BY <1>1 DEF Mark
    <2>4. IsPartial(rows', Id, Row) /\ DOMAIN rows' = DOMAIN rows
      BY <1>1, <2>2, <2>3, ExceptType DEF RowsInv
    <2> QED
      BY <2>4 DEF RowsInv
  <1>2. CASE id \notin DOMAIN rows
    BY <1>2 DEF Mark, RowsInv
  <1> QED
    BY <1>1, <1>2

\* The steps, flat.
LEMMA NextActions ==
    ASSUME [Next]_vars
    PROVE  \/ UNCHANGED vars \/ Restart
           \/ (\E film \in Film : AddTitle(film))
           \/ (\E id \in DOMAIN rows, w \in Sweeper : DeleteTitle(id, w))
           \/ (\E s \in Slot : Take(s) \/ Gate(s) \/ SearchAnswers(s) \/ DetailsArrive(s)
                  \/ KeepPoster(s) \/ FetchPoster(s) \/ CreateTemp(s) \/ WriteTemp(s) \/ Rename(s)
                  \/ RenameFails(s) \/ Persist(s) \/ ProviderFails(s) \/ NoPoster(s))
           \/ (\E w \in Worker : StartPass(w) \/ EndPass(w) \/ NextBatch(w))
           \/ (\E w \in Sweeper : StartSweep(w) \/ SweepReads(w) \/ EndSweep(w)
                  \/ (\E id \in Id : SweepDir(w, id)) \/ \E s \in Slot : SweepBeforeCreate(w, s))
           \/ (\E r \in Request : ClientLeaves(r)
                  \/ \E id \in DOMAIN rows : Refresh(r, id) \/ \E m \in Match : Pin(r, id, m))
           \/ (\E w \in Backfill, ids \in SUBSET Matched : StartBackfill(w, ids))
  BY DEF Next, TaskStep, Faulty, PassStep, SweepStep, Asked

\* What the steps that look after the others leave alone.
LEMMA RowsUnchanged ==
    /\ UNCHANGED vars \/ Restart => UNCHANGED <<rows, added>>
    /\ \A s : \/ Take(s) \/ Gate(s) \/ DetailsArrive(s) \/ KeepPoster(s) \/ FetchPoster(s)
              \/ CreateTemp(s) \/ WriteTemp(s) \/ Rename(s) \/ RenameFails(s) \/ NoPoster(s)
              => UNCHANGED <<rows, added>>
    /\ \A w : StartPass(w) \/ EndPass(w) \/ NextBatch(w) => UNCHANGED <<rows, added>>
    /\ \A w : \/ StartSweep(w) \/ SweepReads(w) \/ EndSweep(w)
              \/ (\E id : SweepDir(w, id)) \/ (\E s : SweepBeforeCreate(w, s))
              => UNCHANGED <<rows, added>>
    /\ \A r : ClientLeaves(r) \/ (\E id : Refresh(r, id) \/ \E m : Pin(r, id, m)) => UNCHANGED <<rows, added>>
    /\ \A w, ids : StartBackfill(w, ids) => UNCHANGED <<rows, added>>
  <1>1. UNCHANGED vars \/ Restart => UNCHANGED <<rows, added>>
    BY DEF vars, bounds, Restart
  <1>2. ASSUME NEW s, \/ Take(s) \/ Gate(s) \/ DetailsArrive(s) \/ KeepPoster(s) \/ FetchPoster(s)
                      \/ CreateTemp(s) \/ WriteTemp(s) \/ Rename(s) \/ RenameFails(s) \/ NoPoster(s)
        PROVE  UNCHANGED <<rows, added>>
    BY <1>2 DEF Take, Gate, DetailsArrive, KeepPoster, FetchPoster, CreateTemp, WriteTemp, Rename,
                RenameFails, NoPoster, bounds
  <1>3. \A w : StartPass(w) \/ EndPass(w) \/ NextBatch(w) => UNCHANGED <<rows, added>>
    BY DEF StartPass, EndPass, NextBatch, bounds
  <1>4. \A w : \/ StartSweep(w) \/ SweepReads(w) \/ EndSweep(w)
               \/ (\E id : SweepDir(w, id)) \/ (\E s : SweepBeforeCreate(w, s))
               => UNCHANGED <<rows, added>>
    BY DEF StartSweep, SweepReads, EndSweep, SweepDir, SweepBeforeCreate, RemoveDir, bounds
  <1>5. \A r : ClientLeaves(r) \/ (\E id : Refresh(r, id) \/ \E m : Pin(r, id, m)) => UNCHANGED <<rows, added>>
    BY DEF ClientLeaves, Refresh, Pin, bounds
  <1>6. \A w, ids : StartBackfill(w, ids) => UNCHANGED <<rows, added>>
    BY DEF StartBackfill
  <1> QED
    BY <1>1, <1>2, <1>3, <1>4, <1>5, <1>6

LEMMA RowsStep == TypeInv /\ [Next]_vars => RowsInv'
  <1> SUFFICES ASSUME TypeInv, [Next]_vars PROVE RowsInv'
    OBVIOUS
  <1>0. RowsInv /\ TaskInv
    BY DEF TypeInv
  <1>1. CASE UNCHANGED <<rows, added>>
    BY <1>0, <1>1 DEF RowsInv
  <1>2. ASSUME NEW film \in Film, AddTitle(film) PROVE RowsInv'
    <2>1. added \in Nat /\ added' = added + 1 /\ added' \in 0 .. MaxTitles
      BY <1>0, <1>2, EnrichmentAssumption DEF AddTitle, RowsInv
    <2>2. NextId \in 1 .. added'
      BY <1>0, <2>1, NextIdBound DEF RowsInv
    <2>3. NextId \in Id
      BY <2>1, <2>2, EnrichmentAssumption DEF Id
    <2> DEFINE row == [film |-> film, state |-> "pending", match |-> NoMatch, poster |-> FALSE]
    <2>4. row \in Row
      BY DEF Row, State
    <2>5. rows' = Put(rows, NextId, row)
      BY <1>2 DEF AddTitle
    <2> HIDE DEF row
    <2>6. IsPartial(rows', Id, Row)
      BY <1>0, <2>3, <2>4, <2>5, PutType DEF RowsInv
    <2>7. DOMAIN rows' = DOMAIN rows \cup {NextId}
      BY <2>5, PutFacts
    <2>8. DOMAIN rows' \subseteq 1 .. added'
      BY <1>0, <2>1, <2>2, <2>7 DEF RowsInv
    <2> QED
      BY <2>1, <2>6, <2>8 DEF RowsInv
  <1>3. ASSUME NEW id, NEW w, DeleteTitle(id, w) PROVE RowsInv'
    <2>1. rows' = Without(rows, {id}) /\ added' = added
      BY <1>3 DEF DeleteTitle
    <2>2. IsPartial(rows', Id, Row)
      BY <1>0, <2>1, WithoutType DEF RowsInv
    <2>3. DOMAIN rows' = DOMAIN rows \ {id}
      BY <2>1, WithoutFacts, Zenon
    <2> QED
      BY <1>0, <2>1, <2>2, <2>3 DEF RowsInv
  <1>4. ASSUME NEW s \in Slot, SearchAnswers(s) \/ ProviderFails(s) PROVE RowsInv'
    <2>1. added' = added
      BY <1>4 DEF SearchAnswers, ProviderFails, bounds
    <2>2. \/ rows' = rows
          \/ Mark(task[s].id, "unmatched") \/ Mark(task[s].id, "failed")
      BY <1>4 DEF SearchAnswers, ProviderFails
    <2>3. "unmatched" \in State /\ "failed" \in State
      BY DEF State
    <2>4. rows' = rows => RowsInv'
      BY <1>0, <2>1 DEF RowsInv
    <2> QED
      BY <1>0, <2>1, <2>2, <2>3, <2>4, MarkType
  <1>5. ASSUME NEW s \in Slot, Persist(s) PROVE RowsInv'
    <2> DEFINE id == task[s].id
               row == [rows[id] EXCEPT !.state = "matched", !.match = task[s].match,
                                       !.poster = @ \/ PosterRecorded(s)]
    <2>1. added' = added
      BY <1>5 DEF Persist, bounds
    <2>2. s \in DOMAIN task /\ task[s].pc = "persist"
      BY <1>5 DEF Persist, At
    <2>3. task[s].match \in Match /\ task[s].got \in BOOLEAN
      BY <1>0, <2>2, TaskFacts DEF StageInv
    <2>4. CASE id \in DOMAIN rows
      <3>1. rows' = [rows EXCEPT ![id] = row]
        BY <1>5, <2>4 DEF Persist
      <3>2. rows[id] \in Row
        BY <1>0, <2>4, EntryType DEF RowsInv
      <3>3. row \in Row
        BY <2>3, <3>2 DEF Row, State, PosterRecorded
      <3> HIDE DEF row, id
      <3>4. IsPartial(rows', Id, Row) /\ DOMAIN rows' = DOMAIN rows
        BY <1>0, <2>4, <3>1, <3>3, ExceptType DEF RowsInv
      <3> QED
        BY <1>0, <2>1, <3>4 DEF RowsInv
    <2>5. CASE id \notin DOMAIN rows
      BY <1>0, <1>5, <2>1, <2>5 DEF Persist, RowsInv
    <2> QED
      BY <2>4, <2>5
  <1> QED
    BY <1>1, <1>2, <1>3, <1>4, <1>5, NextActions, RowsUnchanged

-----------------------------------------------------------------------------
(* What a step does to the enrichments under way *)

\* A new entry and one that replaces another are put alike.
LEMMA ExceptPut ==
    ASSUME NEW f, NEW S, NEW T, IsPartial(f, S, T), NEW x \in DOMAIN f, NEW v
    PROVE  [f EXCEPT ![x] = v] = Put(f, x, v)
  BY DEF IsPartial, Put

\* The task of a slot ends, or it is there with no file open, before and after,
\* and has a poster only if it had one or there is one.
Steps(s) ==
    \/ task' = task
    \/ task' = Without(task, {s})
    \/ \E t \in StagedTask :
          /\ task' = Put(task, s, t) /\ t.file = "none"
          /\ s \in DOMAIN task => task[s].file = "none"
          /\ t.got => t.id \in DOMAIN posters \/ (s \in DOMAIN task /\ task[s].got /\ task[s].id = t.id)

\* A task that starts is staged and has no file.
LEMMA StartedFacts ==
    ASSUME NEW pc \in {"gate", "details"}, NEW id \in Id, NEW force \in BOOLEAN,
           NEW m \in Match \cup {NoMatch}, pc = "details" => m \in Match
    PROVE  /\ Started(pc, id, force, m) \in StagedTask
           /\ Started(pc, id, force, m).file = "none" /\ ~Started(pc, id, force, m).got
  BY DEF Started, StagedTask, StageInv, Task

\* Passes and requests start tasks, a client ends one.
LEMMA TakeSteps ==
    ASSUME TypeInv, NEW s, Take(s) PROVE Steps(s)
  <1>1. PICK id \in pass[s[1]].todo :
           IF s[1] \in Pass
           THEN task' = Put(task, s, Started("gate", id, FALSE, NoMatch))
           ELSE task' = IF id \in DOMAIN rows /\ rows[id].match # NoMatch
                        THEN Put(task, s, Started("details", id, TRUE, rows[id].match))
                        ELSE task
    BY DEF Take
  <1>2. s \notin DOMAIN task /\ s[1] \in DOMAIN pass
    BY DEF Take
  <1>3. pass[s[1]] \in Batching
    BY <1>2, EntryType DEF TypeInv, PassInv
  <1>4. id \in Id
    BY <1>1, <1>3 DEF Batching
  <1>5. CASE s[1] \in Pass
    <2>1. Started("gate", id, FALSE, NoMatch) \in StagedTask
          /\ Started("gate", id, FALSE, NoMatch).file = "none" /\ ~Started("gate", id, FALSE, NoMatch).got
      BY <1>4, StartedFacts
    <2> QED
      BY <1>1, <1>2, <1>5, <2>1 DEF Steps
  <1>6. CASE s[1] \notin Pass /\ id \in DOMAIN rows /\ rows[id].match # NoMatch
    <2>1. rows[id] \in Row
      BY <1>6, EntryType DEF TypeInv, RowsInv
    <2> DEFINE m == rows[id].match
    <2>2. m \in Match
      BY <1>6, <2>1 DEF Row
    <2>3. task' = Put(task, s, Started("details", id, TRUE, m))
      BY <1>1, <1>6
    <2> HIDE DEF m
    <2>4. Started("details", id, TRUE, m) \in StagedTask
          /\ Started("details", id, TRUE, m).file = "none" /\ ~Started("details", id, TRUE, m).got
      BY <1>4, <2>2, StartedFacts
    <2> QED
      BY <1>2, <2>3, <2>4 DEF Steps
  <1>7. CASE s[1] \notin Pass /\ ~(id \in DOMAIN rows /\ rows[id].match # NoMatch)
    BY <1>1, <1>7 DEF Steps
  <1> QED
    BY <1>5, <1>6, <1>7

LEMMA RequestSteps ==
    ASSUME TypeInv, NEW r \in Request,
           ClientLeaves(r) \/ \E id \in DOMAIN rows : Refresh(r, id) \/ \E m \in Match : Pin(r, id, m)
    PROVE  Steps(<<r, 1>>)
  <1>1. CASE ClientLeaves(r)
    BY <1>1 DEF ClientLeaves, Steps
  <1>2. ASSUME NEW id \in DOMAIN rows, Refresh(r, id) PROVE Steps(<<r, 1>>)
    <2>1. id \in Id
      BY EntryType DEF TypeInv, RowsInv
    <2>2. Started("gate", id, TRUE, NoMatch) \in StagedTask
          /\ Started("gate", id, TRUE, NoMatch).file = "none" /\ ~Started("gate", id, TRUE, NoMatch).got
      BY <2>1, StartedFacts
    <2> QED
      BY <1>2, <2>2 DEF Refresh, Steps
  <1>3. ASSUME NEW id \in DOMAIN rows, NEW m \in Match, Pin(r, id, m) PROVE Steps(<<r, 1>>)
    <2>1. id \in Id
      BY EntryType DEF TypeInv, RowsInv
    <2>2. Started("details", id, TRUE, m) \in StagedTask
          /\ Started("details", id, TRUE, m).file = "none" /\ ~Started("details", id, TRUE, m).got
      BY <2>1, StartedFacts
    <2> QED
      BY <1>3, <2>2 DEF Pin, Steps
  <1> QED
    BY <1>1, <1>2, <1>3

\* A task ends or goes on to the next await; none of these opens a file.
LEMMA EnrichSteps ==
    ASSUME TypeInv, NEW s,
           \/ Gate(s) \/ SearchAnswers(s) \/ DetailsArrive(s) \/ KeepPoster(s) \/ FetchPoster(s)
           \/ NoPoster(s) \/ ProviderFails(s) \/ RenameFails(s) \/ Persist(s)
    PROVE  Steps(s)
  <1>0. s \in DOMAIN task
    BY DEF Gate, SearchAnswers, DetailsArrive, KeepPoster, FetchPoster, NoPoster, ProviderFails,
           RenameFails, Persist, At
  <1>1. task[s] \in Task /\ StageInv(task[s]) /\ IsPartial(task, Slot, StagedTask)
    BY <1>0, TaskFacts DEF TypeInv, TaskInv
  <1>2. ASSUME NEW t \in StagedTask, task' = [task EXCEPT ![s] = t], t.file = "none", task[s].file = "none",
               t.got => t.id \in DOMAIN posters \/ (task[s].got /\ task[s].id = t.id)
        PROVE  Steps(s)
    <2>1. task' = Put(task, s, t)
      BY <1>0, <1>1, <1>2, ExceptPut
    <2> QED
      BY <1>0, <1>2, <2>1 DEF Steps
  <1>3. CASE \E b : Finish(s, b)
    BY <1>3 DEF Finish, Steps
  <1>4. CASE Gate(s) /\ ~\E b : Finish(s, b)
    <2> DEFINE id == task[s].id
    <2>1. id \in DOMAIN rows /\ task' = [task EXCEPT ![s].pc = "search", ![s].film = rows[id].film]
          /\ task[s].pc = "gate"
      BY <1>4 DEF Gate, At
    <2>2. rows[id].film \in Film
      <3>1. rows[id] \in Row
        BY <2>1, EntryType DEF TypeInv, RowsInv
      <3> QED
        BY <3>1 DEF Row
    <2> DEFINE t == [task[s] EXCEPT !.pc = "search", !.film = rows[id].film]
    <2>3. t \in StagedTask /\ t.file = "none" /\ task[s].file = "none" /\ t.got = task[s].got
          /\ t.id = task[s].id
      BY <1>1, <2>1, <2>2 DEF Task, StageInv, StagedTask
    <2>4. task' = [task EXCEPT ![s] = t]
      BY <2>1
    <2> HIDE DEF t
    <2> QED
      BY <1>2, <2>3, <2>4
  <1>5. CASE SearchAnswers(s) /\ ~\E b : Finish(s, b)
    <2> DEFINE m == Best[task[s].film]
               t == [task[s] EXCEPT !.pc = "details", !.match = m]
    <2>1. task[s].pc = "search" /\ m # NoMatch
          /\ task' = [task EXCEPT ![s].pc = "details", ![s].match = m]
      BY <1>5 DEF SearchAnswers, At
    <2>2. m \in Match
      BY <1>1, <2>1, EnrichmentAssumption DEF StageInv
    <2>3. t \in StagedTask /\ t.file = "none" /\ task[s].file = "none" /\ t.got = task[s].got
          /\ t.id = task[s].id
      BY <1>1, <2>1, <2>2 DEF Task, StageInv, StagedTask
    <2>4. task' = [task EXCEPT ![s] = t]
      BY <2>1
    <2> HIDE DEF t, m
    <2> QED
      BY <1>2, <2>3, <2>4
  <1>6. ASSUME NEW pc \in {"artwork", "fetching", "persist"}, Goto(s, pc),
               task[s].pc \in {"details", "artwork", "fetching"}
        PROVE  Steps(s)
    <2> DEFINE t == [task[s] EXCEPT !.pc = pc]
    <2>1. t \in StagedTask /\ t.file = "none" /\ task[s].file = "none" /\ t.got = task[s].got
          /\ t.id = task[s].id
      BY <1>1, <1>6 DEF Task, StageInv, StagedTask
    <2>2. task' = [task EXCEPT ![s] = t]
      BY <1>6 DEF Goto
    <2> HIDE DEF t
    <2> QED
      BY <1>2, <2>1, <2>2
  <1>7. CASE DetailsArrive(s) \/ FetchPoster(s) \/ NoPoster(s)
    BY <1>6, <1>7 DEF DetailsArrive, FetchPoster, NoPoster, At
  <1>8. CASE KeepPoster(s)
    <2> DEFINE t == [task[s] EXCEPT !.pc = "persist", !.got = TRUE]
    <2>1. task[s].pc = "artwork" /\ task[s].id \in DOMAIN posters
          /\ task' = [task EXCEPT ![s].pc = "persist", ![s].got = TRUE]
      BY <1>8 DEF KeepPoster, At
    <2>2. t \in StagedTask /\ t.file = "none" /\ task[s].file = "none" /\ t.id = task[s].id
      BY <1>1, <2>1 DEF Task, StageInv, StagedTask
    <2>3. task' = [task EXCEPT ![s] = t]
      BY <2>1
    <2> HIDE DEF t
    <2> QED
      BY <1>2, <2>1, <2>2, <2>3
  <1>9. CASE ProviderFails(s) \/ RenameFails(s) \/ Persist(s)
    BY <1>3, <1>9 DEF ProviderFails, RenameFails, Persist
  <1> QED
    BY <1>3, <1>4, <1>5, <1>7, <1>8, <1>9

\* Such a step keeps the tasks staged.
LEMMA StepsStaged ==
    ASSUME TaskInv, NEW s \in Slot, Steps(s) PROVE TaskInv'
  <1>1. CASE task' = task
    BY <1>1 DEF TaskInv
  <1>2. CASE task' = Without(task, {s})
    BY <1>2, WithoutType DEF TaskInv
  <1>3. ASSUME NEW t \in StagedTask, task' = Put(task, s, t) PROVE TaskInv'
    BY <1>3, PutType DEF TaskInv
  <1> QED
    BY <1>1, <1>2, <1>3 DEF Steps

\* The steps of write_atomic: the task that writes.
Opened(t) == [t EXCEPT !.pc = "writing", !.file = "tmp"]
Written(t) == [t EXCEPT !.pc = "renaming"]
Renamed(t) == [t EXCEPT !.pc = "persist", !.file = "none", !.got = TRUE]
Refiled(t, f) == [t EXCEPT !.file = f]

LEMMA WriterStages ==
    ASSUME TaskInv, NEW s \in DOMAIN task
    PROVE  /\ At(s, "fetching") => Opened(task[s]) \in StagedTask
           /\ At(s, "writing") => Written(task[s]) \in StagedTask
           /\ At(s, "renaming") => Renamed(task[s]) \in StagedTask
  <1>1. task[s] \in Task /\ StageInv(task[s])
    BY TaskFacts
  <1>2. At(s, "fetching") => Opened(task[s]) \in StagedTask
    BY <1>1 DEF Opened, At, Task, StageInv, StagedTask
  <1>3. At(s, "writing") => Written(task[s]) \in StagedTask
    BY <1>1 DEF Written, At, Task, StageInv, StagedTask
  <1>4. At(s, "renaming") => Renamed(task[s]) \in StagedTask
    BY <1>1 DEF Renamed, At, Task, StageInv, StagedTask
  <1> QED
    BY <1>2, <1>3, <1>4

\* What the file of another writer turns into stays one.
LEMMA OtherFile ==
    ASSUME NEW t \in StagedTask, NEW f \in {"none", "tmp", "final", "unlinked"},
           f = "none" <=> t.file = "none"
    PROVE  Refiled(t, f) \in StagedTask
  BY DEF Refiled, StagedTask, Task, StageInv

LEMMA RenameStaged ==
    ASSUME TaskInv, NEW s, Rename(s) PROVE TaskInv'
  <1> DEFINE other(o) == Refiled(task[o], Relinked(task[o].file))
             own == Renamed(task[s])
             id == task[s].id
  <1>1. At(s, "renaming") /\ s \in DOMAIN task
    BY DEF Rename, At
  <1>2. task' = [o \in DOMAIN task |-> IF o = s THEN own ELSE IF task[o].id = id THEN other(o) ELSE task[o]]
    BY DEF Rename, Renamed, Refiled
  <1>3. own \in StagedTask
    BY <1>1, WriterStages
  <1>4. ASSUME NEW o \in DOMAIN task PROVE task[o] \in StagedTask /\ other(o) \in StagedTask
    <2>1. task[o] \in StagedTask
      BY EntryType DEF TaskInv
    <2>2. task[o].file \in {"none", "tmp", "final", "unlinked"}
      BY <2>1 DEF StagedTask, Task
    <2> DEFINE f == Relinked(task[o].file)
    <2>3. f \in {"none", "tmp", "final", "unlinked"} /\ (f = "none" <=> task[o].file = "none")
      BY <2>2 DEF Relinked
    <2> HIDE DEF f
    <2>4. Refiled(task[o], f) \in StagedTask
      BY <2>1, <2>3, OtherFile
    <2> QED
      BY <2>1, <2>4 DEF f
  <1>5. DOMAIN task \subseteq Slot
    BY DEF TaskInv, IsPartial
  <1> HIDE DEF own, other, id
  <1>6. DOMAIN task' = DOMAIN task /\ \A o \in DOMAIN task : task'[o] \in StagedTask
    BY <1>2, <1>3, <1>4
  <1>7. task' = [o \in DOMAIN task' |-> task'[o]]
    BY <1>2
  <1> QED
    BY <1>5, <1>6, <1>7 DEF TaskInv, IsPartial

\* A directory that goes leaves the files of its writers open, unlinked.
LEMMA UnlinkedFacts ==
    ASSUME TaskInv, NEW id
    PROVE  /\ IsPartial(Unlinked(id), Slot, StagedTask) /\ DOMAIN Unlinked(id) = DOMAIN task
           /\ \A o \in DOMAIN task :
                 /\ Unlinked(id)[o].id = task[o].id /\ Unlinked(id)[o].pc = task[o].pc
                 /\ Unlinked(id)[o].got = task[o].got
                 /\ IF task[o].id = id /\ task[o].file # "none"
                    THEN Unlinked(id)[o].file = "unlinked" ELSE Unlinked(id)[o] = task[o]
  <1> DEFINE other(o) == Refiled(task[o], "unlinked")
             hit(o) == task[o].id = id /\ task[o].file # "none"
  <1>1. Unlinked(id) = [o \in DOMAIN task |-> IF hit(o) THEN other(o) ELSE task[o]]
    BY DEF Unlinked, Refiled
  <1>2. ASSUME NEW o \in DOMAIN task
        PROVE  /\ task[o] \in StagedTask /\ (hit(o) => other(o) \in StagedTask)
               /\ other(o).id = task[o].id /\ other(o).pc = task[o].pc /\ other(o).got = task[o].got
               /\ other(o).file = "unlinked"
    <2>1. task[o] \in StagedTask
      BY EntryType DEF TaskInv
    <2>2. hit(o) => other(o) \in StagedTask
      BY <2>1, OtherFile
    <2>3. other(o).id = task[o].id /\ other(o).pc = task[o].pc /\ other(o).got = task[o].got
          /\ other(o).file = "unlinked"
      BY <2>1 DEF StagedTask, Task, Refiled
    <2> QED
      BY <2>1, <2>2, <2>3
  <1>3. DOMAIN task \subseteq Slot
    BY DEF TaskInv, IsPartial
  <1> HIDE DEF other
  <1>4. DOMAIN Unlinked(id) = DOMAIN task
        /\ \A o \in DOMAIN task : Unlinked(id)[o] = IF hit(o) THEN other(o) ELSE task[o]
    BY <1>1
  <1>5. Unlinked(id) \in [DOMAIN task -> StagedTask]
    BY <1>1, <1>2
  <1> QED
    BY <1>2, <1>3, <1>4, <1>5 DEF IsPartial

LEMMA SweepStaged ==
    ASSUME TaskInv, NEW w, (\E id : SweepDir(w, id)) \/ (\E s : SweepBeforeCreate(w, s)) PROVE TaskInv'
  <1>1. ASSUME NEW id, SweepDir(w, id) PROVE TaskInv'
    BY <1>1, UnlinkedFacts DEF SweepDir, TaskInv
  <1>2. ASSUME NEW s, SweepBeforeCreate(w, s) PROVE TaskInv'
    <2>1. task' = Without(Unlinked(task[s].id), {s})
      BY <1>2 DEF SweepBeforeCreate
    <2>2. IsPartial(Unlinked(task[s].id), Slot, StagedTask)
      BY UnlinkedFacts
    <2> QED
      BY <2>1, <2>2, WithoutType DEF TaskInv
  <1> QED
    BY <1>1, <1>2

\* What write_atomic does to the task that writes.
LEMMA WriterMoves ==
    ASSUME TaskInv, NEW s
    PROVE  /\ CreateTemp(s) => task' = [task EXCEPT ![s] = Opened(task[s])]
           /\ WriteTemp(s) => task' = [task EXCEPT ![s] = Written(task[s])]
  BY DEF CreateTemp, WriteTemp, Goto, Target, Opened, Written

LEMMA TaskStaged == TypeInv /\ [Next]_vars => TaskInv'
  <1> SUFFICES ASSUME TypeInv, [Next]_vars PROVE TaskInv'
    OBVIOUS
  <1>0. TaskInv
    BY DEF TypeInv
  <1>1. CASE task' = task
    BY <1>0, <1>1 DEF TaskInv
  <1>2. CASE Restart
    BY <1>2, NothingType DEF Restart, TaskInv
  <1>3. CASE \E s \in Slot : Take(s) \/ Gate(s) \/ SearchAnswers(s) \/ DetailsArrive(s)
                  \/ KeepPoster(s) \/ FetchPoster(s) \/ RenameFails(s) \/ Persist(s)
                  \/ ProviderFails(s) \/ NoPoster(s)
    BY <1>0, <1>3, TakeSteps, EnrichSteps, StepsStaged
  <1>4. ASSUME NEW r \in Request,
               ClientLeaves(r) \/ \E id \in DOMAIN rows : Refresh(r, id) \/ \E m \in Match : Pin(r, id, m)
        PROVE  TaskInv'
    <2>1. <<r, 1>> \in Slot
      BY DEF Slot
    <2>2. Steps(<<r, 1>>)
      BY <1>4, RequestSteps
    <2> QED
      BY <1>0, <2>1, <2>2, StepsStaged
  <1>5. ASSUME NEW s \in Slot, CreateTemp(s) PROVE TaskInv'
    <2>1. At(s, "fetching") /\ s \in DOMAIN task
      BY <1>5 DEF CreateTemp, At
    <2> DEFINE t == Opened(task[s])
    <2>2. t \in StagedTask
      BY <1>0, <2>1, WriterStages
    <2>3. task' = [task EXCEPT ![s] = t]
      BY <1>0, <1>5, WriterMoves
    <2> HIDE DEF t
    <2> QED
      BY <1>0, <2>1, <2>2, <2>3, ExceptType DEF TaskInv
  <1>6. ASSUME NEW s \in Slot, WriteTemp(s) PROVE TaskInv'
    <2>1. At(s, "writing") /\ s \in DOMAIN task
      BY <1>6 DEF WriteTemp, At
    <2> DEFINE t == Written(task[s])
    <2>2. t \in StagedTask
      BY <1>0, <2>1, WriterStages
    <2>3. task' = [task EXCEPT ![s] = t]
      BY <1>0, <1>6, WriterMoves
    <2> HIDE DEF t
    <2> QED
      BY <1>0, <2>1, <2>2, <2>3, ExceptType DEF TaskInv
  <1>7. CASE \E s \in Slot : Rename(s)
    BY <1>0, <1>7, RenameStaged
  <1>8. CASE \E w \in Sweeper : (\E id \in Id : SweepDir(w, id)) \/ \E s \in Slot : SweepBeforeCreate(w, s)
    BY <1>0, <1>8, SweepStaged
  <1>9. CASE UNCHANGED vars
    BY <1>1, <1>9 DEF vars
  <1>10. CASE (\E film \in Film : AddTitle(film)) \/ (\E id \in DOMAIN rows, w \in Sweeper : DeleteTitle(id, w))
    BY <1>1, <1>10 DEF AddTitle, DeleteTitle
  <1>11. ASSUME NEW w, StartPass(w) \/ EndPass(w) \/ NextBatch(w) \/ \E ids : StartBackfill(w, ids) PROVE TaskInv'
    <2>1. (\E ids : StartBackfill(w, ids)) => task' = task
      BY DEF StartBackfill
    <2>2. StartPass(w) \/ EndPass(w) \/ NextBatch(w) => task' = task
      BY DEF StartPass, EndPass, NextBatch
    <2> QED
      BY <1>1, <1>11, <2>1, <2>2
  <1>12. CASE \E w \in Sweeper : StartSweep(w) \/ SweepReads(w) \/ EndSweep(w)
    BY <1>1, <1>12 DEF StartSweep, SweepReads, EndSweep
  <1> QED
    BY <1>2, <1>3, <1>4, <1>5, <1>6, <1>7, <1>8, <1>9, <1>10, <1>11, <1>12, NextActions

\* Posters and temporary files.
LEMMA FilesStep == TypeInv /\ [Next]_vars => FilesInv'
  <1> SUFFICES ASSUME TypeInv, [Next]_vars PROVE FilesInv'
    OBVIOUS
  <1>0. FilesInv /\ TaskInv
    BY DEF TypeInv
  <1>1. CASE UNCHANGED files
    BY <1>0, <1>1 DEF files, FilesInv
  <1>2. ASSUME NEW s \in Slot, CreateTemp(s) \/ WriteTemp(s) PROVE FilesInv'
    <2>1. s \in DOMAIN task /\ task[s].pc \in {"fetching", "writing"}
      BY <1>2 DEF CreateTemp, WriteTemp, At
    <2> DEFINE id == task[s].id
               empty == [of |-> task[s].match, whole |-> FALSE]
               full == [of |-> task[s].match, whole |-> TRUE]
    <2>2. id \in Id /\ task[s].match \in Match
      BY <1>0, <2>1, TaskFacts DEF StageInv
    <2>3. empty \in File /\ full \in File
      BY <2>2 DEF File
    <2>4. /\ temps' = temps \/ temps' = Put(temps, id, empty) \/ temps' = Put(temps, id, full)
          /\ posters' = posters \/ posters' = Put(posters, id, empty) \/ posters' = Put(posters, id, full)
      BY <1>2 DEF CreateTemp, WriteTemp
    <2> HIDE DEF id, empty, full
    <2> QED
      BY <1>0, <2>2, <2>3, <2>4, PutType DEF FilesInv
  <1>3. ASSUME NEW s \in Slot, Rename(s) PROVE FilesInv'
    <2> DEFINE id == task[s].id
    <2>1. s \in DOMAIN task /\ id \in DOMAIN temps
          /\ posters' = Put(posters, id, temps[id]) /\ temps' = Without(temps, {id})
      BY <1>3 DEF Rename, At
    <2>2. id \in Id /\ temps[id] \in File
      BY <1>0, <2>1, EntryType DEF FilesInv
    <2> HIDE DEF id
    <2> QED
      BY <1>0, <2>1, <2>2, PutType, WithoutType DEF FilesInv
  <1>4. ASSUME NEW w, NEW id, RemoveDir(w, id) PROVE FilesInv'
    BY <1>0, <1>4, WithoutType DEF RemoveDir, FilesInv
  <1>5. CASE \E w \in Sweeper : (\E id \in Id : SweepDir(w, id)) \/ \E s \in Slot : SweepBeforeCreate(w, s)
    BY <1>4, <1>5 DEF SweepDir, SweepBeforeCreate
  <1>6. CASE UNCHANGED vars \/ Restart
    BY <1>1, <1>6 DEF vars, Restart
  <1>7. CASE (\E film \in Film : AddTitle(film)) \/ (\E id \in DOMAIN rows, w \in Sweeper : DeleteTitle(id, w))
    BY <1>1, <1>7 DEF AddTitle, DeleteTitle
  <1>8. ASSUME NEW s, \/ Take(s) \/ Gate(s) \/ SearchAnswers(s) \/ DetailsArrive(s) \/ KeepPoster(s)
                      \/ FetchPoster(s) \/ RenameFails(s) \/ Persist(s) \/ ProviderFails(s) \/ NoPoster(s)
        PROVE  FilesInv'
    <2>1. UNCHANGED files
      BY <1>8 DEF Take, Gate, SearchAnswers, DetailsArrive, KeepPoster, FetchPoster, RenameFails, Persist,
                  ProviderFails, NoPoster
    <2> QED
      BY <1>1, <2>1
  <1>9. ASSUME NEW w, StartPass(w) \/ EndPass(w) \/ NextBatch(w) \/ \E ids : StartBackfill(w, ids) PROVE FilesInv'
    <2>1. (\E ids : StartBackfill(w, ids)) => UNCHANGED files
      BY DEF StartBackfill
    <2>2. StartPass(w) \/ EndPass(w) \/ NextBatch(w) => UNCHANGED files
      BY DEF StartPass, EndPass, NextBatch
    <2> QED
      BY <1>1, <1>9, <2>1, <2>2
  <1>10. CASE \E w \in Sweeper : StartSweep(w) \/ SweepReads(w) \/ EndSweep(w)
    BY <1>1, <1>10 DEF StartSweep, SweepReads, EndSweep
  <1>11. ASSUME NEW r, ClientLeaves(r) \/ \E id \in DOMAIN rows : Refresh(r, id) \/ \E m \in Match : Pin(r, id, m)
         PROVE  FilesInv'
    <2>1. UNCHANGED files
      BY <1>11 DEF ClientLeaves, Refresh, Pin
    <2> QED
      BY <1>1, <2>1
  <1> QED
    BY <1>2, <1>3, <1>5, <1>6, <1>7, <1>8, <1>9, <1>10, <1>11, NextActions

\* A batch is within the limit of the query.
LEMMA ListedFacts ==
    ASSUME RowsInv
    PROVE  Listed \subseteq Id /\ Cardinality(Listed) \in 0 .. MaxLimit
  <1> DEFINE k == Min({Batch, MaxLimit})
  <1>1. Pending \subseteq 1 .. MaxTitles /\ MaxTitles \in Nat /\ MaxLimit \in Nat
    BY EnrichmentAssumption DEF Pending, RowsInv, IsPartial, Id
  <1>2. k \in Nat /\ k <= MaxLimit
    BY LimitFacts
  <1>3. Listed = {id \in Pending : Cardinality({i \in Pending : i < id}) < k}
    BY DEF Listed
  <1> HIDE DEF k
  <1>4. IsFiniteSet(Listed) /\ Cardinality(Listed) <= k
    BY <1>1, <1>2, <1>3, LimitHolds
  <1>5. Cardinality(Listed) \in Nat
    BY <1>4, FS_CardinalityType
  <1>6. Listed \subseteq Pending
    BY DEF Listed
  <1> QED
    BY <1>1, <1>2, <1>4, <1>5, <1>6 DEF Id

LEMMA BatchType ==
    ASSUME NEW ids, ids \subseteq Id, Cardinality(ids) \in 0 .. MaxLimit
    PROVE  [todo |-> ids, size |-> Cardinality(ids), progressed |-> FALSE] \in Batching
  BY DEF Batching

\* Passes and the backfill.
LEMMA FinishKeepsPass ==
    ASSUME PassInv, NEW s, NEW b \in BOOLEAN, Finish(s, b) PROVE PassInv'
  <1> DEFINE w == s[1]
             p == [pass[w] EXCEPT !.progressed = @ \/ b]
  <1>1. CASE w \in DOMAIN pass
    <2>1. pass[w] \in Batching
      BY <1>1, EntryType DEF PassInv
    <2>2. p \in Batching
      BY <2>1 DEF Batching
    <2>3. pass' = [pass EXCEPT ![w] = p]
      BY <1>1 DEF Finish
    <2> HIDE DEF p, w
    <2> QED
      BY <1>1, <2>2, <2>3, ExceptType DEF PassInv
  <1>2. CASE w \notin DOMAIN pass
    BY <1>2 DEF Finish, PassInv
  <1> QED
    BY <1>1, <1>2

LEMMA PassStepTypes ==
    ASSUME TypeInv, NEW w \in Worker,
           StartPass(w) \/ EndPass(w) \/ NextBatch(w) \/ \E ids \in SUBSET Matched : w \in Backfill /\ StartBackfill(w, ids)
    PROVE  PassInv'
  <1>0. PassInv /\ RowsInv
    BY DEF TypeInv
  <1> DEFINE batch(ids) == [todo |-> ids, size |-> Cardinality(ids), progressed |-> FALSE]
  <1>1. batch(Listed) \in Batching
    BY <1>0, ListedFacts, BatchType
  <1>2. CASE StartPass(w)
    <2>1. pass' = Put(pass, w, batch(Listed))
      BY <1>2 DEF StartPass
    <2> HIDE DEF batch
    <2> QED
      BY <1>0, <1>1, <2>1, PutType DEF PassInv
  <1>3. CASE EndPass(w)
    BY <1>0, <1>3, WithoutType DEF EndPass, PassInv
  <1>4. CASE NextBatch(w)
    <2> DEFINE q == [pass[w] EXCEPT !.todo = Listed, !.size = Cardinality(Listed), !.progressed = FALSE]
    <2>1. w \in DOMAIN pass
      BY <1>4 DEF NextBatch, BatchDone
    <2>2. pass' = [pass EXCEPT ![w] = q]
      BY <1>4 DEF NextBatch
    <2>3. pass[w] \in Batching
      BY <1>0, <2>1, EntryType DEF PassInv
    <2>4. Listed \in SUBSET Id /\ Cardinality(Listed) \in 0 .. MaxLimit
      BY <1>0, ListedFacts
    <2>5. q \in Batching
      BY <2>3, <2>4 DEF Batching
    <2> HIDE DEF q
    <2> QED
      BY <1>0, <2>1, <2>2, <2>5, ExceptType DEF PassInv
  <1>5. ASSUME NEW ids \in SUBSET Matched, w \in Backfill, StartBackfill(w, ids) PROVE PassInv'
    <2>1. pass' = Put(pass, w, batch(ids)) /\ Cardinality(ids) <= MaxLimit
      BY <1>5 DEF StartBackfill
    <2>2. ids \subseteq 1 .. MaxTitles /\ MaxTitles \in Nat /\ MaxLimit \in Nat
      <3>1. Matched \subseteq DOMAIN rows /\ DOMAIN rows \subseteq Id
        BY <1>0 DEF Matched, RowsInv, IsPartial
      <3> QED
        BY <3>1, EnrichmentAssumption DEF Id
    <2>3. IsFiniteSet(ids)
      <3>1. IsFiniteSet(1 .. MaxTitles) /\ ids \in SUBSET (1 .. MaxTitles)
        BY <2>2, FS_Interval
      <3> QED
        BY <3>1, FS_Subset, Zenon
    <2>4. Cardinality(ids) \in 0 .. MaxLimit
      BY <2>1, <2>2, <2>3, FS_CardinalityType
    <2>5. batch(ids) \in Batching
      BY <2>2, <2>4, BatchType DEF Id
    <2> HIDE DEF batch
    <2> QED
      BY <1>0, <2>1, <2>5, PutType DEF PassInv
  <1> QED
    BY <1>2, <1>3, <1>4, <1>5

LEMMA PassesStep == TypeInv /\ [Next]_vars => PassInv'
  <1> SUFFICES ASSUME TypeInv, [Next]_vars PROVE PassInv'
    OBVIOUS
  <1>0. PassInv /\ TaskInv
    BY DEF TypeInv
  <1>1. CASE pass' = pass
    BY <1>0, <1>1 DEF PassInv
  <1>2. ASSUME NEW w \in Worker, StartPass(w) \/ EndPass(w) \/ NextBatch(w) PROVE PassInv'
    BY <1>2, PassStepTypes
  <1>3. ASSUME NEW w \in Backfill, NEW ids \in SUBSET Matched, StartBackfill(w, ids) PROVE PassInv'
    <2>1. w \in Worker
      BY DEF Worker
    <2> QED
      BY <1>3, <2>1, PassStepTypes
  <1>4. ASSUME NEW s, Take(s) PROVE PassInv'
    <2> DEFINE w == s[1]
    <2>1. w \in DOMAIN pass
      BY <1>4 DEF Take
    <2>2. PICK id \in pass[w].todo :
             pass' = [pass EXCEPT ![w].todo = IF Aborts(w, id) THEN {} ELSE @ \ {id}]
      BY <1>4 DEF Take
    <2> DEFINE q == [pass[w] EXCEPT !.todo = IF Aborts(w, id) THEN {} ELSE @ \ {id}]
    <2>3. pass[w] \in Batching
      BY <1>0, <2>1, EntryType DEF PassInv
    <2>4. q \in Batching
      BY <2>3 DEF Batching
    <2>5. pass' = [pass EXCEPT ![w] = q]
      BY <2>2
    <2> HIDE DEF q, w
    <2> QED
      BY <1>0, <2>1, <2>4, <2>5, ExceptType DEF PassInv
  <1>5. ASSUME NEW s, NEW b \in BOOLEAN, Finish(s, b) PROVE PassInv'
    BY <1>0, <1>5, FinishKeepsPass
  <1>6. ASSUME NEW s, Gate(s) \/ SearchAnswers(s) \/ ProviderFails(s) \/ RenameFails(s) \/ Persist(s) PROVE PassInv'
    <2> DEFINE there == task[s].id \in DOMAIN rows
    <2>0. there \in BOOLEAN
      OBVIOUS
    <2>1. Gate(s) => pass' = pass \/ Finish(s, there)
      BY DEF Gate
    <2>2. SearchAnswers(s) => pass' = pass \/ Finish(s, TRUE)
      BY DEF SearchAnswers
    <2>3. ProviderFails(s) \/ RenameFails(s) => Finish(s, FALSE)
      BY DEF ProviderFails, RenameFails
    <2>4. Persist(s) => Finish(s, there)
      BY DEF Persist
    <2> HIDE DEF there
    <2> QED
      BY <1>1, <1>5, <1>6, <2>0, <2>1, <2>2, <2>3, <2>4
  <1>7. ASSUME NEW s, \/ DetailsArrive(s) \/ KeepPoster(s) \/ FetchPoster(s) \/ CreateTemp(s)
                      \/ WriteTemp(s) \/ Rename(s) \/ NoPoster(s)
        PROVE  PassInv'
    <2>1. pass' = pass
      BY <1>7 DEF DetailsArrive, KeepPoster, FetchPoster, CreateTemp, WriteTemp, Rename, NoPoster
    <2> QED
      BY <1>1, <2>1
  <1>8. CASE Restart
    BY <1>8, NothingType DEF Restart, PassInv
  <1>9. CASE \/ UNCHANGED vars \/ (\E film \in Film : AddTitle(film))
             \/ (\E id \in DOMAIN rows, w \in Sweeper : DeleteTitle(id, w))
    BY <1>1, <1>9 DEF vars, AddTitle, DeleteTitle
  <1>10. CASE \E w \in Sweeper : StartSweep(w) \/ SweepReads(w) \/ EndSweep(w)
                  \/ (\E id \in Id : SweepDir(w, id)) \/ \E s \in Slot : SweepBeforeCreate(w, s)
    BY <1>1, <1>10 DEF StartSweep, SweepReads, EndSweep, SweepDir, SweepBeforeCreate, RemoveDir
  <1>11. ASSUME NEW r, ClientLeaves(r) \/ \E id \in DOMAIN rows : Refresh(r, id) \/ \E m \in Match : Pin(r, id, m)
         PROVE  PassInv'
    <2>1. pass' = pass
      BY <1>11 DEF ClientLeaves, Refresh, Pin
    <2> QED
      BY <1>1, <2>1
  <1> QED
    BY <1>2, <1>3, <1>4, <1>6, <1>7, <1>8, <1>9, <1>10, <1>11, NextActions

\* Sweeps.
LEMMA SweepTypes ==
    ASSUME TypeInv, NEW w \in Sweeper
    PROVE  /\ sweep' = Put(sweep, w, [surviving |-> {}, read |-> FALSE]) => SweepInv'
           /\ SweepReads(w) => SweepInv'
           /\ EndSweep(w) => SweepInv'
           /\ \A id \in Id : RemoveDir(w, id) => SweepInv'
  <1>0. SweepInv
    BY DEF TypeInv
  <1>1. ASSUME sweep' = Put(sweep, w, [surviving |-> {}, read |-> FALSE]) PROVE SweepInv'
    <2> DEFINE q == [surviving |-> {}, read |-> FALSE]
    <2>1. q \in Sweeping
      BY DEF Sweeping
    <2>2. sweep' = Put(sweep, w, q)
      BY <1>1
    <2> HIDE DEF q
    <2> QED
      BY <1>0, <2>1, <2>2, PutType DEF SweepInv
  <1>2. ASSUME SweepReads(w) PROVE SweepInv'
    <2> DEFINE q == [surviving |-> DOMAIN rows, read |-> TRUE]
    <2>1. DOMAIN rows \subseteq Id
      BY DEF TypeInv, RowsInv, IsPartial
    <2>2. q \in Sweeping
      BY <2>1 DEF Sweeping
    <2>3. w \in DOMAIN sweep /\ sweep' = [sweep EXCEPT ![w] = q]
      BY <1>2 DEF SweepReads
    <2> HIDE DEF q
    <2> QED
      BY <1>0, <2>2, <2>3, ExceptType DEF SweepInv
  <1>3. ASSUME EndSweep(w) PROVE SweepInv'
    BY <1>0, <1>3, WithoutType DEF EndSweep, SweepInv
  <1>4. ASSUME NEW id \in Id, RemoveDir(w, id) PROVE SweepInv'
    <2> DEFINE q == [sweep[w] EXCEPT !.surviving = @ \cup {id}]
    <2>1. w \in DOMAIN sweep /\ sweep' = [sweep EXCEPT ![w] = q]
      BY <1>4 DEF RemoveDir
    <2>2. sweep[w] \in Sweeping
      BY <1>0, <2>1, EntryType DEF SweepInv
    <2>3. q \in Sweeping
      BY <2>2 DEF Sweeping
    <2> HIDE DEF q
    <2> QED
      BY <1>0, <2>1, <2>3, ExceptType DEF SweepInv
  <1> QED
    BY <1>1, <1>2, <1>3, <1>4

LEMMA SweepsStep == TypeInv /\ [Next]_vars => SweepInv'
  <1> SUFFICES ASSUME TypeInv, [Next]_vars PROVE SweepInv'
    OBVIOUS
  <1>1. CASE sweep' = sweep
    BY <1>1 DEF TypeInv, SweepInv
  <1>2. ASSUME NEW w \in Sweeper,
               (\E id : DeleteTitle(id, w)) \/ StartSweep(w) \/ SweepReads(w) \/ EndSweep(w)
        PROVE  SweepInv'
    <2>1. (\E id : DeleteTitle(id, w)) \/ StartSweep(w) => sweep' = Put(sweep, w, [surviving |-> {}, read |-> FALSE])
      BY DEF DeleteTitle, StartSweep
    <2> QED
      BY <1>2, <2>1, SweepTypes
  <1>3. ASSUME NEW w \in Sweeper, (\E id \in Id : SweepDir(w, id)) \/ \E s \in Slot : SweepBeforeCreate(w, s)
        PROVE  SweepInv'
    <2>1. ASSUME NEW id \in Id, SweepDir(w, id) PROVE SweepInv'
      BY <2>1, SweepTypes DEF SweepDir
    <2>2. ASSUME NEW s, SweepBeforeCreate(w, s) PROVE SweepInv'
      <3>1. s \in DOMAIN task /\ RemoveDir(w, task[s].id)
        BY <2>2 DEF SweepBeforeCreate, At
      <3>2. task[s].id \in Id
        BY <3>1, TaskFacts DEF TypeInv
      <3> QED
        BY <3>1, <3>2, SweepTypes
    <2> QED
      BY <1>3, <2>1, <2>2
  <1>4. CASE Restart
    BY <1>4, NothingType DEF Restart, SweepInv
  <1>5. CASE UNCHANGED vars \/ \E film \in Film : AddTitle(film)
    BY <1>1, <1>5 DEF vars, AddTitle
  <1>6. ASSUME NEW s, \/ Take(s) \/ Gate(s) \/ SearchAnswers(s) \/ DetailsArrive(s) \/ KeepPoster(s)
                      \/ FetchPoster(s) \/ CreateTemp(s) \/ WriteTemp(s) \/ Rename(s) \/ RenameFails(s)
                      \/ Persist(s) \/ ProviderFails(s) \/ NoPoster(s)
        PROVE  SweepInv'
    <2>1. sweep' = sweep
      BY <1>6 DEF Take, Gate, SearchAnswers, DetailsArrive, KeepPoster, FetchPoster, CreateTemp, WriteTemp,
                  Rename, RenameFails, Persist, ProviderFails, NoPoster
    <2> QED
      BY <1>1, <2>1
  <1>7. ASSUME NEW w, StartPass(w) \/ EndPass(w) \/ NextBatch(w) \/ \E ids : StartBackfill(w, ids) PROVE SweepInv'
    <2>1. (\E ids : StartBackfill(w, ids)) => sweep' = sweep
      BY DEF StartBackfill
    <2>2. StartPass(w) \/ EndPass(w) \/ NextBatch(w) => sweep' = sweep
      BY DEF StartPass, EndPass, NextBatch
    <2> QED
      BY <1>1, <1>7, <2>1, <2>2
  <1>8. ASSUME NEW r, ClientLeaves(r) \/ \E id \in DOMAIN rows : Refresh(r, id) \/ \E m \in Match : Pin(r, id, m)
        PROVE  SweepInv'
    <2>1. sweep' = sweep
      BY <1>8 DEF ClientLeaves, Refresh, Pin
    <2> QED
      BY <1>1, <2>1
  <1> QED
    BY <1>2, <1>3, <1>4, <1>5, <1>6, <1>7, <1>8, NextActions

\* Histories and counters.
LEMMA BoundsStep == TypeInv /\ [Next]_vars => BoundsInv'
  <1> SUFFICES ASSUME TypeInv, [Next]_vars PROVE BoundsInv'
    OBVIOUS
  <1>0. BoundsInv /\ TaskInv /\ MaxAsked \in Nat /\ MaxFaults \in Nat /\ MaxCrashes \in Nat
    BY EnrichmentAssumption DEF TypeInv
  <1> DEFINE Same == UNCHANGED <<shared, lost, asked, faults, crashes>>
  <1>1. CASE Same
    BY <1>0, <1>1 DEF BoundsInv
  <1>2. CASE UNCHANGED <<shared, lost, faults, crashes>> /\ asked < MaxAsked /\ asked' = asked + 1
    BY <1>0, <1>2 DEF BoundsInv
  <1>3. CASE UNCHANGED <<shared, lost, asked, crashes>> /\ Fault
    BY <1>0, <1>3 DEF BoundsInv, Fault
  <1>4. CASE Restart
    BY <1>0, <1>4 DEF BoundsInv, Restart, ghosts
  <1>5. ASSUME NEW s, CreateTemp(s) PROVE BoundsInv'
    <2>1. s \in DOMAIN task /\ UNCHANGED <<lost, asked, faults, crashes>>
          /\ (shared' = shared \/ shared' = shared \cup {task[s].id})
      BY <1>5 DEF CreateTemp, At, bounds
    <2>2. task[s].id \in Id
      BY <1>0, <2>1, TaskFacts
    <2> QED
      BY <1>0, <2>1, <2>2 DEF BoundsInv
  <1>6. ASSUME NEW w, NEW id \in Id, RemoveDir(w, id) PROVE BoundsInv'
    <2>1. UNCHANGED <<shared, asked, faults, crashes>> /\ (lost' = lost \/ lost' = lost \cup {id})
      BY <1>6 DEF RemoveDir, bounds
    <2> QED
      BY <1>0, <2>1 DEF BoundsInv
  <1>7. ASSUME NEW w, (\E id \in Id : SweepDir(w, id)) \/ \E s \in Slot : SweepBeforeCreate(w, s) PROVE BoundsInv'
    <2>1. ASSUME NEW s, SweepBeforeCreate(w, s) PROVE BoundsInv'
      <3>1. s \in DOMAIN task /\ RemoveDir(w, task[s].id)
        BY <2>1 DEF SweepBeforeCreate, At
      <3>2. task[s].id \in Id
        BY <1>0, <3>1, TaskFacts
      <3> QED
        BY <1>6, <3>1, <3>2
    <2> QED
      BY <1>6, <1>7, <2>1 DEF SweepDir
  <1>8. CASE UNCHANGED vars
    BY <1>1, <1>8 DEF vars, ghosts, bounds
  <1>9. ASSUME NEW film, AddTitle(film) PROVE Same
    BY <1>9 DEF AddTitle, ghosts
  <1>10. ASSUME NEW w, (\E id : DeleteTitle(id, w)) \/ StartSweep(w) PROVE BoundsInv'
    <2>1. UNCHANGED <<shared, lost, faults, crashes>> /\ asked < MaxAsked /\ asked' = asked + 1
      BY <1>10 DEF DeleteTitle, StartSweep, ghosts
    <2> QED
      BY <1>2, <2>1
  <1>11. ASSUME NEW w, SweepReads(w) \/ EndSweep(w) PROVE Same
    BY <1>11 DEF SweepReads, EndSweep, ghosts, bounds
  <1>12. ASSUME NEW s, \/ Take(s) \/ Gate(s) \/ SearchAnswers(s) \/ DetailsArrive(s) \/ KeepPoster(s)
                       \/ FetchPoster(s) \/ WriteTemp(s) \/ Rename(s) \/ RenameFails(s) \/ Persist(s)
         PROVE  Same
    BY <1>12 DEF Take, Gate, SearchAnswers, DetailsArrive, KeepPoster, FetchPoster, WriteTemp,
                 Rename, RenameFails, Persist, ghosts, bounds
  <1>13. ASSUME NEW s, ProviderFails(s) \/ NoPoster(s) PROVE BoundsInv'
    <2>1. UNCHANGED <<shared, lost, asked, crashes>> /\ Fault
      BY <1>13 DEF ProviderFails, NoPoster, ghosts
    <2> QED
      BY <1>3, <2>1
  <1>14. ASSUME NEW w, StartPass(w) \/ EndPass(w) \/ NextBatch(w) PROVE Same
    BY <1>14 DEF StartPass, EndPass, NextBatch, ghosts, bounds
  <1>15. ASSUME NEW w, NEW ids, StartBackfill(w, ids) PROVE BoundsInv'
    <2>1. UNCHANGED <<shared, lost, faults, crashes>> /\ asked < MaxAsked /\ asked' = asked + 1
      BY <1>15 DEF StartBackfill, ghosts
    <2> QED
      BY <1>2, <2>1
  <1>16. ASSUME NEW r, \E id \in DOMAIN rows : Refresh(r, id) \/ \E m \in Match : Pin(r, id, m) PROVE BoundsInv'
    <2>1. UNCHANGED <<shared, lost, faults, crashes>> /\ asked < MaxAsked /\ asked' = asked + 1
      BY <1>16 DEF Refresh, Pin, ghosts
    <2> QED
      BY <1>2, <2>1
  <1>17. ASSUME NEW r, ClientLeaves(r) PROVE Same
    BY <1>17 DEF ClientLeaves, ghosts, bounds
  <1> HIDE DEF Same
  <1> QED
    BY <1>1, <1>4, <1>5, <1>7, <1>8, <1>9, <1>10, <1>11, <1>12, <1>13, <1>14, <1>15, <1>16, <1>17, NextActions

LEMMA TypeStep == TypeInv /\ [Next]_vars => TypeInv'
  BY RowsStep, TaskStaged, FilesStep, PassesStep, SweepsStep, BoundsStep DEF TypeInv

LEMMA TypesAlways == Spec => []TypeInv
  BY StartsTyped, TypeStep, PTL DEF Spec

\* Titles, tasks, passes, sweeps and poster files are well formed (enrich,
\* run_enrichment, sweep_orphan_images), a batch never beyond the query's limit
\* and no id given to more rows than were added: for any limits.
THEOREM EnrichmentTyped == Spec => []TypeOK
  BY TypesAlways, TypeInvTypes, PTL

-----------------------------------------------------------------------------
(* Which steps touch the files *)

Quiet ==
    /\ UNCHANGED <<posters, temps, shared, lost>>
    /\ task' = task \/ \E s \in Slot : Steps(s)

Sweeps == \E id : (\E w : SweepDir(w, id)) \/ \E w, s : SweepBeforeCreate(w, s) /\ id = task[s].id

LEMMA FilesAndTasks ==
    ASSUME TypeInv, [Next]_vars
    PROVE  \/ Quiet \/ Restart \/ Sweeps
           \/ \E s \in Slot : CreateTemp(s) \/ WriteTemp(s) \/ Rename(s)
  <1>1. UNCHANGED vars => Quiet
    BY DEF vars, files, ghosts, Quiet
  <1>2. (\E film \in Film : AddTitle(film)) \/ (\E id \in DOMAIN rows, w \in Sweeper : DeleteTitle(id, w)) => Quiet
    BY DEF AddTitle, DeleteTitle, files, ghosts, Quiet
  <1>3. ASSUME NEW s \in Slot, \/ Take(s) \/ Gate(s) \/ SearchAnswers(s) \/ DetailsArrive(s) \/ KeepPoster(s)
                               \/ FetchPoster(s) \/ RenameFails(s) \/ Persist(s) \/ ProviderFails(s) \/ NoPoster(s)
        PROVE  Quiet
    <2>1. UNCHANGED <<posters, temps, shared, lost>>
      BY <1>3 DEF Take, Gate, SearchAnswers, DetailsArrive, KeepPoster, FetchPoster, RenameFails, Persist,
                  ProviderFails, NoPoster, files, ghosts
    <2>2. Steps(s)
      BY <1>3, TakeSteps, EnrichSteps
    <2> QED
      BY <2>1, <2>2 DEF Quiet
  <1>4. ASSUME NEW w, StartPass(w) \/ EndPass(w) \/ NextBatch(w) PROVE Quiet
    BY <1>4 DEF StartPass, EndPass, NextBatch, files, ghosts, Quiet
  <1>5. ASSUME NEW w, NEW ids, StartBackfill(w, ids) PROVE Quiet
    BY <1>5 DEF StartBackfill, files, ghosts, Quiet
  <1>6. ASSUME NEW w, StartSweep(w) \/ SweepReads(w) \/ EndSweep(w) PROVE Quiet
    BY <1>6 DEF StartSweep, SweepReads, EndSweep, files, ghosts, Quiet
  <1>7. ASSUME NEW r \in Request,
               ClientLeaves(r) \/ \E id \in DOMAIN rows : Refresh(r, id) \/ \E m \in Match : Pin(r, id, m)
        PROVE  Quiet
    <2>1. UNCHANGED <<posters, temps, shared, lost>>
      BY <1>7 DEF ClientLeaves, Refresh, Pin, files, ghosts
    <2>2. <<r, 1>> \in Slot
      BY DEF Slot
    <2>3. Steps(<<r, 1>>)
      BY <1>7, RequestSteps
    <2> QED
      BY <2>1, <2>2, <2>3 DEF Quiet
  <1>8. ASSUME NEW w, (\E id \in Id : SweepDir(w, id)) \/ \E s \in Slot : SweepBeforeCreate(w, s) PROVE Sweeps
    BY <1>8 DEF Sweeps
  <1> QED
    BY <1>1, <1>2, <1>3, <1>4, <1>5, <1>6, <1>7, <1>8, NextActions

\* After a quiet step a task that has a file open is as it was, and one that has
\* a poster had it or finds one on disk.
LEMMA QuietTasks ==
    ASSUME TaskInv, Quiet, NEW o \in DOMAIN task'
    PROVE  /\ task'[o].file # "none" => o \in DOMAIN task /\ task'[o] = task[o]
           /\ task'[o].got => \/ task'[o].id \in DOMAIN posters
                              \/ o \in DOMAIN task /\ task[o].got /\ task[o].id = task'[o].id
  <1>1. CASE task' = task
    BY <1>1
  <1>2. ASSUME NEW s \in Slot, task' = Without(task, {s})
        PROVE  o \in DOMAIN task /\ task'[o] = task[o]
    <2> DEFINE f == Without(task, {s})
    <2>1. DOMAIN f = DOMAIN task \ {s} /\ \A y \in DOMAIN task \ {s} : f[y] = task[y]
      BY WithoutFacts
    <2> HIDE DEF f
    <2> QED
      BY <1>2, <2>1 DEF f
  <1>3. ASSUME NEW s \in Slot, NEW t \in StagedTask, task' = Put(task, s, t), t.file = "none",
               t.got => t.id \in DOMAIN posters \/ (s \in DOMAIN task /\ task[s].got /\ task[s].id = t.id)
        PROVE  \/ o \in DOMAIN task /\ task'[o] = task[o]
               \/ /\ task'[o].file = "none"
                  /\ task'[o].got => \/ task'[o].id \in DOMAIN posters
                                     \/ o \in DOMAIN task /\ task[o].got /\ task[o].id = task'[o].id
    <2> DEFINE f == Put(task, s, t)
    <2>1. DOMAIN f = DOMAIN task \cup {s} /\ f[s] = t /\ \A y \in DOMAIN task : y # s => f[y] = task[y]
      BY DEF Put
    <2> HIDE DEF f
    <2>2. DOMAIN task' = DOMAIN task \cup {s} /\ task'[s] = t /\ \A y \in DOMAIN task : y # s => task'[y] = task[y]
      BY <1>3, <2>1 DEF f
    <2> QED
      BY <1>3, <2>2
  <1> QED
    BY <1>1, <1>2, <1>3 DEF Quiet, Steps

\* The files of an id are gone, and a title that had them, or is being enriched,
\* is noted.
DirGone(id) ==
    /\ DOMAIN posters' = DOMAIN posters \ {id} /\ DOMAIN temps' = DOMAIN temps \ {id}
    /\ \A i \in DOMAIN posters' : posters'[i] = posters[i]
    /\ \A i \in DOMAIN temps' : temps'[i] = temps[i]
    /\ shared' = shared /\ lost' = IF id \in DOMAIN rows \cup Enriched THEN lost \cup {id} ELSE lost

\* Those who write one of them go on with a file that has no name any more.
WritersUnlinked(id) ==
    /\ DOMAIN task' \subseteq DOMAIN task
    /\ \A o \in DOMAIN task' :
          /\ task'[o].id = task[o].id /\ task'[o].got = task[o].got
          /\ IF task[o].id = id /\ task[o].file # "none"
             THEN task'[o].file = "unlinked" ELSE task'[o] = task[o]

LEMMA SweepFacts ==
    ASSUME TaskInv, Sweeps PROVE \E id : DirGone(id) /\ WritersUnlinked(id)
  <1>1. ASSUME NEW w, NEW id, RemoveDir(w, id)
        PROVE  DirGone(id)
    <2> DEFINE f == Without(posters, {id})
               g == Without(temps, {id})
    <2>1. posters' = f /\ temps' = g
      BY <1>1 DEF RemoveDir
    <2>2. /\ shared' = shared /\ lost' = IF id \in DOMAIN rows \cup Enriched THEN lost \cup {id} ELSE lost
      BY <1>1 DEF RemoveDir
    <2>3. /\ DOMAIN f = DOMAIN posters \ {id} /\ DOMAIN g = DOMAIN temps \ {id}
          /\ (\A i \in DOMAIN f : f[i] = posters[i]) /\ \A i \in DOMAIN g : g[i] = temps[i]
      BY DEF Without, Restrict
    <2> HIDE DEF f, g
    <2> QED
      BY <2>1, <2>2, <2>3 DEF DirGone
  <1>2. ASSUME NEW w, NEW id, SweepDir(w, id)
        PROVE  RemoveDir(w, id) /\ task' = Unlinked(id)
    BY <1>2 DEF SweepDir
  <1>3. ASSUME NEW w, NEW s, SweepBeforeCreate(w, s)
        PROVE  RemoveDir(w, task[s].id) /\ task' = Without(Unlinked(task[s].id), {s})
    BY <1>3 DEF SweepBeforeCreate
  <1>4. PICK id : \/ \E w : RemoveDir(w, id) /\ task' = Unlinked(id)
                  \/ \E w, s : RemoveDir(w, id) /\ task' = Without(Unlinked(id), {s})
    BY <1>2, <1>3 DEF Sweeps
  <1>5. \E w : RemoveDir(w, id)
    BY <1>4
  <1>6. DOMAIN task' \subseteq DOMAIN task /\ \A o \in DOMAIN task' : task'[o] = Unlinked(id)[o]
    <2>1. DOMAIN Unlinked(id) = DOMAIN task
      BY UnlinkedFacts
    <2>2. task' = Unlinked(id) \/ \E s : task' = Without(Unlinked(id), {s})
      BY <1>4
    <2>3. ASSUME NEW s, task' = Without(Unlinked(id), {s})
          PROVE  DOMAIN task' \subseteq DOMAIN Unlinked(id) /\ \A o \in DOMAIN task' : task'[o] = Unlinked(id)[o]
      <3> DEFINE f == Without(Unlinked(id), {s})
      <3>1. DOMAIN f = DOMAIN Unlinked(id) \ {s} /\ \A o \in DOMAIN f : f[o] = Unlinked(id)[o]
        BY DEF Without, Restrict
      <3> HIDE DEF f
      <3> QED
        BY <2>3, <3>1 DEF f
    <2> QED
      BY <2>1, <2>2, <2>3
  <1>7. WritersUnlinked(id)
    BY <1>6, UnlinkedFacts DEF WritersUnlinked
  <1> QED
    BY <1>1, <1>5, <1>6, <1>7

\* What the writing of a poster does to the tasks: only the writer's own stage,
\* and at the rename what the others of its title have open.
LEMMA WriteFacts ==
    ASSUME TaskInv, NEW s, CreateTemp(s) \/ WriteTemp(s) \/ Rename(s)
    PROVE  /\ s \in DOMAIN task /\ DOMAIN task' = DOMAIN task
           /\ \A o \in DOMAIN task : task'[o].id = task[o].id
           /\ \A o \in DOMAIN task : o # s =>
                 /\ task'[o].got = task[o].got /\ (task'[o].file = "none" <=> task[o].file = "none")
                 /\ task[o].id # task[s].id \/ ~Rename(s) => task'[o] = task[o]
           /\ CreateTemp(s) => task'[s].file = "tmp" /\ task'[s].pc = "writing" /\ task'[s].got = task[s].got
                               /\ task[s].file = "none"
           /\ WriteTemp(s) => task'[s].file = task[s].file /\ task'[s].got = task[s].got
                              /\ task[s].file # "none"
           /\ Rename(s) => task'[s].file = "none" /\ task[s].pc = "renaming" /\ task[s].file # "none"
  <1>1. s \in DOMAIN task
    BY DEF CreateTemp, WriteTemp, Rename, At
  <1>2. \A o \in DOMAIN task : task[o] \in Task /\ StageInv(task[o])
    BY TaskFacts
  <1>3. CASE CreateTemp(s)
    <2>1. task' = [task EXCEPT ![s] = Opened(task[s])] /\ task[s].pc = "fetching"
      BY <1>3, WriterMoves DEF CreateTemp, At
    <2>2. LET x == Opened(task[s])
          IN  x.id = task[s].id /\ x.file = "tmp" /\ x.pc = "writing" /\ x.got = task[s].got
      BY <1>1, <1>2 DEF Opened, Task
    <2>3. task[s].file = "none"
      BY <1>1, <1>2, <2>1 DEF StageInv
    <2>4. ~WriteTemp(s) /\ ~Rename(s)
      BY <2>1 DEF WriteTemp, Rename, At
    <2> QED
      BY <1>1, <1>3, <2>1, <2>2, <2>3, <2>4
  <1>4. CASE WriteTemp(s)
    <2>1. task' = [task EXCEPT ![s] = Written(task[s])] /\ task[s].pc = "writing"
      BY <1>4, WriterMoves DEF WriteTemp, At
    <2>2. LET x == Written(task[s])
          IN  x.id = task[s].id /\ x.file = task[s].file /\ x.got = task[s].got
      BY <1>1, <1>2 DEF Written, Task
    <2>3. task[s].file # "none"
      BY <1>1, <1>2, <2>1 DEF StageInv
    <2>4. ~CreateTemp(s) /\ ~Rename(s)
      BY <2>1 DEF CreateTemp, Rename, At
    <2> QED
      BY <1>1, <1>4, <2>1, <2>2, <2>3, <2>4
  <1>5. CASE Rename(s)
    <2>1. task' = [o \in DOMAIN task |->
                      IF o = s THEN Renamed(task[s])
                      ELSE IF task[o].id = task[s].id THEN Refiled(task[o], Relinked(task[o].file)) ELSE task[o]]
          /\ task[s].pc = "renaming"
      BY <1>5 DEF Rename, Renamed, Refiled, At
    <2>2. Renamed(task[s]).id = task[s].id /\ Renamed(task[s]).file = "none"
      BY <1>1, <1>2 DEF Renamed, Task
    <2>3. ASSUME NEW o \in DOMAIN task
          PROVE  LET x == Refiled(task[o], Relinked(task[o].file))
                 IN  x.id = task[o].id /\ x.got = task[o].got /\ (x.file = "none" <=> task[o].file = "none")
      BY <1>2 DEF Refiled, Relinked, Task
    <2>4. task[s].file # "none"
      BY <1>1, <1>2, <2>1 DEF StageInv
    <2>5. ~CreateTemp(s) /\ ~WriteTemp(s)
      BY <2>1 DEF CreateTemp, WriteTemp, At
    <2> QED
      BY <1>1, <1>5, <2>1, <2>2, <2>3, <2>4, <2>5
  <1> QED
    BY <1>3, <1>4, <1>5


-----------------------------------------------------------------------------
(* Posters on disk *)

\* What a row or a task says it has, is there or was swept from under it.
Kept == DOMAIN posters \cup lost
PosterInv ==
    /\ \A id \in DOMAIN rows : rows[id].poster => id \in Kept
    /\ \A s \in DOMAIN task : task[s].got => task[s].id \in Kept

\* A sweep that takes the poster of a title, or of one being enriched, is noted.
LEMMA KeptStays ==
    ASSUME TypeInv, [Next]_vars, NEW id \in DOMAIN rows \cup Enriched, id \in Kept
    PROVE  id \in Kept'
  <1>1. DOMAIN posters \subseteq DOMAIN posters' /\ lost' = lost => id \in Kept'
    BY DEF Kept
  <1>2. Quiet \/ Restart => posters' = posters /\ lost' = lost
    BY DEF Quiet, Restart, files, ghosts
  <1>3. ASSUME NEW i, DirGone(i) PROVE id \in Kept'
    BY <1>3 DEF DirGone, Kept
  <1>4. ASSUME NEW s, CreateTemp(s) \/ WriteTemp(s) \/ Rename(s)
        PROVE  DOMAIN posters \subseteq DOMAIN posters' /\ lost' = lost
    <2>1. posters' = posters \/ \E x, v : posters' = Put(posters, x, v)
      BY <1>4 DEF CreateTemp, WriteTemp, Rename, Target
    <2>2. \A x, v : DOMAIN posters \subseteq DOMAIN Put(posters, x, v)
      BY DEF Put
    <2>3. lost' = lost
      BY <1>4 DEF CreateTemp, WriteTemp, Rename, ghosts
    <2> QED
      BY <2>1, <2>2, <2>3
  <1>5. TaskInv
    BY DEF TypeInv
  <1> QED
    BY <1>1, <1>2, <1>3, <1>4, <1>5, SweepFacts, FilesAndTasks

\* Marking a title leaves whether it has a poster.
LEMMA MarkPosters ==
    ASSUME RowsInv, NEW i, NEW st, Mark(i, st)
    PROVE  DOMAIN rows' = DOMAIN rows /\ \A id \in DOMAIN rows : rows'[id].poster = rows[id].poster
  <1>1. CASE i \in DOMAIN rows
    <2> DEFINE row == [rows[i] EXCEPT !.state = st]
    <2>1. rows' = [rows EXCEPT ![i] = row]
      BY <1>1 DEF Mark
    <2>2. rows[i] \in Row
      BY <1>1, EntryType DEF RowsInv
    <2>3. row.poster = rows[i].poster
      BY <2>2 DEF Row
    <2> HIDE DEF row
    <2> QED
      BY <1>1, <2>1, <2>3
  <1>2. CASE i \notin DOMAIN rows
    BY <1>2 DEF Mark
  <1> QED
    BY <1>1, <1>2

\* A row says it has a poster only if it said so before or a task that has got
\* one persists it (Persist).
LEMMA RowsPosters ==
    ASSUME TypeInv, [Next]_vars, NEW id \in DOMAIN rows', rows'[id].poster
    PROVE  \/ id \in DOMAIN rows /\ rows[id].poster
           \/ \E s \in DOMAIN task : task[s].got /\ task[s].id = id
  <1> DEFINE Before == id \in DOMAIN rows /\ rows[id].poster
             Now == \E s \in DOMAIN task : task[s].got /\ task[s].id = id
  <1>0. RowsInv
    BY DEF TypeInv
  <1>1. UNCHANGED <<rows, added>> => Before
    OBVIOUS
  <1>2. ASSUME NEW film, AddTitle(film) PROVE Before
    <2> DEFINE row == [film |-> film, state |-> "pending", match |-> NoMatch, poster |-> FALSE]
               f == Put(rows, NextId, row)
    <2>1. rows' = f /\ row.poster = FALSE
      BY <1>2 DEF AddTitle
    <2>2. DOMAIN f = DOMAIN rows \cup {NextId} /\ f[NextId] = row
          /\ \A y \in DOMAIN rows : y # NextId => f[y] = rows[y]
      BY DEF Put
    <2> HIDE DEF row, f
    <2> QED
      BY <2>1, <2>2
  <1>3. ASSUME NEW i, NEW w, DeleteTitle(i, w) PROVE Before
    <2> DEFINE f == Without(rows, {i})
    <2>1. DOMAIN f \subseteq DOMAIN rows /\ \A y \in DOMAIN f : f[y] = rows[y]
      BY DEF Without, Restrict
    <2> HIDE DEF f
    <2>2. rows' = f
      BY <1>3 DEF DeleteTitle, f
    <2> QED
      BY <2>1, <2>2
  <1>4. ASSUME NEW s, SearchAnswers(s) \/ ProviderFails(s) PROVE Before
    <2>1. rows' = rows \/ Mark(task[s].id, "unmatched") \/ Mark(task[s].id, "failed")
      BY <1>4 DEF SearchAnswers, ProviderFails
    <2> QED
      BY <1>0, <2>1, MarkPosters
  <1>5. ASSUME NEW s, Persist(s) PROVE Before \/ Now
    <2> DEFINE i == task[s].id
               b == rows[i].poster \/ task[s].got
               row == [rows[i] EXCEPT !.state = "matched", !.match = task[s].match, !.poster = b]
    <2>1. s \in DOMAIN task
      BY <1>5 DEF Persist, At
    <2>2. CASE i \in DOMAIN rows
      <3>1. rows' = [rows EXCEPT ![i] = row]
        BY <1>5, <2>2 DEF Persist, PosterRecorded
      <3>2. rows[i] \in Row
        BY <1>0, <2>2, EntryType DEF RowsInv
      <3>3. row.poster <=> b
        BY <3>2 DEF Row
      <3>4. b => rows[i].poster \/ task[s].got
        OBVIOUS
      <3> HIDE DEF row, b
      <3>5. DOMAIN rows' = DOMAIN rows /\ rows'[i] = row /\ (id # i => rows'[id] = rows[id])
        BY <2>2, <3>1
      <3> QED
        BY <2>1, <2>2, <3>3, <3>4, <3>5
    <2>3. CASE i \notin DOMAIN rows
      BY <1>5, <2>3 DEF Persist
    <2> QED
      BY <2>2, <2>3
  <1> HIDE DEF Before, Now
  <1>6. Before \/ Now
    BY <1>1, <1>2, <1>3, <1>4, <1>5, NextActions, RowsUnchanged
  <1> QED
    BY <1>6 DEF Before, Now

\* A task has a poster only if it had one before or finds one on disk, or puts
\* one there (KeepPoster, Rename).
LEMMA TasksPosters ==
    ASSUME TypeInv, [Next]_vars, NEW o \in DOMAIN task', task'[o].got
    PROVE  \/ task'[o].id \in DOMAIN posters'
           \/ o \in DOMAIN task /\ task[o].got /\ task[o].id = task'[o].id
  <1>0. TaskInv
    BY DEF TypeInv
  <1>1. CASE Quiet
    <2>1. posters' = posters
      BY <1>1 DEF Quiet
    <2> QED
      BY <1>0, <1>1, <2>1, QuietTasks
  <1>2. ~Restart
    BY DEF Restart, Nothing
  <1>3. ASSUME NEW i, WritersUnlinked(i) PROVE o \in DOMAIN task /\ task[o].got /\ task[o].id = task'[o].id
    BY <1>3 DEF WritersUnlinked
  <1>4. ASSUME NEW s, CreateTemp(s) \/ WriteTemp(s) \/ Rename(s)
        PROVE  \/ task'[o].id \in DOMAIN posters'
               \/ o \in DOMAIN task /\ task[o].got /\ task[o].id = task'[o].id
    <2>1. o \in DOMAIN task /\ task'[o].id = task[o].id
      BY <1>0, <1>4, WriteFacts
    <2>2. CASE Rename(s) /\ o = s
      <3>1. posters' = Put(posters, task[s].id, temps[task[s].id])
        BY <2>2 DEF Rename
      <3>2. task[s].id \in DOMAIN Put(posters, task[s].id, temps[task[s].id])
        BY DEF Put
      <3> QED
        BY <2>1, <2>2, <3>1, <3>2
    <2>3. CASE ~(Rename(s) /\ o = s)
      <3>1. \A x \in DOMAIN task : x # s => task'[x].got = task[x].got
        BY <1>0, <1>4, WriteFacts
      <3>2. ~Rename(s) => task'[s].got = task[s].got
        BY <1>0, <1>4, WriteFacts
      <3>3. task'[o].got = task[o].got
        BY <2>1, <2>3, <3>1, <3>2
      <3> QED
        BY <2>1, <3>3
    <2> QED
      BY <2>2, <2>3
  <1> QED
    BY <1>0, <1>1, <1>2, <1>3, <1>4, SweepFacts, FilesAndTasks

LEMMA PosterStep == TypeInv /\ PosterInv /\ [Next]_vars => PosterInv'
  <1> SUFFICES ASSUME TypeInv, PosterInv, [Next]_vars PROVE PosterInv'
    OBVIOUS
  <1>1. ASSUME NEW id \in DOMAIN rows', rows'[id].poster PROVE id \in Kept'
    <2>1. id \in DOMAIN rows \cup Enriched /\ id \in Kept
      BY <1>1, RowsPosters DEF PosterInv, Enriched
    <2> QED
      BY <2>1, KeptStays
  <1>2. ASSUME NEW o \in DOMAIN task', task'[o].got PROVE task'[o].id \in Kept'
    <2>1. CASE task'[o].id \in DOMAIN posters'
      BY <2>1 DEF Kept
    <2>2. CASE o \in DOMAIN task /\ task[o].got /\ task[o].id = task'[o].id
      <3>1. task[o].id \in DOMAIN rows \cup Enriched /\ task[o].id \in Kept
        BY <2>2 DEF PosterInv, Enriched
      <3> QED
        BY <2>2, <3>1, KeptStays
    <2> QED
      BY <1>2, <2>1, <2>2, TasksPosters
  <1> QED
    BY <1>1, <1>2 DEF PosterInv

LEMMA PosterHolds == PosterInv => PosterOnDisk
  BY DEF PosterInv, PosterOnDisk, Kept

\* A recorded poster_path has its file (enrich_with_id, maybe_download), unless a
\* sweep whose list of ids was older than the title, or than the request, took
\* the directory: through deletes, ids given out again, dropped requests and
\* restarts.
THEOREM PosterAlwaysOnDisk == Spec => []PosterOnDisk
  <1>1. Init => PosterInv
    BY DEF Init, PosterInv, Nothing
  <1> QED
    BY <1>1, PosterStep, TypesAlways, PosterHolds, PTL DEF Spec

-----------------------------------------------------------------------------
(* Torn posters *)

\* The one writer of its title's poster: its .tmp is the one there, whole once
\* written, or was swept with the directory and none is there.
OnlyWriter(s) ==
    /\ \A o \in Slot : HasOpen(o, task[s].id) => o = s
    /\ IF task[s].file = "tmp"
       THEN task[s].id \in DOMAIN temps /\ (task[s].pc = "renaming" => temps[task[s].id].whole)
       ELSE task[s].file = "unlinked" /\ task[s].id \notin DOMAIN temps
WritesInv == \A s \in DOMAIN task : task[s].file # "none" /\ task[s].id \notin shared => OnlyWriter(s)
TornInv == WritesInv /\ TornNeedsTwoWriters

\* The writer stays the only one when nobody opens a file of its title and the
\* .tmp stays.
LEMMA OnlyWriterStays ==
    ASSUME NEW o \in DOMAIN task', o \in DOMAIN task, OnlyWriter(o), task'[o] = task[o],
           task[o].id \in DOMAIN temps' <=> task[o].id \in DOMAIN temps,
           task[o].id \in DOMAIN temps => temps'[task[o].id] = temps[task[o].id],
           \A x \in DOMAIN task' : task'[x].id = task[o].id /\ task'[x].file # "none"
                                   => x \in DOMAIN task /\ task[x].id = task[o].id /\ task[x].file # "none"
    PROVE  OnlyWriter(o)'
  BY DEF OnlyWriter, HasOpen

LEMMA TornQuiet == ASSUME TaskInv, TornInv, Quiet PROVE TornInv'
  <1>1. UNCHANGED <<posters, temps, shared>>
    BY DEF Quiet
  <1>2. ASSUME NEW o \in DOMAIN task', task'[o].file # "none", task'[o].id \notin shared' PROVE OnlyWriter(o)'
    <2>1. o \in DOMAIN task /\ task'[o] = task[o]
      BY <1>2, QuietTasks
    <2>2. OnlyWriter(o)
      BY <1>1, <1>2, <2>1 DEF TornInv, WritesInv
    <2>3. \A x \in DOMAIN task' : task'[x].file # "none" => x \in DOMAIN task /\ task'[x] = task[x]
      BY QuietTasks
    <2> QED
      BY <1>1, <2>1, <2>2, <2>3, OnlyWriterStays
  <1>3. TornNeedsTwoWriters'
    BY <1>1 DEF TornInv, TornNeedsTwoWriters
  <1> QED
    BY <1>2, <1>3 DEF TornInv, WritesInv

LEMMA TornSweeps == ASSUME TaskInv, TornInv, NEW id, DirGone(id), WritersUnlinked(id) PROVE TornInv'
  <1>1. ASSUME NEW o \in DOMAIN task', task'[o].file # "none", task'[o].id \notin shared' PROVE OnlyWriter(o)'
    <2>1. o \in DOMAIN task /\ task'[o].id = task[o].id /\ task[o].file # "none"
      BY <1>1 DEF WritersUnlinked
    <2>2. OnlyWriter(o)
      BY <1>1, <2>1 DEF TornInv, WritesInv, DirGone
    <2>3. \A x \in DOMAIN task' : x \in DOMAIN task /\ task'[x].id = task[x].id
                                   /\ (task'[x].file # "none" => task[x].file # "none")
      BY DEF WritersUnlinked
    <2>4. CASE task[o].id = id
      <3>1. task'[o].file = "unlinked" /\ id \notin DOMAIN temps'
        BY <2>1, <2>4 DEF WritersUnlinked, DirGone
      <3>2. \A x \in Slot : HasOpen(x, id)' => x = o
        BY <2>2, <2>3, <2>4 DEF OnlyWriter, HasOpen
      <3> QED
        BY <2>1, <2>4, <3>1, <3>2 DEF OnlyWriter
    <2>5. CASE task[o].id # id
      <3>1. task'[o] = task[o]
        BY <2>5 DEF WritersUnlinked
      <3>2. /\ task[o].id \in DOMAIN temps' <=> task[o].id \in DOMAIN temps
            /\ task[o].id \in DOMAIN temps => temps'[task[o].id] = temps[task[o].id]
        BY <2>5 DEF DirGone
      <3> QED
        BY <2>1, <2>2, <2>3, <3>1, <3>2, OnlyWriterStays
    <2> QED
      BY <2>4, <2>5
  <1>2. TornNeedsTwoWriters'
    BY DEF TornInv, TornNeedsTwoWriters, DirGone
  <1> QED
    BY <1>1, <1>2 DEF TornInv, WritesInv

\* The tasks of other titles, while one writes: their files stay.
LEMMA OthersWriteOn ==
    ASSUME TaskInv, NEW s, CreateTemp(s) \/ WriteTemp(s) \/ Rename(s),
           \A i \in DOMAIN temps \cup DOMAIN temps' : i # task[s].id =>
              i \in DOMAIN temps /\ i \in DOMAIN temps' /\ temps'[i] = temps[i],
           NEW o \in DOMAIN task, task[o].id # task[s].id, OnlyWriter(o)
    PROVE  OnlyWriter(o)'
  <1>1. /\ DOMAIN task' = DOMAIN task /\ s \in DOMAIN task
        /\ \A x \in DOMAIN task : task'[x].id = task[x].id
        /\ \A x \in DOMAIN task : task[x].id # task[s].id => task'[x] = task[x]
    BY WriteFacts
  <1>2. \A x \in DOMAIN task' : task'[x].id = task[o].id /\ task'[x].file # "none"
                                   => x \in DOMAIN task /\ task[x].id = task[o].id /\ task[x].file # "none"
    BY <1>1
  <1>3. o \in DOMAIN task' /\ task'[o] = task[o]
    BY <1>1
  <1> QED
    BY <1>2, <1>3, OnlyWriterStays

\* A writer that opens the .tmp is alone, or the title is noted as shared.
LEMMA TornCreate == ASSUME TaskInv, TornInv, NEW s \in Slot, CreateTemp(s) PROVE TornInv'
  <1> DEFINE id == task[s].id
             f == Put(temps, id, [of |-> task[s].match, whole |-> FALSE])
  <1>1. temps' = f /\ posters' = posters
        /\ shared' = IF \E o \in Slot : HasOpen(o, id) THEN shared \cup {id} ELSE shared
    BY DEF CreateTemp, Target
  <1>2. DOMAIN f = DOMAIN temps \cup {id} /\ \A y \in DOMAIN temps : y # id => f[y] = temps[y]
    BY DEF Put
  <1> HIDE DEF f
  <1>3. /\ s \in DOMAIN task /\ DOMAIN task' = DOMAIN task /\ DOMAIN task \subseteq Slot
        /\ \A o \in DOMAIN task : task'[o].id = task[o].id
        /\ \A o \in DOMAIN task : o # s => task'[o].file = "none" <=> task[o].file = "none"
        /\ task'[s].file = "tmp" /\ task'[s].pc = "writing"
    BY WriteFacts DEF TaskInv, IsPartial
  <1>4. ASSUME NEW o \in DOMAIN task', task'[o].file # "none", task'[o].id \notin shared' PROVE OnlyWriter(o)'
    <2>1. CASE task[o].id = id
      <3>1. id \notin shared' /\ ~\E x \in Slot : HasOpen(x, id)
        BY <1>1, <1>3, <1>4, <2>1
      <3>2. \A x \in DOMAIN task : task[x].id = id => task[x].file = "none"
        BY <1>3, <3>1 DEF HasOpen
      <3>3. \A x \in Slot : HasOpen(x, id)' => x = s
        BY <1>3, <3>2 DEF HasOpen
      <3>4. o = s
        BY <1>3, <1>4, <2>1, <3>2
      <3>5. id \in DOMAIN temps'
        BY <1>1, <1>2
      <3>6. task'[o].id = id /\ task'[o].file = "tmp" /\ task'[o].pc # "renaming"
        BY <1>3, <3>4
      <3> QED
        BY <1>3, <3>3, <3>4, <3>5, <3>6 DEF OnlyWriter
    <2>2. CASE task[o].id # id
      <3>1. o \in DOMAIN task /\ task[o].file # "none" /\ task[o].id \notin shared
        BY <1>1, <1>3, <1>4, <2>2
      <3>2. OnlyWriter(o)
        BY <3>1 DEF TornInv, WritesInv
      <3>3. \A i \in DOMAIN temps \cup DOMAIN temps' : i # task[s].id =>
               i \in DOMAIN temps /\ i \in DOMAIN temps' /\ temps'[i] = temps[i]
        BY <1>1, <1>2
      <3> QED
        BY <2>2, <3>1, <3>2, <3>3, OthersWriteOn
    <2> QED
      BY <2>1, <2>2
  <1>5. TornNeedsTwoWriters'
    BY <1>1 DEF TornInv, TornNeedsTwoWriters
  <1> QED
    BY <1>4, <1>5 DEF TornInv, WritesInv

\* What it writes is whole, in the .tmp or in a file that was swept.
LEMMA TornWrite == ASSUME TaskInv, TornInv, NEW s, WriteTemp(s) PROVE TornInv'
  <1> DEFINE id == task[s].id
             full == [of |-> task[s].match, whole |-> TRUE]
             f == Put(temps, id, full)
             g == Put(posters, id, full)
  <1>1. /\ temps' = IF task[s].file = "tmp" THEN f ELSE temps
        /\ posters' = IF task[s].file = "final" THEN g ELSE posters
        /\ shared' = shared
    BY DEF WriteTemp, ghosts
  <1>2. DOMAIN f = DOMAIN temps \cup {id} /\ (\A y \in DOMAIN temps : y # id => f[y] = temps[y]) /\ f[id].whole
    BY DEF Put
  <1>3. DOMAIN g = DOMAIN posters \cup {id} /\ (\A y \in DOMAIN posters : y # id => g[y] = posters[y]) /\ g[id].whole
    BY DEF Put
  <1> HIDE DEF f, g, full
  <1>4. /\ s \in DOMAIN task /\ DOMAIN task' = DOMAIN task
        /\ \A o \in DOMAIN task : task'[o].id = task[o].id
        /\ \A o \in DOMAIN task : task'[o].file = "none" <=> task[o].file = "none"
        /\ task'[s].file = task[s].file /\ task[s].file # "none"
    BY WriteFacts
  <1>5. ASSUME NEW o \in DOMAIN task', task'[o].file # "none", task'[o].id \notin shared' PROVE OnlyWriter(o)'
    <2>1. o \in DOMAIN task /\ task[o].file # "none" /\ OnlyWriter(o)
      BY <1>1, <1>4, <1>5 DEF TornInv, WritesInv
    <2>2. CASE task[o].id = id
      <3>1. o = s
        <4>1. DOMAIN task \subseteq Slot
          BY DEF TaskInv, IsPartial
        <4> QED
          BY <1>4, <2>1, <2>2, <4>1 DEF OnlyWriter, HasOpen
      <3>2. \A x \in Slot : HasOpen(x, id)' => x = s
        <4>1. \A x : HasOpen(x, id)' => HasOpen(x, id)
          BY <1>4 DEF HasOpen
        <4> QED
          BY <2>1, <3>1, <4>1 DEF OnlyWriter
      <3>3. CASE task[s].file = "tmp"
        BY <1>1, <1>2, <1>4, <3>1, <3>2, <3>3 DEF OnlyWriter
      <3>4. CASE task[s].file # "tmp"
        <4>1. task[s].file = "unlinked" /\ id \notin DOMAIN temps
          BY <2>1, <3>1, <3>4 DEF OnlyWriter
        <4> QED
          BY <1>1, <1>4, <3>1, <3>2, <4>1 DEF OnlyWriter
      <3> QED
        BY <3>3, <3>4
    <2>3. CASE task[o].id # id
      <3>1. \A i \in DOMAIN temps \cup DOMAIN temps' : i # task[s].id =>
               i \in DOMAIN temps /\ i \in DOMAIN temps' /\ temps'[i] = temps[i]
        BY <1>1, <1>2
      <3> QED
        BY <2>1, <2>3, <3>1, OthersWriteOn
    <2> QED
      BY <2>2, <2>3
  <1>6. TornNeedsTwoWriters'
    BY <1>1, <1>3 DEF TornInv, TornNeedsTwoWriters
  <1> QED
    BY <1>5, <1>6 DEF TornInv, WritesInv

\* What the only writer of a title renames is the whole poster it has written.
LEMMA TornRename == ASSUME TaskInv, TornInv, NEW s, Rename(s) PROVE TornInv'
  <1> DEFINE id == task[s].id
             f == Without(temps, {id})
             g == Put(posters, id, temps[id])
  <1>1. temps' = f /\ posters' = g /\ shared' = shared /\ id \in DOMAIN temps
    BY DEF Rename, ghosts
  <1>2. DOMAIN f = DOMAIN temps \ {id} /\ \A y \in DOMAIN f : f[y] = temps[y]
    BY DEF Without, Restrict
  <1>3. DOMAIN g = DOMAIN posters \cup {id} /\ (\A y \in DOMAIN posters : y # id => g[y] = posters[y])
        /\ g[id] = temps[id]
    BY DEF Put
  <1> HIDE DEF f, g
  <1>4. /\ s \in DOMAIN task /\ DOMAIN task' = DOMAIN task /\ DOMAIN task \subseteq Slot
        /\ \A o \in DOMAIN task : task'[o].id = task[o].id
        /\ \A o \in DOMAIN task : o # s => task'[o].file = "none" <=> task[o].file = "none"
        /\ task'[s].file = "none" /\ task[s].file # "none" /\ task[s].pc = "renaming"
    BY WriteFacts DEF TaskInv, IsPartial
  <1>5. ASSUME NEW o \in DOMAIN task', task'[o].file # "none", task'[o].id \notin shared' PROVE OnlyWriter(o)'
    <2>1. o \in DOMAIN task /\ o # s /\ task[o].file # "none" /\ OnlyWriter(o)
      BY <1>1, <1>4, <1>5 DEF TornInv, WritesInv
    <2>2. task[o].id # id
      BY <1>4, <2>1 DEF OnlyWriter, HasOpen
    <2>3. \A i \in DOMAIN temps \cup DOMAIN temps' : i # task[s].id =>
             i \in DOMAIN temps /\ i \in DOMAIN temps' /\ temps'[i] = temps[i]
      BY <1>1, <1>2
    <2> QED
      BY <2>1, <2>2, <2>3, OthersWriteOn
  <1>6. ASSUME id \notin shared PROVE temps[id].whole
    <2>1. OnlyWriter(s)
      BY <1>4, <1>6 DEF TornInv, WritesInv
    <2> QED
      BY <1>1, <1>4, <2>1 DEF OnlyWriter
  <1>7. TornNeedsTwoWriters'
    BY <1>1, <1>3, <1>6 DEF TornInv, TornNeedsTwoWriters
  <1> QED
    BY <1>5, <1>7 DEF TornInv, WritesInv

LEMMA TornStep == TypeInv /\ TornInv /\ [Next]_vars => TornInv'
  <1> SUFFICES ASSUME TypeInv, TornInv, [Next]_vars PROVE TornInv'
    OBVIOUS
  <1>1. TaskInv
    BY DEF TypeInv
  <1>2. CASE Restart
    <2>1. task' = Nothing /\ posters' = posters /\ shared' = shared
      BY <1>2 DEF Restart, files, ghosts
    <2>2. WritesInv'
      BY <2>1 DEF WritesInv, Nothing
    <2> QED
      BY <2>1, <2>2 DEF TornInv, TornNeedsTwoWriters
  <1> QED
    BY <1>1, <1>2, TornQuiet, TornSweeps, TornCreate, TornWrite, TornRename, SweepFacts, FilesAndTasks

\* A half-written poster.jpg takes two enrichments of one title that write at
\* once (write_atomic): no crash, dropped request, sweep or lost rename leaves one
\* in place, however many titles, passes and requests there are.
THEOREM TornAlwaysNeedsTwo == Spec => []TornNeedsTwoWriters
  <1>1. Init => TornInv
    BY DEF Init, TornInv, WritesInv, TornNeedsTwoWriters, Nothing
  <1>2. TornInv => TornNeedsTwoWriters
    BY DEF TornInv
  <1> QED
    BY <1>1, <1>2, TornStep, TypesAlways, PTL DEF Spec
=============================================================================
