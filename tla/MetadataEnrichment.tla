-------------------------- MODULE MetadataEnrichment --------------------------
(***************************************************************************)
(* Metadata enrichment (crates/metadata/src/enrich.rs) with the passes     *)
(* that drive it (crates/ingest/src/enrich.rs, the backfill of crates/api/ *)
(* src/routes.rs), the manual refresh and match requests, and the artwork  *)
(* sweep (crates/metadata/src/reap.rs).                                    *)
(*                                                                         *)
(* Every enrichment is a chain of awaits: a gate read, a provider search,  *)
(* the details, a download, one transaction.  Nothing locks a title, so    *)
(* any number of them may be inside one title at once, and the title may   *)
(* be deleted, or its directory swept, under them.                         *)
(***************************************************************************)
EXTENDS Naturals, FiniteSets, FiniteSetsExt, Functions

CONSTANTS
    Match,          \* provider ids
    NoMatch,        \* no candidate clears the threshold; nothing stored
    Film,           \* what a file was parsed to: the (title, year) searched
    Best,           \* the best candidate the provider's search gives a film
    Pass,           \* the tasks that may run run_enrichment
    Request,        \* refresh and match requests being served at once
    Backfill,       \* the backfill, at most one at a time (backfill_running)
    Sweeper,        \* the hourly sweep and those of library deletes
    Concurrency,    \* enrichments of one pass at once
    Batch,          \* BATCH
    MaxLimit,       \* MAX_LIMIT, which clamps every list query
    MaxTitles,      \* bound: rows ever added
    MaxAsked,       \* bound: requests, backfills and deletes
    MaxFaults,      \* bound: provider and download errors
    MaxCrashes      \* bound: restarts of the server

ASSUME EnrichmentAssumption ==
    /\ NoMatch \notin Match
    /\ Best \in [Film -> Match \cup {NoMatch}]
    /\ Concurrency \in Nat \ {0} /\ Batch \in Nat \ {0} /\ MaxLimit \in Nat \ {0}
    /\ MaxTitles \in Nat /\ MaxAsked \in Nat /\ MaxFaults \in Nat /\ MaxCrashes \in Nat

VARIABLES
    rows,       \* titles: id -> film, metadata_state, match, poster_path set
    posters,    \* images/<kind>/<id>/poster.jpg: whose it is, written to the end
    temps,      \* images/<kind>/<id>/poster.jpg.tmp
    pass,       \* passes and backfill: the batch not yet taken, the progress made
    task,       \* enrichments under way, by the slot that runs them
    sweep,      \* sweeps: the ids spared, read before any directory is looked at
    shared,     \* history: ids whose poster two enrichments were writing at once
    lost,       \* history: ids swept while their title was there or enriched
    added, asked, faults, crashes

files == <<posters, temps>>
ghosts == <<shared, lost>>
bounds == <<added, asked, faults, crashes>>
vars == <<rows, files, pass, task, sweep, ghosts, bounds>>

-----------------------------------------------------------------------------
(* Types *)

Id == 1 .. MaxTitles
State == {"pending", "matched", "unmatched", "failed"}
Row == [film : Film, state : State, match : Match \cup {NoMatch}, poster : BOOLEAN]
File == [of : Match, whole : BOOLEAN]
Worker == Pass \cup Backfill
Slot == (Worker \X (1 .. Concurrency)) \cup (Request \X {1})
Task == [pc : {"gate", "search", "details", "artwork", "fetching", "writing",
               "renaming", "persist"},
         id : Id, force : BOOLEAN, film : Film \cup {"unread"},
         match : Match \cup {NoMatch},
         file : {"none", "tmp", "final", "unlinked"}, got : BOOLEAN]
Batching == [todo : SUBSET Id, size : 0 .. MaxLimit, progressed : BOOLEAN]
Sweeping == [surviving : SUBSET Id, read : BOOLEAN]

IsPartial(f, S, T) == DOMAIN f \subseteq S /\ f \in [DOMAIN f -> T]

\* Titles, tasks, passes and poster files are well formed (enrich, run_enrichment).
TypeOK ==
    /\ IsPartial(rows, Id, Row)
    /\ IsPartial(posters, Id, File) /\ IsPartial(temps, Id, File)
    /\ IsPartial(pass, Worker, Batching)
    /\ IsPartial(task, Slot, Task)
    /\ IsPartial(sweep, Sweeper, Sweeping)
    /\ shared \subseteq Id /\ lost \subseteq Id
    /\ added \in 0 .. MaxTitles /\ asked \in 0 .. MaxAsked
    /\ faults \in 0 .. MaxFaults /\ crashes \in 0 .. MaxCrashes

-----------------------------------------------------------------------------

Put(f, x, v) == [y \in DOMAIN f \cup {x} |-> IF y = x THEN v ELSE f[y]]
Without(f, S) == Restrict(f, DOMAIN f \ S)
Nothing == [x \in {} |-> 0]

Init ==
    /\ rows = Nothing /\ posters = Nothing /\ temps = Nothing
    /\ pass = Nothing /\ task = Nothing /\ sweep = Nothing
    /\ shared = {} /\ lost = {}
    /\ added = 0 /\ asked = 0 /\ faults = 0 /\ crashes = 0

Enriched == {task[s].id : s \in DOMAIN task}

-----------------------------------------------------------------------------
(* Titles come from scans and go with their library *)

\* INTEGER PRIMARY KEY: the id of a deleted last row is given out again.
NextId == 1 + Max(DOMAIN rows \cup {0})

AddTitle(film) ==
    /\ added < MaxTitles /\ added' = added + 1
    /\ rows' = Put(rows, NextId, [film |-> film, state |-> "pending",
                                  match |-> NoMatch, poster |-> FALSE])
    /\ UNCHANGED <<files, pass, task, sweep, ghosts, asked, faults, crashes>>

\* delete_library: the cascade, then a sweep of its own.
DeleteTitle(id, w) ==
    /\ asked < MaxAsked /\ asked' = asked + 1
    /\ w \notin DOMAIN sweep
    /\ rows' = Without(rows, {id})
    /\ sweep' = Put(sweep, w, [surviving |-> {}, read |-> FALSE])
    /\ UNCHANGED <<files, pass, task, ghosts, added, faults, crashes>>

-----------------------------------------------------------------------------
(* run_enrichment and the backfill *)

Pending == {id \in DOMAIN rows : rows[id].state \in {"pending", "failed"}}
Matched == {id \in DOMAIN rows : rows[id].state = "matched"}

\* FAULTY (mutant of Listed): failed titles are not tried again.
ListedOnce ==
    {id \in Pending : rows[id].state = "pending"
        /\ Cardinality({i \in Pending : i < id}) < Min({Batch, MaxLimit})}

\* FAULTY (mutant of Listed): no LIMIT.
ListedAll == Pending

\* list_pending_metadata: the oldest, at most MAX_LIMIT.
Listed == {id \in Pending : Cardinality({i \in Pending : i < id}) < Min({Batch, MaxLimit})}

StartPass(w) ==
    /\ w \in Pass \ DOMAIN pass
    /\ Listed # {}
    /\ pass' = Put(pass, w, [todo |-> Listed, size |-> Cardinality(Listed),
                             progressed |-> FALSE])
    /\ UNCHANGED <<rows, files, task, sweep, ghosts, bounds>>

\* The backfill works through matched titles that lack something.
StartBackfill(w, ids) ==
    /\ asked < MaxAsked /\ asked' = asked + 1
    /\ w \in Backfill \ DOMAIN pass
    /\ ids \subseteq Matched /\ ids # {} /\ Cardinality(ids) <= MaxLimit
    /\ pass' = Put(pass, w, [todo |-> ids, size |-> Cardinality(ids),
                             progressed |-> FALSE])
    /\ UNCHANGED <<rows, files, task, sweep, ghosts, added, faults, crashes>>

Started(pc, id, force, match) ==
    [pc |-> pc, id |-> id, force |-> force, film |-> "unread", match |-> match,
     file |-> "none", got |-> FALSE]

\* The backfill reads the title again, and one that went ends it.
Aborts(w, id) == w \in Backfill /\ id \notin DOMAIN rows

\* A title of the batch gets a permit; a backfill takes one at a time, and
\* reads the match its row has by now.
Take(s) ==
    /\ s \notin DOMAIN task
    /\ s[1] \in DOMAIN pass
    /\ \E id \in pass[s[1]].todo :
          /\ pass' = [pass EXCEPT ![s[1]].todo = IF Aborts(s[1], id) THEN {} ELSE @ \ {id}]
          /\ IF s[1] \in Pass
             THEN task' = Put(task, s, Started("gate", id, FALSE, NoMatch))
             ELSE /\ s[2] = 1
                  /\ task' = IF id \in DOMAIN rows /\ rows[id].match # NoMatch
                             THEN Put(task, s, Started("details", id, TRUE, rows[id].match))
                             ELSE task
    /\ UNCHANGED <<rows, files, sweep, ghosts, bounds>>

BatchDone(w) ==
    /\ w \in DOMAIN pass
    /\ pass[w].todo = {}
    /\ \A s \in DOMAIN task : s[1] # w

\* Drained (a short batch) or stalled: stop.
Stops(w) == w \in Backfill \/ pass[w].size < Batch \/ ~pass[w].progressed \/ Listed = {}

EndPass(w) ==
    /\ BatchDone(w) /\ Stops(w)
    /\ pass' = Without(pass, {w})
    /\ UNCHANGED <<rows, files, task, sweep, ghosts, bounds>>

NextBatch(w) ==
    /\ BatchDone(w) /\ ~Stops(w)
    /\ pass' = [pass EXCEPT ![w].todo = Listed, ![w].size = Cardinality(Listed),
                            ![w].progressed = FALSE]
    /\ UNCHANGED <<rows, files, task, sweep, ghosts, bounds>>

-----------------------------------------------------------------------------
(* The requests *)

Refresh(r, id) ==
    /\ asked < MaxAsked /\ asked' = asked + 1
    /\ <<r, 1>> \notin DOMAIN task
    /\ task' = Put(task, <<r, 1>>, Started("gate", id, TRUE, NoMatch))
    /\ UNCHANGED <<rows, files, pass, sweep, ghosts, added, faults, crashes>>

Pin(r, id, m) ==
    /\ asked < MaxAsked /\ asked' = asked + 1
    /\ <<r, 1>> \notin DOMAIN task
    /\ task' = Put(task, <<r, 1>>, Started("details", id, TRUE, m))
    /\ UNCHANGED <<rows, files, pass, sweep, ghosts, added, faults, crashes>>

\* The client disconnects and its handler is dropped where it awaits; a write
\* on the blocking pool runs to its end first.
ClientLeaves(r) ==
    /\ <<r, 1>> \in DOMAIN task
    /\ task[<<r, 1>>].pc \notin {"writing", "renaming"}
    /\ task' = Without(task, {<<r, 1>>})
    /\ UNCHANGED <<rows, files, pass, sweep, ghosts, bounds>>

-----------------------------------------------------------------------------
(* enrich, enrich_with_id *)

At(s, pc) == s \in DOMAIN task /\ task[s].pc = pc
Goto(s, pc) == task' = [task EXCEPT ![s].pc = pc]

\* The task ends; a pass notes whether its title left the worklist.
Finish(s, progress) ==
    /\ task' = Without(task, {s})
    /\ pass' = IF s[1] \in DOMAIN pass
               THEN [pass EXCEPT ![s[1]].progressed = @ \/ progress] ELSE pass

\* mark_state updates no row when the title is gone.
Mark(id, state) ==
    rows' = IF id \in DOMAIN rows THEN [rows EXCEPT ![id].state = state] ELSE rows

Fault == faults < MaxFaults /\ faults' = faults + 1

\* A matched title whose poster is on disk, or an unmatched one, is skipped.
Skips(id) ==
    id \in DOMAIN rows
       /\ \/ rows[id].state = "matched" /\ id \in DOMAIN posters
          \/ rows[id].state = "unmatched"

Gate(s) ==
    /\ At(s, "gate")
    /\ LET id == task[s].id IN
       IF id \in DOMAIN rows /\ (task[s].force \/ ~Skips(id))
       THEN /\ task' = [task EXCEPT ![s].pc = "search", ![s].film = rows[id].film]
            /\ UNCHANGED pass
       ELSE Finish(s, id \in DOMAIN rows)
    /\ UNCHANGED <<rows, files, sweep, ghosts, bounds>>

SearchAnswers(s) ==
    /\ At(s, "search")
    /\ LET m == Best[task[s].film] IN
       IF m = NoMatch
       THEN Mark(task[s].id, "unmatched") /\ Finish(s, TRUE)
       ELSE /\ task' = [task EXCEPT ![s].pc = "details", ![s].match = m]
            /\ UNCHANGED <<rows, pass>>
    /\ UNCHANGED <<files, sweep, ghosts, bounds>>

DetailsArrive(s) ==
    /\ At(s, "details")
    /\ Goto(s, "artwork")
    /\ UNCHANGED <<rows, files, pass, sweep, ghosts, bounds>>

ProviderFails(s) ==
    /\ At(s, "search") \/ At(s, "details")
    /\ Fault
    /\ Mark(task[s].id, "failed") /\ Finish(s, FALSE)
    /\ UNCHANGED <<files, sweep, ghosts, added, asked, crashes>>

\* maybe_download: a poster on disk is kept, whatever match it is of.
KeepPoster(s) ==
    /\ At(s, "artwork")
    /\ task[s].id \in DOMAIN posters
    /\ task' = [task EXCEPT ![s].pc = "persist", ![s].got = TRUE]
    /\ UNCHANGED <<rows, files, pass, sweep, ghosts, bounds>>

FetchPoster(s) ==
    /\ At(s, "artwork")
    /\ task[s].id \notin DOMAIN posters
    /\ Goto(s, "fetching")
    /\ UNCHANGED <<rows, files, pass, sweep, ghosts, bounds>>

\* The download failed, or the match has no poster: enriched without it.
NoPoster(s) ==
    /\ At(s, "fetching")
    /\ Fault
    /\ Goto(s, "persist")
    /\ UNCHANGED <<rows, files, pass, sweep, ghosts, added, asked, crashes>>

-----------------------------------------------------------------------------
(* write_atomic: create poster.jpg.tmp, write it, rename it into place *)

\* The slot has a poster of this title open, linked or not by now.
HasOpen(s, id) == s \in DOMAIN task /\ task[s].id = id /\ task[s].file # "none"

\* FAULTY (mutant of Target): the poster is written in place.
InPlace == "final"
Target == "tmp"

\* File::create empties a .tmp that is there, under the feet of its writer.
CreateTemp(s) ==
    LET id == task[s].id
        empty == [of |-> task[s].match, whole |-> FALSE] IN
    /\ At(s, "fetching")
    /\ task' = [task EXCEPT ![s].pc = "writing", ![s].file = Target]
    /\ temps' = IF Target = "tmp" THEN Put(temps, id, empty) ELSE temps
    /\ posters' = IF Target = "tmp" THEN posters ELSE Put(posters, id, empty)
    /\ shared' = IF \E o \in Slot : HasOpen(o, id) THEN shared \cup {id} ELSE shared
    /\ UNCHANGED <<rows, pass, sweep, lost, bounds>>

\* The bytes go to the file that was opened, wherever it is linked by now.
WriteTemp(s) ==
    LET id == task[s].id
        full == [of |-> task[s].match, whole |-> TRUE] IN
    /\ At(s, "writing")
    /\ Goto(s, "renaming")
    /\ temps' = IF task[s].file = "tmp" THEN Put(temps, id, full) ELSE temps
    /\ posters' = IF task[s].file = "final" THEN Put(posters, id, full) ELSE posters
    /\ UNCHANGED <<rows, pass, sweep, ghosts, bounds>>

\* What the others that have a file of this title open hold after the rename.
Relinked(f) == IF f = "final" THEN "unlinked" ELSE IF f = "tmp" THEN "final" ELSE f

Rename(s) ==
    LET id == task[s].id IN
    /\ At(s, "renaming")
    /\ id \in DOMAIN temps
    /\ posters' = Put(posters, id, temps[id])
    /\ temps' = Without(temps, {id})
    /\ task' = [o \in DOMAIN task |->
                   IF o = s THEN [task[s] EXCEPT !.pc = "persist", !.file = "none", !.got = TRUE]
                   ELSE IF task[o].id = id THEN [task[o] EXCEPT !.file = Relinked(@)]
                   ELSE task[o]]
    /\ UNCHANGED <<rows, pass, sweep, ghosts, bounds>>

\* The .tmp is gone, renamed by another writer or swept: the error ends the
\* enrichment and leaves the row as it is.
RenameFails(s) ==
    /\ At(s, "renaming")
    /\ task[s].id \notin DOMAIN temps
    /\ Finish(s, FALSE)
    /\ UNCHANGED <<rows, files, sweep, ghosts, bounds>>

\* FAULTY (mutant of PosterRecorded): the path is recorded in any case.
AlwaysRecorded(s) == TRUE
PosterRecorded(s) == task[s].got

\* One transaction; on a deleted title its credits break a foreign key.
Persist(s) ==
    LET id == task[s].id IN
    /\ At(s, "persist")
    /\ rows' = IF id \in DOMAIN rows
               THEN [rows EXCEPT ![id].state = "matched", ![id].match = task[s].match,
                                 ![id].poster = @ \/ PosterRecorded(s)]
               ELSE rows
    /\ Finish(s, id \in DOMAIN rows)
    /\ UNCHANGED <<files, sweep, ghosts, bounds>>

-----------------------------------------------------------------------------
(* sweep_orphan_images *)

StartSweep(w) ==
    /\ w \notin DOMAIN sweep
    /\ asked < MaxAsked /\ asked' = asked + 1
    /\ sweep' = Put(sweep, w, [surviving |-> {}, read |-> FALSE])
    /\ UNCHANGED <<rows, files, pass, task, ghosts, added, faults, crashes>>

SweepReads(w) ==
    /\ w \in DOMAIN sweep /\ ~sweep[w].read
    /\ sweep' = [sweep EXCEPT ![w] = [surviving |-> DOMAIN rows, read |-> TRUE]]
    /\ UNCHANGED <<rows, files, pass, task, ghosts, bounds>>

\* remove_dir_all, once per entry of the listing; open files stay open,
\* unlinked.
RemoveDir(w, id) ==
    /\ w \in DOMAIN sweep /\ sweep[w].read
    /\ id \notin sweep[w].surviving
    /\ posters' = Without(posters, {id}) /\ temps' = Without(temps, {id})
    /\ sweep' = [sweep EXCEPT ![w].surviving = @ \cup {id}]
    /\ lost' = IF id \in DOMAIN rows \cup Enriched THEN lost \cup {id} ELSE lost
    /\ UNCHANGED <<rows, pass, shared, bounds>>

Unlinked(id) ==
    [o \in DOMAIN task |->
        IF task[o].id = id /\ task[o].file # "none"
        THEN [task[o] EXCEPT !.file = "unlinked"] ELSE task[o]]

SweepDir(w, id) ==
    /\ id \in DOMAIN posters \cup DOMAIN temps
    /\ RemoveDir(w, id)
    /\ task' = Unlinked(id)

\* The directory goes between create_dir_all and File::create, which fails and
\* ends the enrichment.
SweepBeforeCreate(w, s) ==
    /\ At(s, "fetching")
    /\ RemoveDir(w, task[s].id)
    /\ task' = Without(Unlinked(task[s].id), {s})

EndSweep(w) ==
    /\ w \in DOMAIN sweep /\ sweep[w].read
    /\ sweep' = Without(sweep, {w})
    /\ UNCHANGED <<rows, files, pass, task, ghosts, bounds>>

-----------------------------------------------------------------------------

\* The process dies; the database and the images survive.
Restart ==
    /\ crashes < MaxCrashes /\ crashes' = crashes + 1
    /\ pass' = Nothing /\ task' = Nothing /\ sweep' = Nothing
    /\ UNCHANGED <<rows, files, ghosts, added, asked, faults>>

TaskStep(s) ==
    \/ Gate(s) \/ SearchAnswers(s) \/ DetailsArrive(s)
    \/ KeepPoster(s) \/ FetchPoster(s)
    \/ CreateTemp(s) \/ WriteTemp(s) \/ Rename(s) \/ RenameFails(s) \/ Persist(s)

Faulty(s) == ProviderFails(s) \/ NoPoster(s)

PassStep(w) == StartPass(w) \/ EndPass(w) \/ NextBatch(w)

SweepStep(w) ==
    \/ SweepReads(w) \/ EndSweep(w)
    \/ \E id \in Id : SweepDir(w, id)
    \/ \E s \in Slot : SweepBeforeCreate(w, s)

Asked ==
    \/ \E r \in Request, id \in DOMAIN rows :
          Refresh(r, id) \/ \E m \in Match : Pin(r, id, m)
    \/ \E r \in Request : ClientLeaves(r)
    \/ \E id \in DOMAIN rows, w \in Sweeper : DeleteTitle(id, w)
    \/ \E w \in Backfill, ids \in SUBSET Matched : StartBackfill(w, ids)
    \/ \E w \in Sweeper : StartSweep(w)

Next ==
    \/ \E film \in Film : AddTitle(film)
    \/ \E s \in Slot : Take(s) \/ TaskStep(s) \/ Faulty(s)
    \/ \E w \in Worker : PassStep(w)
    \/ \E w \in Sweeper : SweepStep(w)
    \/ Asked
    \/ Restart

Spec == Init /\ [][Next]_vars

\* Tasks of the runtime run, the provider answers or times out, and passes
\* come again: by the backfill interval, or with the next scan.
FairSpec ==
    /\ Spec
    /\ \A s \in Slot : WF_vars(Take(s) \/ TaskStep(s))
    /\ \A w \in Worker : WF_vars(PassStep(w))

-----------------------------------------------------------------------------
(* Properties *)

\* A half-written poster.jpg takes two enrichments of one title that overlap:
\* a crash, a dropped request or a sweep alone never leaves one in place.
TornNeedsTwoWriters ==
    \A id \in DOMAIN posters : posters[id].whole \/ id \in shared

\* A recorded poster_path has its file, unless a sweep whose list of ids was
\* older than the title took the directory.
PosterOnDisk ==
    \A id \in DOMAIN rows \ lost : rows[id].poster => id \in DOMAIN posters

\* Every title is matched or found to have no match in the end, however the
\* provider fails before it recovers and whoever else enriches the title.
EveryTitleResolved ==
    \A id \in Id : id \in Pending ~> id \notin Pending

=============================================================================
