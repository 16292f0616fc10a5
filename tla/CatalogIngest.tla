---------------------------- MODULE CatalogIngest ----------------------------
(***************************************************************************)
(* The ingest worker (crates/ingest/src/worker.rs, scanner.rs) with the    *)
(* catalog tables it writes (crates/db/src/writes.rs), the library API     *)
(* (crates/api/src/libraries.rs), the boot sequence (crates/api/src/       *)
(* main.rs) and the media folder they all look at.                         *)
(*                                                                         *)
(* The worker is one task: scans never overlap.  Inside a scan the probes  *)
(* of the changed files run concurrently and one writer commits their      *)
(* results in whatever order they finish.  Files, libraries and the        *)
(* process itself may change or die between any two of these steps, and    *)
(* the database, the file system, ffprobe and notify may fail at any of    *)
(* them: most such errors are logged and the file or the scan given up.    *)
(***************************************************************************)
EXTENDS Naturals, FiniteSets, FiniteSetsExt, Functions

CONSTANTS
    Path,          \* video file names under MEDIA_DIR
    Name,          \* titles a file name can be parsed to
    NameOf,        \* the title each path parses to, as a movie or a series
    GuessOf,       \* the kind `classify` guesses from each path
    Folder,        \* what a library folder can cover: sets of paths
    Stat,          \* what `discover` can see of a file: mtime in seconds, size
    NoLib,         \* library_id NULL
    MaxEdits,      \* bound: changes of the media folder in a behavior
    MaxAdmin,      \* bound: library requests in a behavior
    MaxCrashes,    \* bound: restarts of the server in a behavior
    MaxFaults      \* bound: errors of the database, the disk, ffprobe or notify

Kind == {"movie", "series"}

ASSUME CatalogAssumption ==
    /\ NameOf \in [Path -> Name]
    /\ GuessOf \in [Path -> Kind]
    /\ Folder \subseteq SUBSET Path /\ Path \in Folder    \* of them, MEDIA_DIR itself
    /\ NoLib \notin Nat
    /\ MaxEdits \in Nat /\ MaxAdmin \in Nat /\ MaxCrashes \in Nat /\ MaxFaults \in Nat

VARIABLES
    (* The media folder *)
    disk,       \* the video files present: contents, stat, readable, sidecar
    edits,      \* changes so far; also the version of the contents last stored
    (* library.db *)
    libraries,  \* id -> kind and folder
    titles,     \* movies and series: title -> library_id
    files,      \* media_files: path -> owner and probed contents
    scanState,  \* scan_state: path -> the stat it was probed under
    failures,   \* probe_failures
    (* The worker task and its two wake-up channels *)
    pc,         \* where the task is
    watching,   \* the notify watcher is registered
    todo,       \* walk: directory entries of each root not yet visited
    jobs,       \* DiscoveredFiles and Probed results of the running scan
    written,    \* the writer of this scan has committed a row
    event,      \* something is in the watch loop's event channel
    trigger,    \* something is in the scan trigger's channel
    (* The library API *)
    creations,  \* create_library requests answered or underway in this process
    (* History and bounds *)
    unseen,     \* paths to catalogue of which no event or trigger tells: they
                \* changed before watch, a library request moved the roots, or
                \* the work on them was given up after an error
    dropped,    \* paths whose rows went with a deleted library
    restated,   \* paths replaced under a stat the scan had noted of them
    admin, crashes, faults

dbVars == <<libraries, titles, files, scanState, failures>>
workVars == <<pc, watching, todo, jobs, written>>
diskVars == <<disk, edits, restated>>
bounds == <<admin, crashes, faults>>
vars == <<diskVars, dbVars, workVars, event, trigger, unseen, dropped, creations, bounds>>

-----------------------------------------------------------------------------
(* Types *)

Title == Kind \X Name
LibraryId == 1 .. (2 + MaxAdmin)
Version == 1 .. MaxEdits

DiskFile == [ver : Version, stat : Stat, good : BOOLEAN, side : BOOLEAN]
Library == [kind : Kind, folder : SUBSET Path]
Creation == [lib : LibraryId, folder : Folder, step : {"row", "folder", "asked"}]
MediaFile == [owner : Title, ver : Version, side : BOOLEAN]
Root == [lib : LibraryId \cup {NoLib}, kind : Kind \cup {"guess"}]
Job == [path : Path, stat : Stat, lib : LibraryId \cup {NoLib}, kind : Kind,
        step : {"found", "changed", "read", "probed"},
        ver : Version \cup {0}, side : BOOLEAN]

IsPartial(f, S, T) == DOMAIN f \subseteq S /\ f \in [DOMAIN f -> T]

\* Libraries, titles, files and scan records are well formed; a title is of a kind and name
\* the scanner gives (classify_with_hint).
TypeOK ==
    /\ IsPartial(disk, Path, DiskFile)
    /\ edits \in 0 .. MaxEdits
    /\ IsPartial(libraries, LibraryId, Library)
    /\ IsPartial(titles, Title, LibraryId \cup {NoLib})
    /\ IsPartial(files, Path, MediaFile)
    /\ IsPartial(scanState, Path, Stat)
    /\ failures \subseteq Path
    /\ pc \in {"down", "seedFolder", "seedSeries", "seedLast", "starting",
               "walking", "filtering", "probing", "enriching", "sweeping",
               "idle", "debouncing", "stopped"}
    /\ watching \in BOOLEAN
    /\ todo \subseteq Root \X Path
    /\ jobs \subseteq Job
    /\ written \in BOOLEAN /\ event \in BOOLEAN /\ trigger \in BOOLEAN
    /\ creations \subseteq Creation
    /\ unseen \subseteq Path /\ dropped \subseteq Path /\ restated \subseteq Path
    /\ admin \in 0 .. MaxAdmin /\ crashes \in 0 .. MaxCrashes /\ faults \in 0 .. MaxFaults

-----------------------------------------------------------------------------
(* Tables *)

Put(f, x, v) == [y \in DOMAIN f \cup {x} |-> IF y = x THEN v ELSE f[y]]
Without(f, S) == Restrict(f, DOMAIN f \ S)

\* INTEGER PRIMARY KEY: one more than the largest id in the table, so the
\* id of a deleted last row is given out again.
NextId == 1 + Max(DOMAIN libraries \cup {0})

\* library_roots: a library without a folder contributes none.
Rooted == {l \in DOMAIN libraries : libraries[l].folder # {}}

\* The roots of a scan: the libraries' folders, or all of MEDIA_DIR.
Roots == IF Rooted = {}
         THEN {[lib |-> NoLib, kind |-> "guess"]} \X Path
         ELSE UNION {{[lib |-> l, kind |-> libraries[l].kind]} \X libraries[l].folder
                        : l \in Rooted}

Covered == {e[2] : e \in Roots}

\* FAULTY (mutant): the hint is taken as the kind.
HintOnly(root, p) == root.kind

\* classify_with_hint: the library's kind wins over the file name.
KindFor(root, p) == IF root.kind = "guess" THEN GuessOf[p] ELSE root.kind

\* filter_changed: new, changed, or its sidecars differ from those recorded
\* (none are, when the file has no row).
Sidecar(p) == p \in DOMAIN disk /\ disk[p].side
RecordedSidecar(p) == p \in DOMAIN files /\ files[p].side

\* FAULTY (mutant): sidecars are not compared.
NoDrift(j) == j.path \notin DOMAIN scanState \/ scanState[j.path] # j.stat

NeedsProbe(j) ==
    \/ j.path \notin DOMAIN scanState
    \/ scanState[j.path] # j.stat
    \/ Sidecar(j.path) # RecordedSidecar(j.path)

\* The catalog has what is on disk: its contents and sidecars, or, for a file
\* ffprobe cannot read, the failure.
CaughtUp(p) ==
    IF disk[p].good
    THEN p \in DOMAIN files /\ files[p].ver = disk[p].ver /\ files[p].side = disk[p].side
    ELSE p \in failures

Behind(p) == p \in DOMAIN disk \cap Covered /\ ~CaughtUp(p)

\* An error among those whose handling is modelled.
Fault ==
    /\ faults < MaxFaults
    /\ faults' = faults + 1

-----------------------------------------------------------------------------
(* Boot: seed_default_libraries runs its statements without a transaction *)

Init ==
    /\ disk = [p \in {} |-> 0] /\ edits = 0
    /\ libraries = [l \in {} |-> 0]
    /\ titles = [t \in {} |-> 0]
    /\ files = [p \in {} |-> 0]
    /\ scanState = [p \in {} |-> 0]
    /\ failures = {}
    /\ pc = "down" /\ watching = FALSE
    /\ todo = {} /\ jobs = {} /\ written = FALSE
    /\ event = FALSE /\ trigger = FALSE
    /\ creations = {}
    /\ unseen = {} /\ dropped = {} /\ restated = {}
    /\ admin = 0 /\ crashes = 0 /\ faults = 0

Booting == {"down", "seedFolder", "seedSeries", "seedLast"}

SeedMovies ==
    /\ pc = "down" /\ DOMAIN libraries = {}
    /\ pc' = "seedFolder"
    /\ libraries' = Put(libraries, 1, [kind |-> "movie", folder |-> {}])
    /\ UNCHANGED titles

SeedMoviesFolder ==
    /\ pc = "seedFolder"
    /\ pc' = "seedSeries"
    /\ libraries' = [libraries EXCEPT ![1].folder = Path]
    /\ UNCHANGED titles

SeedSeries ==
    /\ pc = "seedSeries"
    /\ pc' = "seedLast"
    /\ libraries' = Put(libraries, 2, [kind |-> "series", folder |-> {}])
    /\ UNCHANGED titles

\* The second folder, and library_id of the rows from before any library.
SeedSeriesFolder ==
    /\ pc = "seedLast"
    /\ pc' = "starting"
    /\ libraries' = [libraries EXCEPT ![2].folder = Path]
    /\ titles' = [t \in DOMAIN titles |->
                     IF titles[t] # NoLib THEN titles[t]
                     ELSE IF t[1] = "movie" THEN 1 ELSE 2]

SeedNothing ==
    /\ pc = "down" /\ DOMAIN libraries # {}
    /\ pc' = "starting"
    /\ UNCHANGED <<libraries, titles>>

Boot ==
    /\ \/ SeedMovies \/ SeedMoviesFolder
       \/ SeedSeries \/ SeedSeriesFolder
       \/ SeedNothing
    /\ UNCHANGED <<diskVars, files, scanState, failures, watching, todo, jobs,
                   written, event, trigger, unseen, dropped, creations, bounds>>

-----------------------------------------------------------------------------
(* run_scan *)

\* The roots are read once; then the walk visits their entries one by one.
StartScan ==
    /\ pc \in {"starting", "debouncing"}
    /\ pc = "debouncing" => ~event      \* quiet for DEBOUNCE
    /\ pc' = "walking"
    /\ todo' = Roots
    /\ written' = FALSE
    /\ UNCHANGED <<diskVars, dbVars, watching, jobs, event, trigger, unseen,
                   dropped, creations, bounds>>

\* The job `discover` makes of an entry, if the file is still there.
Discovered(root, p) ==
    {[path |-> p, stat |-> disk[p].stat, lib |-> root.lib, kind |-> KindFor(root, p),
      step |-> "found", ver |-> 0, side |-> FALSE] : x \in {p} \cap DOMAIN disk}

Discover(root, p) ==
    /\ pc = "walking"
    /\ <<root, p>> \in todo
    /\ todo' = todo \ {<<root, p>>}
    /\ jobs' = jobs \cup Discovered(root, p)
    /\ unseen' = IF root.lib \in DOMAIN libraries \cup {NoLib} THEN unseen \ {p}
                                                              ELSE unseen
    /\ UNCHANGED <<diskVars, dbVars, pc, watching, written, event, trigger,
                   dropped, creations, bounds>>

WalkEnds ==
    /\ pc = "walking" /\ todo = {}
    /\ pc' = "filtering"
    /\ UNCHANGED <<diskVars, dbVars, watching, todo, jobs, written, event,
                   trigger, unseen, dropped, creations, bounds>>

\* filter_changed, one file at a time.
FilterChanged(j) ==
    /\ pc = "filtering" /\ j.step = "found"
    /\ jobs' = (jobs \ {j}) \cup
                  {[j EXCEPT !.step = "changed"] : x \in {j} \cap {i \in jobs : NeedsProbe(i)}}
    /\ UNCHANGED <<diskVars, dbVars, pc, watching, todo, written, event,
                   trigger, unseen, dropped, creations, bounds>>

FilterEnds ==
    /\ pc = "filtering"
    /\ \A j \in jobs : j.step # "found"
    /\ pc' = "probing"
    /\ UNCHANGED <<diskVars, dbVars, watching, todo, jobs, written, event,
                   trigger, unseen, dropped, creations, bounds>>

\* ffprobe reads the file as it is by now, then its sidecars are listed.
Probe(j) ==
    /\ pc = "probing" /\ j.step = "changed"
    /\ j.path \in DOMAIN disk /\ disk[j.path].good
    /\ jobs' = (jobs \ {j}) \cup {[j EXCEPT !.step = "read", !.ver = disk[j.path].ver,
                                            !.side = disk[j.path].side]}
    /\ UNCHANGED <<diskVars, dbVars, pc, watching, todo, written, event,
                   trigger, unseen, dropped, creations, bounds>>

\* clear_probe_failure, a commit of its own before the result is sent.
ClearFailure(j) ==
    /\ pc = "probing" /\ j.step = "read"
    /\ failures' = failures \ {j.path}
    /\ jobs' = (jobs \ {j}) \cup {[j EXCEPT !.step = "probed"]}
    /\ UNCHANGED <<diskVars, libraries, titles, files, scanState, pc, watching,
                   todo, written, event, trigger, unseen, dropped, creations, bounds>>

\* The file is gone or unreadable: recorded, and skipped in this scan.
ProbeFails(j) ==
    /\ pc = "probing" /\ j.step = "changed"
    /\ j.path \in DOMAIN disk => ~disk[j.path].good
    /\ failures' = failures \cup {j.path}
    /\ jobs' = jobs \ {j}
    /\ UNCHANGED <<diskVars, libraries, titles, files, scanState, pc, watching,
                   todo, written, event, trigger, unseen, dropped, creations, bounds>>

\* FAULTY (mutants): the stat is taken when the row is written; the row is
\* written although its library is gone.
StatNow(j) == IF j.path \in DOMAIN disk THEN disk[j.path].stat ELSE j.stat
NeverGone(j) == FALSE

RecordedStat(j) == j.stat

\* set_movie_library fails its foreign key when the library was deleted.
LibraryGone(j) == j.lib # NoLib /\ j.lib \notin DOMAIN libraries

\* write_one: one transaction.
WriteOne(j) ==
    LET owner == <<j.kind, NameOf[j.path]>>
        scope == IF j.lib # NoLib THEN j.lib
                 ELSE IF owner \in DOMAIN titles THEN titles[owner] ELSE NoLib
    IN
    /\ pc = "probing" /\ j.step = "probed"
    /\ ~LibraryGone(j)
    /\ scanState' = Put(scanState, j.path, RecordedStat(j))
    /\ titles' = Put(titles, owner, scope)
    /\ files' = Put(files, j.path, [owner |-> owner, ver |-> j.ver, side |-> j.side])
    /\ dropped' = dropped \ {j.path}
    /\ written' = TRUE
    /\ jobs' = jobs \ {j}
    /\ UNCHANGED <<diskVars, libraries, failures, pc, watching, todo, event,
                   trigger, unseen, creations, bounds>>

\* The transaction rolls back; the error is logged and the file skipped.
WriteFails(j) ==
    /\ pc = "probing" /\ j.step = "probed"
    /\ LibraryGone(j)
    /\ jobs' = jobs \ {j}
    /\ UNCHANGED <<diskVars, dbVars, pc, watching, todo, written, event,
                   trigger, unseen, dropped, creations, bounds>>

\* A scan that wrote something enriches; the boot sweep runs in any case.
ScanEnds ==
    /\ pc = "probing" /\ jobs = {}
    /\ pc' = IF written THEN "enriching" ELSE IF watching THEN "idle" ELSE "sweeping"
    /\ UNCHANGED <<diskVars, dbVars, watching, todo, jobs, written, event,
                   trigger, unseen, dropped, creations, bounds>>

EnrichmentEnds ==
    /\ pc = "enriching"
    /\ pc' = IF watching THEN "idle" ELSE "sweeping"
    /\ UNCHANGED <<diskVars, dbVars, watching, todo, jobs, written, event,
                   trigger, unseen, dropped, creations, bounds>>

-----------------------------------------------------------------------------
(* The errors of a scan.  Nobody retries what one of them gives up; the next scan does, when an
   event or a request asks for it. *)

\* The roots or filter_changed cannot be read: run_scan's error is logged by whoever called it.
ScanFails ==
    /\ Fault
    /\ pc \in {"starting", "debouncing", "filtering"}
    /\ pc = "debouncing" => ~event
    /\ pc' = IF watching THEN "idle" ELSE "sweeping"
    /\ jobs' = {}
    /\ unseen' = unseen \cup {p \in Path : Behind(p)}
    /\ UNCHANGED <<diskVars, dbVars, watching, todo, written, event, trigger, dropped,
                   creations, admin, crashes>>

\* A directory or a file that cannot be read is skipped, entry by entry.
EntrySkipped(root, p) ==
    /\ Fault
    /\ pc = "walking"
    /\ todo' = todo \ {<<root, p>>}
    /\ unseen' = unseen \cup {p}
    /\ UNCHANGED <<diskVars, dbVars, pc, watching, jobs, written, event, trigger, dropped,
                   creations, admin, crashes>>

\* The two lists of sidecars are compared although one could not be read (an error of the database
\* reads as `no drift', one of the folder as an empty list).
DriftMisread(j) ==
    /\ Fault
    /\ pc = "filtering" /\ j.step = "found"
    /\ j.path \in DOMAIN scanState /\ scanState[j.path] = j.stat
    /\ \E kept \in SUBSET {[j EXCEPT !.step = "changed"]} : jobs' = (jobs \ {j}) \cup kept
    /\ unseen' = unseen \cup {j.path}
    /\ UNCHANGED <<diskVars, dbVars, pc, watching, todo, written, event, trigger, dropped,
                   creations, admin, crashes>>

\* ffprobe fails on a good file, or the failure, swallowed, is not recorded.
ProbeErrs(j) ==
    /\ Fault
    /\ pc = "probing" /\ j.step = "changed"
    /\ \E recorded \in SUBSET {j.path} : failures' = failures \cup recorded
    /\ jobs' = jobs \ {j}
    /\ unseen' = unseen \cup {j.path}
    /\ UNCHANGED <<diskVars, libraries, titles, files, scanState, pc, watching, todo, written,
                   event, trigger, dropped, creations, admin, crashes>>

\* The file is probed, but the folder with its sidecars cannot be listed.
SidecarsMissed(j) ==
    /\ Fault
    /\ pc = "probing" /\ j.step = "changed"
    /\ j.path \in DOMAIN disk /\ disk[j.path].good
    /\ jobs' = (jobs \ {j}) \cup {[j EXCEPT !.step = "read", !.ver = disk[j.path].ver,
                                            !.side = FALSE]}
    /\ unseen' = unseen \cup {j.path}
    /\ UNCHANGED <<diskVars, dbVars, pc, watching, todo, written, event, trigger, dropped,
                   creations, admin, crashes>>

\* clear_probe_failure's error is swallowed: the old failure stays listed.
ClearErrs(j) ==
    /\ Fault
    /\ pc = "probing" /\ j.step = "read"
    /\ jobs' = (jobs \ {j}) \cup {[j EXCEPT !.step = "probed"]}
    /\ UNCHANGED <<diskVars, dbVars, pc, watching, todo, written, event, trigger, unseen, dropped,
                   creations, admin, crashes>>

\* write_one's transaction fails: the error is logged and the file skipped.
WriteErrs(j) ==
    /\ Fault
    /\ pc = "probing" /\ j.step = "probed"
    /\ jobs' = jobs \ {j}
    /\ unseen' = unseen \cup {j.path}
    /\ UNCHANGED <<diskVars, dbVars, pc, watching, todo, written, event, trigger, dropped,
                   creations, admin, crashes>>

ScanFault ==
    \/ ScanFails
    \/ \E e \in todo : EntrySkipped(e[1], e[2])
    \/ \E j \in jobs : \/ DriftMisread(j) \/ ProbeErrs(j) \/ SidecarsMissed(j)
                       \/ ClearErrs(j) \/ WriteErrs(j)

-----------------------------------------------------------------------------
(* watch *)

StartWatching ==
    /\ pc = "sweeping"
    /\ watching' = TRUE
    /\ pc' = "idle"
    /\ UNCHANGED <<diskVars, dbVars, todo, jobs, written, event, trigger,
                   unseen, dropped, creations, bounds>>

\* The watcher cannot be created or registered: the task ends, and the receiver of the triggers
\* with it.  Only a restart starts another.
WatchFails ==
    /\ Fault
    /\ pc = "sweeping"
    /\ pc' = "stopped"
    /\ trigger' = FALSE
    /\ unseen' = unseen \cup {p \in Path : Behind(p)}
    /\ UNCHANGED <<diskVars, dbVars, watching, todo, jobs, written, event, dropped,
                   creations, admin, crashes>>

\* The forwarding task: a scan trigger becomes an event.
Forward ==
    /\ watching /\ trigger
    /\ trigger' = FALSE /\ event' = TRUE
    /\ UNCHANGED <<diskVars, dbVars, workVars, unseen, dropped, creations, bounds>>

\* The first event of a burst, or another one that restarts the debounce.
Receive ==
    /\ pc \in {"idle", "debouncing"}
    /\ event
    /\ event' = FALSE
    /\ pc' = "debouncing"
    /\ UNCHANGED <<diskVars, dbVars, watching, todo, jobs, written, trigger,
                   unseen, dropped, creations, bounds>>

-----------------------------------------------------------------------------
(* The media folder *)

\* FAULTY (mutant of Notified): events during a scan are lost.
NotifiedWhenIdle == event \/ (watching /\ pc \in {"idle", "debouncing"})

\* notify's callback queues an event for every change, once registered.
Notified == event \/ watching

\* A change is told of, or comes before the watcher, or notify reports an error in its place.
Change(p) ==
    /\ edits < MaxEdits
    /\ edits' = edits + 1
    /\ \/ /\ event' = Notified
          /\ unseen' = IF watching THEN unseen ELSE unseen \cup {p}
          /\ UNCHANGED faults
       \/ /\ Fault /\ watching
          /\ unseen' = unseen \cup {p}
          /\ UNCHANGED event
    /\ UNCHANGED <<dbVars, workVars, trigger, creations, admin, crashes>>

\* The stats the scan has of a path: the one recorded, and those of what it read and has not
\* written yet.
Noted(p) == {scanState[q] : q \in {p} \cap DOMAIN scanState}
               \cup {j.stat : j \in {i \in jobs : i.path = p /\ i.step \in {"read", "probed"}}}

\* A file appears or is replaced.  Its stat need not differ from that of its predecessor: a
\* preallocated file written within a second keeps seconds and size.
Store(p, good, stat) ==
    /\ Change(p)
    /\ disk' = Put(disk, p, [ver |-> edits', stat |-> stat, good |-> good, side |-> Sidecar(p)])
    /\ restated' = IF stat \in Noted(p) THEN restated \cup {p} ELSE restated \ {p}
    /\ dropped' = dropped \ {p}

Remove(p) ==
    /\ p \in DOMAIN disk
    /\ Change(p)
    /\ disk' = Without(disk, {p})
    /\ UNCHANGED <<dropped, restated>>

\* A subtitle sidecar is dropped next to a video, or removed.
ToggleSidecar(p) ==
    /\ p \in DOMAIN disk
    /\ Change(p)
    /\ disk' = [disk EXCEPT ![p].side = ~@]
    /\ UNCHANGED <<dropped, restated>>

-----------------------------------------------------------------------------
(* The library requests, served once the boot sequence is past the seeding *)

Request ==
    /\ pc \notin Booting
    /\ admin < MaxAdmin
    /\ admin' = admin + 1

\* ScanTrigger::trigger.  A scan that is told of sees to all that is covered by then.
AskForScan ==
    IF pc = "stopped" THEN UNCHANGED <<trigger, unseen>>
    ELSE trigger' = TRUE /\ unseen' = unseen \ Covered

\* create_library: the row and the folder are two statements without a transaction.
CreateLibrary(k, folder) ==
    /\ Request
    /\ libraries' = Put(libraries, NextId, [kind |-> k, folder |-> {}])
    /\ creations' = creations \cup {[lib |-> NextId, folder |-> folder, step |-> "row"]}
    /\ UNCHANGED <<diskVars, titles, files, scanState, failures, workVars, event, trigger,
                   unseen, dropped, crashes, faults>>

AddFolder(c) ==
    /\ c.step = "row" /\ c.lib \in DOMAIN libraries
    /\ libraries' = [libraries EXCEPT ![c.lib].folder = @ \cup c.folder]
    /\ creations' = (creations \ {c}) \cup {[c EXCEPT !.step = "folder"]}
    /\ unseen' = unseen \cup (Covered' \ Covered)
    /\ UNCHANGED <<diskVars, titles, files, scanState, failures, workVars, event, trigger,
                   dropped, bounds>>

\* The folder is refused: by its foreign key, when the library was deleted, or by an error.  The
\* row stays, and no scan is asked for.
FolderFails(c) ==
    /\ c.step = "row"
    /\ IF c.lib \in DOMAIN libraries THEN Fault ELSE UNCHANGED faults
    /\ creations' = creations \ {c}
    /\ UNCHANGED <<diskVars, dbVars, workVars, event, trigger, unseen, dropped, admin, crashes>>

\* Back from the blocking task, the handler asks for the scan.
AskScan(c) ==
    /\ c.step = "folder"
    /\ creations' = (creations \ {c}) \cup {[c EXCEPT !.step = "asked"]}
    /\ AskForScan
    /\ UNCHANGED <<diskVars, dbVars, workVars, event, dropped, bounds>>

\* The client goes while the handler awaits that task, which ends all the same.
RequestDropped(c) ==
    /\ c.step = "folder"
    /\ creations' = creations \ {c}
    /\ UNCHANGED <<diskVars, dbVars, workVars, event, trigger, unseen, dropped, bounds>>

\* patch_library adds and removes folders, a statement each (and so a step each); it asks for no
\* scan of what it adds.
PatchLibrary(l, folder) ==
    /\ Request
    /\ libraries' = [libraries EXCEPT ![l].folder = folder]
    /\ unseen' = unseen \cup (Covered' \ Covered)
    /\ UNCHANGED <<diskVars, titles, files, scanState, failures, workVars, event, trigger,
                   dropped, creations, crashes, faults>>

TitlesOf(l) == {t \in DOMAIN titles : titles[t] = l}
FilesOf(T) == {p \in DOMAIN files : files[p].owner \in T}

\* What the running scan still has to do for a library.
Scanning(l) == {e[2] : e \in {d \in todo : d[1].lib = l}}
                  \cup {j.path : j \in {i \in jobs : i.lib = l}}

\* FAULTY (mutant of CascadeFiles): the files of the titles are kept.
CascadeNothing(l) == {}
CascadeFiles(l) == FilesOf(TitlesOf(l))

\* The delete cascades to titles and files; scan_state has no foreign key.  A
\* scan that runs cannot commit the library's files, and no new scan is asked.
DeleteLibrary(l) ==
    /\ Request
    /\ libraries' = Without(libraries, {l})
    /\ titles' = Without(titles, TitlesOf(l))
    /\ files' = Without(files, CascadeFiles(l))
    /\ dropped' = dropped \cup FilesOf(TitlesOf(l))
    /\ unseen' = unseen \cup Scanning(l) \cup (Covered' \ Covered)
    /\ UNCHANGED <<diskVars, scanState, failures, workVars, event, trigger,
                   creations, crashes, faults>>

ScanLibrary ==
    /\ Request
    /\ DOMAIN libraries # {}
    /\ AskForScan
    /\ UNCHANGED <<diskVars, dbVars, workVars, event, dropped, creations, crashes, faults>>

-----------------------------------------------------------------------------
(* The process dies and starts again; library.db survives *)

Restart ==
    /\ crashes < MaxCrashes
    /\ crashes' = crashes + 1
    /\ pc' = "down" /\ watching' = FALSE
    /\ todo' = {} /\ jobs' = {} /\ written' = FALSE
    /\ event' = FALSE /\ trigger' = FALSE /\ creations' = {}
    /\ UNCHANGED <<diskVars, dbVars, unseen, dropped, admin, faults>>

-----------------------------------------------------------------------------

ScanStep ==
    \/ StartScan \/ WalkEnds \/ FilterEnds \/ ScanEnds \/ EnrichmentEnds
    \/ \E e \in todo : Discover(e[1], e[2])
    \/ \E j \in jobs : \/ FilterChanged(j) \/ Probe(j) \/ ClearFailure(j)
                       \/ ProbeFails(j) \/ WriteOne(j) \/ WriteFails(j)

WorkerStep == Boot \/ ScanStep \/ StartWatching \/ Forward \/ Receive

WorkerFault == ScanFault \/ WatchFails

DiskStep ==
    \E p \in Path : \/ \E good \in BOOLEAN, stat \in Stat : Store(p, good, stat)
                    \/ Remove(p) \/ ToggleSidecar(p)

AdminStep ==
    \/ \E k \in Kind, folder \in Folder : CreateLibrary(k, folder)
    \/ \E c \in creations : AddFolder(c) \/ FolderFails(c) \/ AskScan(c) \/ RequestDropped(c)
    \/ \E l \in DOMAIN libraries :
          \/ \E folder \in Folder \cup {{}} : PatchLibrary(l, folder)
          \/ DeleteLibrary(l)
    \/ ScanLibrary

Next == WorkerStep \/ WorkerFault \/ DiskStep \/ AdminStep \/ Restart

Spec == Init /\ [][Next]_vars

\* The worker and the forwarder are tasks of the runtime, and ffprobe and the
\* providers answer or time out; users owe nothing, and errors need not come.
FairSpec == Spec /\ WF_vars(Boot \/ ScanStep \/ StartWatching \/ Receive)
                 /\ WF_vars(Forward)

-----------------------------------------------------------------------------
(* Properties *)

\* Foreign keys hold whatever runs next to a delete: a file's owner exists,
\* a scoped title's library exists, and a row always has its scan_state.
ReferencesIntact ==
    /\ \A p \in DOMAIN files : files[p].owner \in DOMAIN titles
    /\ \A t \in DOMAIN titles : titles[t] \in DOMAIN libraries \cup {NoLib}
    /\ DOMAIN files \subseteq DOMAIN scanState

\* A file that a re-scan would skip (its stat is the recorded one) is catalogued as it is on disk,
\* whatever replaced it between the walk, the probe and the commit; except when it was replaced
\* under the very stat the scan had noted of it (seconds and size), which nobody can see.
SkippedIsCurrent ==
    \A p \in (DOMAIN files \cap DOMAIN disk) \ restated :
       scanState[p] = disk[p].stat => files[p].ver = disk[p].ver

\* Paths of which the catalog may stay behind: nobody told of them or an error gave them up
\* (until the next scan), their rows went with a library, or their replacement cannot be seen.
Excused == unseen \cup dropped \cup restated

Quiet == pc = "idle" /\ ~event /\ ~trigger

\* No lost wake-up: while the watch loop sleeps with empty channels, nothing it was told of is
\* missing from the catalog, but for what it lost to an error it logged.
QuietMeansCaughtUp ==
    Quiet => \A p \in Path \ Excused : ~Behind(p)

\* Every change the worker is told of is eventually in the catalog, or given up after an error.
EventuallyCaughtUp ==
    \A p \in Path : (Behind(p) /\ p \notin Excused) ~> (~Behind(p) \/ p \in Excused)

\* libraries.rs says of the scan create_library asks for: "so a library pointed at already-present
\* files is populated immediately".  Once that scan is over, the library should have a title if its
\* folder has a readable file.
CreatedIsPopulated ==
    Quiet => \A c \in creations :
                /\ c.step = "asked" /\ c.lib \in DOMAIN libraries
                /\ \E p \in libraries[c.lib].folder \ unseen : p \in DOMAIN disk /\ disk[p].good
                => TitlesOf(c.lib) # {}

=============================================================================
