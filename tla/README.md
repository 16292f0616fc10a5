# medi: specifications, model checking and proofs

medi is a self-hosted media server: a Rust backend (`backend/crates/*`) that scans a media folder into a
SQLite catalog, enriches it from online providers, and streams files directly or through ffmpeg encodes;
and TypeScript clients (`client/*`, web and TV). This directory holds TLA+ specifications of its stateful
parts, TLC instances of them, and proofs checked by TLAPS.

Every definition is a translation of the code it is mapped to (`PROJECT.json`, "map"). Paths below are
relative to `src/`; crate paths to `src/backend/crates/`, TypeScript files by name to `src/client/`.

## How to run

    tlc -workers 2 -config TS_pool.cfg MCTranscodeSessions.tla     # a model-checking run
    tlapm TranscodeSessions_proofs.tla                             # the proofs of a module

## Inventory

The server is one process (tokio): HTTP handlers, a scan/watch task, enrichment tasks, an asset worker, a
session reaper, an artwork sweep. They share the SQLite file (one writer at a time, each transaction
atomic), the directories under `/config` (images, previews, trickplay, subs, hls) and the session map.
Only the database and the directories survive a restart. A client is one thread: React renders and effects,
timers, promises, and the events of a `<video>` element or a native player, in any order the event loop
allows. It shares nothing with the server but requests, and keeps little: local storage and the last
written position.

| Component | State | Operations | Hard behaviour | What makes it correct | Module |
|---|---|---|---|---|---|
| Transcode sessions `transcode/session.rs` | map of sessions under one mutex; an ffmpeg and a directory each | start, playlist/file/segment requests, stop, reaper | clients, reaper and ffmpeg interleave; waits outside the lock; latched exit status; timeouts | cap holds; abandoned sessions go, awaited ones stay; never waits for what will not come | `TranscodeSessions`, `EncoderPool` |
| Ingest and libraries `ingest/worker.rs`, `scanner.rs`, `api/libraries.rs`, `db/writes.rs` | libraries, titles, media_files, scan_state, probe_failures; the watch loop and its channels | seed, scan, probe, write, watch; create/patch/delete/scan a library | files change under the scan; deletes under the scan; lost wake-ups; restarts | references hold; no stale row passes for current; every announced change arrives | `CatalogIngest` |
| Enrichment and artwork `metadata/enrich.rs`, `reap.rs`, `ingest/enrich.rs`, `api/routes.rs` | metadata_state and match of a title; poster files and their .tmp | passes, backfill, refresh, match, sweep | no lock per title; faults; crashes in a download | no torn or dangling poster without its cause; every title is resolved | `MetadataEnrichment` |
| Player controls `usePlayerControls.ts` | overlay, scrub target, position, play intent; two timers | remote keys, timers, progress events, dispatches | timers due against presses whose effects have not run | a scrub is shown and lands; the overlay hides only when it should | `PlayerControls` |
| TV app `App.tsx`, `navigation.tsx`, `hooks.ts`, `VideoScreen.tsx`, `trickplay.ts`, screens | route stack and its last render; pages; phase of the player | push, pop, load more, resolve, play, end | a stack newer than the screen; end-of-row events during a request | home stays; pages in order; the tile is in the mosaic | `TvApp` |
| Web transport and progress `PlayerPage.tsx`, `usePlaybackProgress.ts`, `ScrubBar.tsx`, `chapters.ts` | element, queued events, last written place | keys, clicks, seeks, chapters, throttled writes, beacon, resume | element events handled after further commands; writes skipped as already done | button and clock follow the element; the last place is sent | `WebTransport` |
| Web stream `VideoPlayer.tsx`, `subtitles/renderer.ts` | decision, source, hls.js instance, renderers, position to return to | resolve, attach, recover, fall back, retry, switch audio or caption, burn in | aborts, late imports, late renderers, re-switches | no lost request; nothing outlives its source; a switch keeps its place | `WebStream` |
| Hover previews `hover-preview/*`, `navigation/*`, `ui/*` rows | state chart per tile, its timer and request | focus, blur, gate, load, scroll | late answers; the gate's timer against blurs | a preview is of this visit | `HoverPreviews` |
| Web library `useLibraryPaging.ts`, `PosterGrid.tsx`, `NavBar.tsx`, `browseState.tsx`, pages | search text, pages, generation, in-flight guard, observer | type, sort, route, load more | stale pages; debounce; an observer that reports only changes | one listing, in order, to its end | `LibraryBrowse` |
| Web title pages `useDetail.ts`, `MatchDialog.tsx`, `BackdropTrailer.tsx`, `client.ts` (ETag cache) | title shown, cached bodies, dialogs, trailer | follow a link, pin, refresh, trailer | late answers and 304s; dialogs closed and reopened around a pin | the page shows its title, as pinned; one trailer | `TitlePage` |
| Web settings `LibrariesPage.tsx`, `LibraryEditor.tsx`, `StatusPage.tsx` | lists, an editor per library, flags | create, rename, folders, scan, delete, enrich, backfill, fix | answers out of order or lost | the lists are the server's; boxes and flags are true | `AdminPages` |
| Web player chrome `PlayerControls.tsx`, `subtitleSelection.ts`, `subtitleAppearance.ts` | local storage, menus, volume, offset | choose, slide, mute, menus, Escape | effects that run before their element or tracks are there; muted autoplay | choices carry over and no further | `PlayerChrome` |
| Router, shell `router.tsx` | the page mounted | navigate | | a page's state goes with it | `WebPages` |
| Asset worker, playback decision, command builder, response cache, extraction, probes, providers, configuration, queries, DTOs, status | see below | | | | not modelled |

`PROJECT.json` lists every part with its sources, its status and the reason where it is left out, and the
hazards at their lines.

## Modules

    EncoderPool  <==implements==  TranscodeSessions  <--  MCTranscodeSessions, TranscodeSessions_proofs
    CatalogIngest       <--  MCCatalogIngest, CatalogIngest_proofs
    MetadataEnrichment  <--  MCMetadataEnrichment, MetadataEnrichment_proofs

    PlayerControls  <==implements==  TvApp         <--  TvClient, TvApp_proofs
    (HookSpec)      <==implements==  WebTransport  <--  MCWebTransport, WebTransport_proofs
                    <--  PlayerControls_proofs
    WebStream       <--  MCWebStream, WebStream_proofs
    HoverPreviews   <--  TvClient, TvApp_proofs
    TvApp, HoverPreviews  <--  TvClient  <--  MCTvClient
    LibraryBrowse, TitlePage, AdminPages, PlayerChrome
                    <--  WebPages  <--  MCWebPages, WebPages_proofs

(`<--`: is extended by.) Mutants, definitions marked `FAULTY`, stand next to the definition they break;
replacing the definition by its mutant makes the property it is listed with fail. They are no part of a
specification.

### TranscodeSessions

One action per critical section of `session.rs`: every manager operation holds the mutex over the session
map, except that `ensure_segment` releases it before it waits for the file and the reaper reads its clock
before it has the lock. `start` is four actions for its four outcomes (reuse, refusal, new session,
failure); a segment request is `SegmentOnDisk`, `SegmentAwaited`, `SegmentRestarts` or `SegmentSpawnFails`.
ffmpeg (`Produce`, `Exit`), the clients and the clock are separate. Every operation that removes a directory
may fail to (`Teardown`, `LeavesBehind`: the code only logs it), and a stop whose request is dropped while it
waits for the killed process never gets to the removal (`StopDropped`); `left` is the history of the directories
that failed operations left behind, which nothing sweeps while the server runs.

What polling has happened when a scan of the map stops early is a nondeterministic subset (`skipped`,
`passed`): a HashMap has no order, and `poll_reusable` latches an exit status as a side effect.

Abstractions:
- Instants are ages in ticks, all the code computes from them. The age of a consumed session is no longer
  counted, for nothing reads it.
- Existence of a file and the poll of a child are read under the lock, as in the code; the wait for
  `init.mp4` and the playlist is a plain touch (`RequestFile`).
- Segments are requested within `0 .. LastSegment`, what the playlist lists.
- Random session ids are fresh: an id is taken again only when nothing refers to it.
- ffmpeg writes whole segments in order (its `temp_file` flag), may fail at any time, and ends in "ok"
  only after the last segment. A killed process dies at some later step.
- A restart of the server leaves no session: it is the initial state but for old directories.

`EncoderPool` is what callers rely on: a bounded pool with at most one usable slot per output opened,
which makes room by closing broken slots only. The refinement mapping (`Slots`) calls a slot usable while
its process has not failed, whether or not the manager has noticed.

### CatalogIngest

Tables are functions (`libraries`, `titles`, `files`, `scanState`) and a set (`failures`). The worker task
is `pc`; a scan visits directory entries (`todo`), turns them into jobs, and each job passes through
filter, probe, the clearing of a failure and one transaction, with any interleaving of the jobs after the
filter. `Boot` seeds the two default libraries statement by statement, because the code has no
transaction there. Requests and changes of the folder may come between any two steps.

Errors are steps of their own (`ScanFault`, `WatchFails`, `FolderFails`, the second half of `Change`), wherever
the code logs or swallows one and goes on: roots or scan records that cannot be read, an entry or a sidecar
folder skipped, ffprobe failing on a good file, a failure not recorded or not cleared, a transaction rolled
back, the watcher refused or reporting an error in place of an event. `create_library` is a step per statement,
then the request for a scan, which a client that goes in between prevents (`RequestDropped`).

Abstractions: a file is a version number, a stat, readable or not, with or without a sidecar. The stat is what
`discover` keeps (mtime in seconds, size) and need not change with the contents. How names parse is a
parameter (`NameOf`, `GuessOf`); a sidecar toggle does not change the video's stat. A patch adds or removes
one folder in a step, as each of its statements does. The two channels are booleans: only empty or not
matters to a debounced loop. Titles are never removed with their last file and `reap_missing` has no caller, as
in the code. The enrichment at the end of a scan is a step; what it does is `MetadataEnrichment`.

History variables: `unseen` holds paths of whose change nothing tells the worker (before the watcher is
registered, or after a change of the roots) or that a logged error gave up, until a scan visits them again;
`dropped` those whose rows went with a library; `restated` those replaced under a stat that scan_state or a
running probe had of them already, which no later scan can tell. The properties that exempt one of them name it;
what the code does about them is among the observations below. `creations` follows each `create_library`.

### MetadataEnrichment

An enrichment is a task in a slot (of a pass, the backfill or a request), and each await is a boundary
between actions: gate, search, details, artwork, create, write, rename, transaction. Files that are open
while another task renames or removes them are tracked (`file` of a task), because a writer that lost its
name still writes.

Abstractions: one kind of title (series run the same code on other tables); the state read by the gate and
the title and year read after it are one step; the poster stands for all artwork that is downloaded the
same way; a download that fails and a match without a poster are one fault; the backfill may select any
set of matched titles, its own run_enrichment is another `Pass`, and a listed title that has gone ends it
(`Aborts`: with a deletion and a backfill it takes two requests, so the proofs meet it and the run does not). Ids are given out again
(`INTEGER PRIMARY KEY`, `NextId`). A dropped request stops at an await but not in the middle of a write on the
blocking pool. History variables: `shared` (two enrichments were writing a title's poster at once, whether or not
the first one's .tmp still had its name) and `lost` (a sweep took the directory of a title that exists or is
being enriched).

### PlayerControls

`usePlayerControls` is written as a specification of its own, `HookSpec`: any key, progress, duration or
dispatch of a parent, any render, and time. `Dispatch` changes `state` at once; `RunEffects` is the step
after the render that re-arms and clears the two timers from the dependencies that changed (`seen`); a due
timer may fire before it (`FireHide`, `FireSeek`). The settle timer's closure keeps the target it was armed
with (`armedFor`), while what is committed is the target of the state: the code reads one from the closure
and the other from the reducer (lines 240-243). Positions are counted in seek steps and time in ticks; both
are all the code compares. `hideFired` is a history variable for the one exception `OverlayWillHide` names.

### TvApp

Extends `PlayerControls` with the native player (`elem`), the phase of `VideoScreen`, the trickplay tile, the
route stack and the screen of the last render (`shown`), `useLibrary` and the detail screens. Keys go to the
screen that is shown, the back key to the `canGoBack` of the last render: both may be older than the stack.
Every step of the app is a step of the hook or leaves it alone, so the app refines `HookSpec` (proved).
Abstractions: a page of the library is its number; a title has one file; layout is left out.

### WebTransport

Extends `PlayerControls` with the `<video>` element, its queued events in order, `usePlaybackProgress` and the
chapter keys. React renders and runs effects before the next task after a discrete event (`flush`), and later
otherwise. A step of playing time is long against a queued event (module header). Abstractions: the server's
row is the place sent last (`issued`); of the resume, that it was fetched, its place, and what VideoPlayer
took at its mount. It refines `HookSpec` too (proved).

### WebStream

The three effects of `VideoPlayer` (resolve, attach, captions) are steps after the render that changed their
dependencies, and run their cleanups first, as React does. A request carries its key, may be aborted, fails or
is answered; `import('hls.js')` lands later, perhaps for a source that is gone; a renderer is made
asynchronously. The import may also be rejected, which the code does not catch (`ImportFails`). A switch captures the position while rendering (`Captured`). Abstractions: audio and caption
tracks are members of small sets; positions are few; errors of hls.js are recoverable ones up to
`MaxRecoveries`, then fatal. `place` is a history variable: where the viewer was.

### HoverPreviews

One machine per poster of a row, with the transitions of `machine.ts` as functions of a machine (`Focused`,
`Blurred`, ...), so that a row step applies them to the tile left and the tile entered. Tiles mount and unmount as
the virtualized row scrolls. The focus engine, images, video and the server are external. `dwell` counts how
long the focus has stayed; `deaf` marks a tile that was focused before its image had loaded, and `broken` a visit
whose request erred (`RequestFails`, for a clip that exists too) or whose clip failed to play: both end in `idle`.

### TvClient

Composes `TvApp` and `HoverPreviews` for model checking: a behaviour is about the app or about the home's posters,
and the other rests. The two share only whether the home is on top of the stack, which `HoverPreviews` lets change
at any time (`Covered`).

### WebPages: LibraryBrowse, TitlePage, AdminPages, PlayerChrome

Four groups of pages that are never mounted together share no state of the client but local storage (only
`PlayerChrome` writes it) and the server. `WebPages` composes them as the router does: a behaviour is about one
of them, and what the others keep is at rest. That keeps one run for all of them as small as their sum.

- `LibraryBrowse`: the debounced box, the view shown, and `useLibraryPaging` with its generation, aborts,
  `inFlight` guard and the refs of the last render through which the sentinel's callback reads the cursor. A
  listing is a row of numbered pages that does not change under the reader.
- `TitlePage`: one component for all ids of a route, so a link keeps its state. A GET carries the cached entry
  it would revalidate; a version number stands for both body and ETag; a write raises the version at the
  server and clears the client's cache when it is answered. A write may fail before it is served or lose its answer
  after; `untold` names the titles with a write their page does not hear of, until that page asks again with no write of
  the title under way.
- `AdminPages`: `past` numbers the states of the server, and each list shows the number its GET saw. Writes
  are served and answered in any order, or lost. `excused` records the reasons for which the code leaves a
  list, or a name box, behind (see the observations): an older answer came last (`outrun` until the list is
  current again, `overtaken` for as long as the page stays), a request was lost, an id was reused, the page was
  left before a write was answered.
- `PlayerChrome`: what outlives one film. Track choice is a scoring of tracks against what is remembered, on
  language, title and forced flag, as in `subtitleSelection.ts`. `shifted` remembers the visit and the caption the
  last offset was dialled on.

## Runs

| Run | Instance | Shows |
|---|---|---|
| `sessions_pool` | 2 clients, 2 keys, cap 2, one segment | the cap holds; the manager implements `EncoderPool` |
| `sessions_seek` | 1 client, cap 0 (raised to 1), 4 segments, lookahead 1, one fault | resources are owned, no vain wait, latched outcomes are current; abandoned sessions are released |
| `sessions_time` | 2 clients, waits of 3, idling of 4, a lag of 1 | types; reaping is timely and spares waiting clients |
| `catalog_race` | 2 files, 2 stats, 2 edits, 1 request | references hold; a file that is skipped is current |
| `catalog_live` | 1 file in 2 libraries, 2 stats, 2 edits, 1 request, a restart or an error | types; no lost wake-up; announced changes arrive, or are given up by the error |
| `catalog_again` (violation) | 1 file, 1 edit, 1 request | a library created over a catalogued file stays empty |
| `enrich` | 2 films, one pass, backfill, request, sweep, fault and restart | types; a torn poster needs two writers; recorded posters exist; every title is resolved |
| `tv_client` | film of 2 steps, 2 pages, stack of 3, 2 keys, 1 fault; 3 tiles, 2 clips, gate 2, 4 moves, 2 faults (requests or clips) | `ControlsTrue` (scrub shown, armed; overlay hides), `ScreensInOrder` (home, pages, tile), every scrub settles; `NoStalePreview` (one video, aborted requests, current source, whole gate), a dwelling focus plays |
| `web_transport` | film of 3 steps, chapters at 0 and 2, 2 inputs, 1 flush | `FollowsElement` (button, clock), `PlaceSent`, the play state comes to rest |
| `web_resume` (violation) | the same | a saved place is not where playback starts |
| `web_stream` | 1 other audio track, 1 ASS caption, 2 switches, 1 fault | no lost request; `NothingOutlives` (hls.js instance, caption, toast); a switch keeps its place and ends |
| `web_pages` | 2 listings of 3 pages; 2 films and a series; 2 libraries; 2 episodes | see below |

`web_pages` checks, for browsing, `BrowseIsTrue` (the grid is a prefix of one listing; the in-flight guard is up
exactly while the current generation asks; the debounced text is the last one typed) and `GridFills` (a sentinel in
view ends with the whole listing); for titles, `PinShows` (at rest the page shows its own title as the server
knows it, unless it was not told of a write and has not asked since) and `NothingDoubled` (one write per dialog, one YouTube player); for settings, `ListIsServers` and
`EditorsAreTrue` (name boxes, busy flags); for the player, `ChoicesKept` (remembered tracks, volume, and an offset
that is of the caption on screen).

Composite properties are conjunctions of named parts, each stated with its own comment in its module; each
part has its own mutant, or its own theorem.

Two runs check a sentence of the code against what it does. `web_resume`: PlayerPage.tsx:550-552 says playback
already resumes via `initialResumeMs`, but the saved place is fetched in an effect, after VideoPlayer has taken
its prop once and for all. `catalog_again`: libraries.rs:111-112 says a library pointed at already-present files
is populated immediately by the scan `create_library` asks for, but `filter_changed` skips every file whose
scan_state is unchanged, whichever library it was recorded for.

### Bounds, and why they are enough

- Sessions: two clients are what every race here takes (one acts while the other waits or requests the
  same output). The cap is small enough to be reached and to need eviction; four segments with lookahead 1
  give a request behind, inside, and beyond the window; the idle timeout is the longest, as in the
  code (60 s against 20 s and 15 s), and `sessions_time` lets a wait outlast the unconsumed timeout, the
  harder order for a waiting client. `MaxLag` keeps the reaper's wait for the lock below its period: the
  longest an operation holds the lock is the teardown of a killed process. `MaxFaults` is one: one failed
  spawn, removal or dropped stop already gives every state that has a left-over directory. Clients, keys and ids are symmetric in the
  runs without liveness.
- Catalog: two edits are what a stale row takes (one stores the file, one replaces it under the scan); two
  paths let jobs overlap and an owner have files of two scans. One request suffices for a delete under a scan. Two stats tell a rewrite
  that shows from one that does not; they are symmetric in the run without liveness. One error gives up one file
  or scan while another change is announced; `OneMishap` has a behaviour of `catalog_live` meet an error or a
  restart, not both, and beside a restart two edits, or one and a request (no step it cuts is fair); `catalog_race` has none, for an error writes nothing that could
  be stale, and the proofs allow any number.
- Enrichment: two titles, one resolvable and one not, with batches of one, make a pass go on to a second
  batch. One of each disturbance may fall anywhere.
- TV: a second key is what races a timer or a render; three routes let the end of the film and the back key
  both pop; two pages give a first, a last and an end-of-row event in between; a mosaic of two tiles has a
  scrub past its last one. Details of series are left to the proofs: to the app they are details without a play button.
- Web transport: two inputs meet one queue of events (three would only repeat the second case); the write
  interval is shorter than the film, so throttled, paused and final writes all occur; the second chapter is
  beyond the grace of the first.
- Stream: a re-switch while the first one loads takes two switches; one fault reaches fallback and retry.
- Hover: three tiles let one scroll away; four moves return to a tile whose request is still out; one tile
  without a clip.
- Pages: three pages and three changes let an old page arrive in a new listing; two films let an answer of one
  arrive on the other, and two writes overlap; two libraries and two writes reorder answers and reuse an id;
  the tracks of the second episode are numbered otherwise and carry a forced default caption.

`CHECK_DEADLOCK FALSE` is set in all runs but those of the sessions, whose time always goes on: once the
bounded edits, keys, requests or faults are used up, the other systems rest and nothing happens any more.

### Fairness, and why the code justifies it

- Sessions (`FairSpec`): the clock, the reaper's interval task and the deadline of a wait run for the
  lifetime of the process (`spawn_reaper`, `wait_for_path`). Clients and ffmpeg owe nothing: ffmpeg may
  hang and a client may never return.
- Catalog: the scan/watch task and the forwarder are tokio tasks that nothing cancels; ffprobe and the
  enrichment return or time out. Users and the folder owe nothing, and the error steps are under no fairness, as are requests
  under way.
- Enrichment: tasks that have a permit run on; the provider answers or its client times out; passes come
  again (boot, a scan that writes, `BACKFILL_INTERVAL_HOURS`, 24 by default). Faults are bounded: under a
  provider that fails for ever on the oldest 200 titles, newer ones do starve. Requests, sweeps and
  backfills owe nothing.
- TV (`TvClient`): React renders what was set and runs effects and due timers (`Render`, `HookRuns`); the player
  commits a seek it was given; a library page and a stream answer or fail. The viewer and the video owe nothing.
- Web transport: React's effects, queued element events and landing seeks happen (the event loop), and a
  started video plays on. The viewer, the tab and the headset owe nothing.
- Stream: effects run, a request is answered or fails, an import lands or is rejected, and an attached source loads its
  metadata or errs. The viewer and the renderers owe nothing.
- Hover: the clock ticks, timers fire, requests are answered or err, and a mounted video loads or fails.
- Pages: only browsing has liveness: its timers, effects, renders, observer and answers. An answer that fails
  counts among the bounded faults, after which the grid owes nothing (the code has no retry).

No fairness is assumed of a person, and none of a fault.

## What is proved

Eight modules hold proofs, for every value of the constants under the assumptions each module states by name
(`ASSUME`): bounds are naturals, timeouts and lengths positive, nulls outside of data and kinds of ids apart
from each other, every path in a folder, track titles strings; and for the sessions
`TimeoutAssumption`: a wait is shorter than the idle timeout (15 s and 60 s), and the reaper gets the lock
before its next tick. TLC evaluates every `ASSUME` in the runs of its module.

| Module | Theorem | States | Argument |
|---|---|---|---|
| `TranscodeSessions_proofs` | `TypeCorrect` | `TypeOK` | inductive |
| | `LatchIsFaithful` | `LatchFaithful` | inductive with TypeOK: an outcome is latched by a poll of the current process, which does not change but by a restart, and a restart clears the latch |
| | `CapacityAlwaysRespected` | `CapacityRespected` | with finiteness of the map (`CapacityInv`): a session is added only below the cap or after an eviction |
| | `WaitsAreNotVain` | `NoVainWait` | with LatchFaithful: `next` starts at the window's origin and passes a segment only by writing it |
| | `ReapingIsTimely` | `TimelyReaping` | `Overshoot` grows with the ages, and falls back only when `ReapIdle` has judged every session with a clock at most `sinceTick` old |
| | `WaitersAreSpared` | `ReaperSparesWaiters` | from `WaitInv`: a session someone waits on has been idle no longer than the wait has lasted |
| | `ResourcesAlwaysOwned` | `ResourcesOwned` | `OwnedInv` adds that what was left behind is of no registered session: an id is not taken again while its directory exists |
| | `ManagerImplementsPool` | `ImplementsPool` | refinement: with TypeOK, LatchFaithful and CapacityInv each critical section maps to one step of `EncoderPool` on `Slots`, or to none. The faithful latch is what makes a slot closed by an eviction a broken one |
| `CatalogIngest_proofs` | `TypeCorrect` | `TypeOK` | `TypeInv` adds that version and library numbers given out are bounded by the edits and requests so far |
| | `QuietAlwaysCaughtUp` | `QuietMeansCaughtUp` | `WakeInv`: a path that is behind is to be visited by this scan (`FreshInv`: it, or what it was read from, is still in hand), or an event or a trigger is pending (`ServedInv`); each phase of a scan hands that on to the next, and an error that breaks the chain notes the path it gives up |
| | `SkippedIsAlwaysCurrent` | `SkippedIsCurrent` | `CurrentInv`: a version is given out once, so what a probed job read is what its stat is of, or the file has moved on and, unless it was replaced under a stat noted of it (`restated`), its stat with it; every row has its record in `scanState` |
| | `ReferencesAlwaysIntact` | `ReferencesIntact` | `ReferencesInv`: a write is refused once its library is gone, a delete takes the titles and their files with it, and the seeding never refers to a library not there yet |
| `MetadataEnrichment_proofs` | `EnrichmentTyped` | `TypeOK` | `TypeInv`: ids are bounded by the rows added (a bounded set has a greatest element), a batch by its query's limit (`LimitHolds`, by counting); `StageInv`: a task has a file open exactly while it writes, and a match from the details on |
| | `TornAlwaysNeedsTwo` | `TornNeedsTwoWriters` | `WritesInv`: the only writer of a title holds the .tmp that is there, whole before it renames it, or holds one that a sweep has unlinked, and then none is there |
| | `PosterAlwaysOnDisk` | `PosterOnDisk` | `PosterInv`, over rows and the tasks that will persist: what says it has a poster has it on disk or lost it to a noted sweep; a row says so only by a task's word |
| `PlayerControls_proofs` | `ControlsTypeCorrect`, `ScrubIsShown`, `ScrubIsArmed`, `OverlayHides`, `ControlsAreTrue` | `ControlsTrue` | of `HookSpec`: `SettleInv` and `HideInv` tie each timer to the dependencies its effect last saw |
| `TvApp_proofs` | `AppImplementsHook`, `AppControlsAreTrue` | `ControlsTrue` | refinement: with typed places, each step of the app is a step of the hook or leaves it alone |
| | `ScreensStayInOrder` | `ScreensInOrder` | `StackInv`: a pop is checked against the stack of its own time, not the one shown; `LibraryInv` relates the cursor to the pages appended; tile arithmetic for every geometry |
| | `AppAlwaysTyped` | `TvTypeOK` | `LibraryInv` and `ListingBounded`: a page that arrives was asked for before the last one was there |
| | `NoPreviewIsStale` | `NoStalePreview` | `HoverInv`, tile by tile and request by request: gate timer and dwell add up to the gate; a request that counts is of this visit |
| `WebTransport_proofs` | `PageImplementsHook`, `PageControlsAreTrue` | `ControlsTrue` | refinement, as above |
| | `PageAlwaysTyped` | `WebTypeOK` | `PageInv`, `WriterInv`, `PageCounts`: what is sent or remembered is a place the element had |
| | `AlwaysFollowsElement` | `FollowsElement` | `LockInv`: the last play or pause event queued says what the element is, and the reducer what the last handled one said; `ClockInv` likewise for time events |
| | `PlaceIsSent` | `PlaceSent` | `PlaceInv` and `WriterInv`: what is noted as written was issued |
| | `ChaptersAlwaysStep` | chapter keys | a smallest later and a greatest earlier chapter, by well-foundedness |
| `WebStream_proofs` | `NothingEverOutlives` | `NothingOutlives` | `StreamInv`: instances are those of the attached source; renderers being made for an old effect are not current; the toast implies a position |
| | `LoadingAlwaysAsks` | `LoadingHasRequest` | `LoadInv`: the key that absorbs duplicates is that of the request out, and aborts release it |
| | `SwitchesKeepTheirPlace` | `SwitchKeepsPlace` | `PlaceInv`: while switching, the position to return to is the viewer's place, whichever source is attached |
| | `ChoicesAreTranscoded` | direct play only of the default | `ChoiceInv` over decisions and requests under way |
| `WebPages_proofs` | `BrowseIsAlwaysTrue` | `BrowseIsTrue` | `BrowseKept`: one request of the current generation, refs no older than the last render, pages a prefix |
| | `PageShowsItsTitle` | `ShowsItsTitle` | `TitleInv`: bodies, entries and answers carry the title they were asked for; requests of an earlier title are aborted |
| | `PinAlwaysShows` | `PinShows` | `PinInv`: unless its title is `untold`, what a page shows is the server's version, or a write of the title is done and not yet answered, or a fetch is due or out that will find it; the page is told of every write of a title that is not |
| | `OneTrailerEver`, `NothingIsDoubled` | `NothingDoubled` | `TrailerInv`: a callback of an earlier effect builds nothing; `DialogInv`: a write is owned by the open dialog that sent it, which is busy until it is answered |
| | `VolumeIsKept`, `OffsetIsOfItsCaption`, `ChoicesAlwaysKept` | `ChoicesKept` | `SoundInv`, `CaptionInv`; `ChoiceInv`: what is selected when the files of a film arrive is the first of the best scores, for which the best track of a set is shown to exist |
| | `ListIsAlwaysServers` | `ListIsServers` | `ListInv`: a part shown is the server's state, a GET under way will make it so, or a write the server has done owes a GET; `PagedInv`: unless the page was left, writes are its own |
| | `EditorsAreAlwaysTrue` | `EditorsAreTrue` | `FlagInv`: a flag that is up stands for one write in flight, one that is down for none, by the writes' numbers. `NameInv`: from the state shown on, a library's name changes by a rename alone, and a rename under way finds its box typed in or its library gone (`RenameInv`); a library that went stays away (`NoReuse`) |
| | `PagesAlwaysTyped` | `PagesTypeOK` | `SizeInv`: the live request is for the page at the cursor or the one before it, which only a race asks for again; `CountInv`, `VersionInv`, `SentInv`: every version of a title and every state of the server is paid for by a write of its own |

A composite theorem (`ControlsAreTrue`, `ScreensStayInOrder`, `AlwaysFollowsElement`, `NothingEverOutlives`,
`NoPreviewIsStale`, `BrowseIsAlwaysTrue`) follows from the theorems of its parts, which the same module proves
one by one. None of the properties is inductive alone. `NoVainWait` needs that no outcome of a
replaced process is reused; `FollowsElement` needs what the queue will say; `SwitchKeepsPlace` what an attach
that has not happened yet will take; `ListIsServers` needs what the GETs still out will find.

Looking for `NameInv` refuted an earlier `BoxIsTrue`: with three writes, one more than the run allows, a list that
is overtaken by an older one unmounts an editor and mounts it again with the old name, and the newer list does
not correct a box that is there. The model now records that cause (`overtaken`), and the property names it.

Looking for `WritesInv` refuted an earlier `TornNeedsTwoWriters`, with two requests, one more than the run allows:
a sweep unlinks the .tmp of one writer, a second one creates its own, and the first, whose write is done, renames
the second's half-written file. `shared` noted only writers whose .tmp still had its name; it now notes two writers
of a title in any case. `enrich` also passes with two requests (one title, no fault), as do `WritesInv` and `PosterInv`.

Only model-checked: every liveness property (`AbandonedReleased`, `EventuallyCaughtUp`, `EveryTitleResolved`,
`ScrubSettles`, `PlayStateRests`, `SwitchEnds`, `DwellPlays`, `GridFills`), which is out of the prover's
reach, as are ENABLED and induction over data. Every invariant the passing runs check is also a theorem.

## Observations

What the models showed beside the properties, or what a property had to make an exception for.

Server:

- `start` leaves a failed session registered below the cap, where a segment request revives it while its
  replacement encodes the same output (`session.rs:193`, `:350-365`; the comment at `:68-69`).
- The window of `ensure_segment` starts where the encoder *started* (`session.rs:346`), so a request just ahead
  of production restarts the encoder (the comment at `:125-129`).
- `scan_state` knows no library and outlives the rows of a deleted one (`writes.rs:1033`): a library created over
  files that are or were catalogued stays empty (`catalog_again`).
- Nothing retries what a scan gave up after an error (`worker.rs:209`, `:255`, `:569`): it waits for the next event or
  request. When the watcher cannot be registered (`:523-533`) the task ends, and requests for a scan go nowhere
  until a restart.
- A file rewritten within the second of its mtime and with the same size (preallocated) is taken for unchanged
  (`scanner.rs:237-246`).
- Both seeded libraries have the same root (`writes.rs:1078`): a file's kind is that of the last commit
  (`docs/.tasks/60`).
- The stop rule of `run_enrichment` compares with a batch size the query never returns (`ingest/src/enrich.rs:115`):
  a pass stops after its first batch (the comment at `:47-48`).
- A title deleted while the backfill works through its list ends the whole backfill (`metadata/src/enrich.rs:574-580`).
- An existing poster is kept when the match changes (`metadata/src/enrich.rs:787`).

Player controls and TV:

- A hide timer that fires together with a press that restores the same dependencies leaves the overlay up with
  no timer (`usePlayerControls.ts:205-212`). A press between a due settle timer and its effects: the closure seeks
  to the old target, the reducer commits the new one (`:240-243`). A parent that renders during a scrub restarts
  the settle timer. `SHOW_OVERLAY` over a visible overlay does not re-arm the hide timer. A scrub dialled before
  the duration is known is not clamped again (`:88-94`).
- When the home's first page fails nothing asks again (`hooks.ts:65`). `VideoScreen.tsx:13-16` speaks of a retry that
  is not there. Select pressed twice within one render pushes two players.
- The hover machine invokes the request at the entry of the gate, not after it as its header says (`machine.ts:32-33`);
  a FOCUS before the image has loaded is not heard; a clip or a request that failed (`:176-179`, any error of the HEAD) is
  not tried again before a blur; a page that covers the home sends no BLUR.

Web player:

- Play and pause ping-pong: a second command while an earlier play or pause event is queued makes effect and
  events answer each other with the opposite (`usePlayerControls.ts:194-201`, `PlayerPage.tsx:315-316`), against
  the "lockstep" of the comment. `PlayStateRests` excepts behaviours that had such an overlap (`overlapped`).
- `lastWrittenRef` is set before the PUT is answered (`usePlaybackProgress.ts:104-111`): after a failed PUT the
  beacon skips the same place, and a late PUT may overtake the beacon (the server takes the last to arrive).
  After a switch of the source `currentTime` is 0, and leaving while it loads sends nothing.
- A rejected `import('hls.js')` leaves the player ready with nothing to play and the "Switching audio" toast up
  (`VideoPlayer.tsx:425`): `SwitchEnds` names this one case (`Stranded`).
- `baseMode` "hls" and then another audio track: no transcode is forced (`PlayerPage.tsx:434-438`). Fallback from
  direct play and Retry lose the position. A switch does not stop the old session. The muted retry of autoplay is not
  reflected by the volume control (`VolumeKept` excepts it).
- With the appearance panel open Escape leaves the film (the comment at `PlayerPage.tsx:381-383` says otherwise); two
  open menus close on one Escape; the overlay hides under an open menu.
- `autoSelectAudio` is documented to return the default or first track, and returns undefined; ties of `scoreMatch` go to
  the first track.

Web pages:

- `useLibraryPaging` clears its loading flags in a `finally` of stale calls too (`:105-106`), and a sentinel that fires
  between an answer and its render asks for the same page again (`:65-68`, against the comment at `:43`): `raced`.
  An error ends the paging.
- A pin in flight when the viewer goes from A to B closes B's dialog; a dialog reopened can pin a second time
  meanwhile; a page left and reopened is not told, nor is one whose pin
  was served but not answered: the dialog shows an error over a match that was made (`MatchDialog.tsx:67-68`), and the
  page keeps the old one until it asks again (`untold`). `BackdropTrailer` depends on an inline callback,
  so every render rebuilds the player. `deleteLibrary` and `scanLibrary` do not clear the client's cache.
- The lists of settings: a refresh that is outrun by an earlier one, or lost, leaves an old list, and in the first
  case an editor that went and came back keeps the old name in its box; a reused
  library id keeps the deleted library's name in its box (`key=lib.id`); a rename on blur while busy is dropped.

Hazards of the server without a property (not in `PROJECT.json`, or there with a note): session directories
under `hls_root` survive a crash (`session.rs:223`); seeding is no transaction (`writes.rs:1072`); overlapping roots
scan a file twice (`worker.rs:219`); ids of libraries read at the start of a scan may be reused at its end (`:136`);
`patch_library` asks for no scan (`libraries.rs:137`); the watcher starts after the initial scan (`main.rs:154`); a
worklist of the oldest 200 starves under titles that always fail (`queries.rs:1104`); a lost poster file of a matched
title is not looked for (`metadata/src/enrich.rs:125`); an enrichment may persist onto a reused id (`:301`); the collection
pass stops at its first page (`:668`); stamps are kept by path and assets by file id (`writes.rs:567`,
`assets/src/worker.rs:159`); a batch is the 32 oldest pending files (`assets/src/worker.rs:94`); the gates are checked
once for up to three ffmpeg runs (`scheduler.rs:102`); a partial subtitle file passes for a complete one
(`api/src/routes.rs:1379`, `:1573`, `:1651`); probe failures page by `last_attempt_at` alone (`queries.rs:1247`).

## What is not modelled, and why

- Parsers, formats and pure functions (ffprobe output, provider JSON, ffmpeg arguments, DTOs, the playback decision, the
  title matcher): no state and no order, and the repository tests them by tables.
- Capability probe, configuration and migrations run once, before anything else.
- The asset worker and its scheduler: the largest stateful part left out. One worker takes batches and records
  stamps; its hazards are listed above. Its generators write one file each.
- The response cache and the server's progress row: a map with a short TTL, and a row where the last write wins.
  Subtitle and font extraction: a file that exists or does not.
- In the clients: rendering, layout and texts, cue styles and fonts, the event log and diagnostics of the player,
  the focus engine (a library), vendored renderers (`libbitsub`).
- People, collections and fanart artwork in the enrichment are best-effort downloads like the poster's. Orphaned
  session directories after a crash are outside the session model, whose state is not persisted.
