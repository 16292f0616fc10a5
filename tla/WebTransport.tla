---------------------------- MODULE WebTransport ----------------------------
(***************************************************************************)
(* The web player's transport (PlayerPage): usePlayerControls bound to the *)
(* DOM <video>, the seeks of the control bar, and usePlaybackProgress.     *)
(*                                                                         *)
(* The element's play, pause and time events are tasks: they are queued by *)
(* what happens to the element and handled later, in order.  A key, a      *)
(* click and a play or pause event are discrete for React, which renders   *)
(* and runs the effects before the next task (flush); timers, time events  *)
(* and pointer moves are not.  A step of playing time and a tick of the    *)
(* timers are long: no queued event waits through one.  The <video>        *)
(* element is external: it does what HTML says and the code relies on.     *)
(***************************************************************************)
EXTENDS PlayerControls, Sequences

CONSTANTS
    Length,         \* of the file, in seek steps
    Chapters,       \* start_ms of its chapters, in ordinal order
    Grace,          \* PREVIOUS_CHAPTER_GRACE_MS
    Saved,          \* places a server may have saved (GET /api/progress); 0 for none
    MinResume,      \* MIN_RESUME_MS
    WriteInterval,  \* WRITE_INTERVAL_MS, in steps of playing time
    MaxInputs,      \* bound: keys, clicks and interruptions
    MaxFlushes      \* bound: times the tab is hidden

ASSUME TransportAssumption ==
    /\ ~Autoplay
    /\ Length \in 1 .. MaxPosition /\ Saved \subseteq 0 .. Length
    /\ Chapters \in Seq(0 .. Length)
    /\ \A i, j \in 1 .. Len(Chapters) : i < j => Chapters[i] < Chapters[j]
    /\ Grace \in Nat /\ MinResume \in Nat \ {0} /\ WriteInterval \in Nat \ {0}
    /\ MaxInputs \in Nat /\ MaxFlushes \in Nat

VARIABLES
    elem,       \* the <video>: its place, and whether it is started, loaded, paused, seeking
    events,     \* queued element events, oldest first
    flush,      \* React is to run the effects before the next task
    resume,     \* usePlaybackProgress: fetched, resumeMs, showChip; VideoPlayer's initialResumeRef
    writer,     \* lastWrittenRef, and the playing time since lastWriteAtRef
    issued,     \* the place in the last write sent to the server; 0 for none
    left,       \* the viewer navigated away
    overlapped, \* history: a command came while a play or pause event was queued
    inputs, flushes

outside == <<resume, writer, issued, left, overlapped, inputs, flushes>>
vars == <<hook, elem, events, flush, outside>>

None == -1
Place == 0 .. Length
Event == {"meta", "time", "play", "pause"}

\* Element, queued events, resume and writer are well formed, places within the film (PlayerPage, usePlaybackProgress).
WebTypeOK ==
    /\ ControlsTypeOK
    /\ elem \in [at : Place, started : BOOLEAN, loaded : BOOLEAN, paused : BOOLEAN, seeking : BOOLEAN]
    /\ events \in Seq(Event) /\ flush \in BOOLEAN
    /\ resume \in [fetched : BOOLEAN, at : Place \cup {None}, chip : BOOLEAN, initial : Place \cup {None}]
    /\ writer \in [last : Place \cup {None}, since : 0 .. WriteInterval]
    /\ issued \in Place /\ left \in BOOLEAN /\ overlapped \in BOOLEAN
    /\ inputs \in 0 .. MaxInputs /\ flushes \in 0 .. MaxFlushes

-----------------------------------------------------------------------------
(* Chapters *)

\* The first chapter that starts later, or None.
NextChapter(p) ==
    LET later == {i \in 1 .. Len(Chapters) : Chapters[i] > p}
    IN IF later = {} THEN None ELSE Chapters[CHOOSE i \in later : \A j \in later : i <= j]
\* The last chapter that started a grace ago or earlier, else the first one.
PreviousChapter(p) ==
    LET earlier == {i \in 1 .. Len(Chapters) : Chapters[i] + Grace <= p}
    IN IF Chapters = <<>> THEN None
       ELSE IF earlier = {} THEN Chapters[1]
       ELSE Chapters[CHOOSE i \in earlier : \A j \in earlier : j <= i]

-----------------------------------------------------------------------------
(* The <video> element *)

Queue(q, e) == IF e = "time" /\ \E i \in 1 .. Len(q) : q[i] = "time" THEN q ELSE Append(q, e)

\* play() and pause() act at once and queue their event, if they change anything;
\* play() at the end starts over.
Playing(e) == [e EXCEPT !.paused = FALSE, !.at = IF @ = Length THEN 0 ELSE @,
                        !.seeking = @ \/ (e.loaded /\ e.at = Length)]
DoPlay ==
    /\ elem' = IF elem.paused THEN Playing(elem) ELSE elem
    /\ events' = IF elem.paused THEN Queue(events, "play") ELSE events
DoPause ==
    /\ elem' = [elem EXCEPT !.paused = TRUE]
    /\ events' = IF elem.paused THEN events ELSE Queue(events, "pause")

\* currentTime = p: the place changes at once, the seek lands later.
SeekTo(p) == elem' = [elem EXCEPT !.at = IF p > Length THEN Length ELSE p, !.seeking = elem.loaded]

Init ==
    /\ HookInit
    /\ elem = [at |-> 0, started |-> FALSE, loaded |-> FALSE, paused |-> TRUE, seeking |-> FALSE]
    /\ events = <<>> /\ flush = FALSE
    /\ resume = [fetched |-> FALSE, at |-> None, chip |-> FALSE, initial |-> None]
    /\ writer = [last |-> None, since |-> WriteInterval]
    /\ issued = 0 /\ left = FALSE /\ overlapped = FALSE /\ inputs = 0 /\ flushes = 0

\* Between tasks, on a page that is still there.
Task == ~flush /\ ~left

InFlight(e) == \E i \in 1 .. Len(events) : events[i] = e
Overlaps == overlapped' = (overlapped \/ InFlight("play") \/ InFlight("pause"))

\* The source is attached: autoplay, muted if need be, or not allowed at all.
StartPlayback ==
    /\ Task /\ ~elem.started
    /\ \/ /\ elem' = [elem EXCEPT !.started = TRUE, !.paused = FALSE]
          /\ events' = IF elem.paused THEN Queue(events, "play") ELSE events
          /\ Overlaps
       \/ elem' = [elem EXCEPT !.started = TRUE] /\ UNCHANGED <<events, overlapped>>
    /\ UNCHANGED <<hook, flush, resume, writer, issued, left, inputs, flushes>>

\* Its metadata is there: the resume listener seeks if the player was given a place.
MetadataLoads ==
    /\ Task /\ elem.started /\ ~elem.loaded
    /\ elem' = [elem EXCEPT !.loaded = TRUE,
                            !.at = IF resume.initial = None THEN @ ELSE resume.initial,
                            !.seeking = resume.initial # None]
    /\ events' = Queue(Queue(events, "meta"), "time")
    /\ UNCHANGED <<hook, flush, outside>>

SeekLands ==
    /\ Task /\ elem.seeking /\ elem' = [elem EXCEPT !.seeking = FALSE]
    /\ events' = Queue(events, "time")
    /\ UNCHANGED <<hook, flush, outside>>

Older(w) == [w EXCEPT !.since = IF @ < WriteInterval THEN @ + 1 ELSE @]
VideoPlays ==
    /\ Task /\ events = <<>> /\ elem.loaded /\ ~elem.paused /\ ~elem.seeking
    /\ IF elem.at < Length
       THEN elem' = [elem EXCEPT !.at = @ + 1] /\ events' = Queue(events, "time")
       ELSE elem' = [elem EXCEPT !.paused = TRUE] /\ events' = Queue(Queue(events, "time"), "pause")
    /\ writer' = Older(writer)
    /\ UNCHANGED <<hook, flush, resume, issued, left, overlapped, inputs, flushes>>

-----------------------------------------------------------------------------
(* usePlaybackProgress *)

\* FAULTY: the place of a paused video is not worth a beacon.
SnapshotPlaying == IF elem.at > 0 /\ ~elem.paused THEN elem.at ELSE None
\* The committed place, or None when there is nothing worth writing.
Snapshot == IF elem.at > 0 THEN elem.at ELSE None

\* A write is sent for a place other than the last one written.
Write(due, since) ==
    IF due /\ Snapshot \notin {None, writer.last}
    THEN issued' = Snapshot /\ writer' = [last |-> Snapshot, since |-> since]
    ELSE UNCHANGED <<issued, writer>>
PutProgress(due) == Write(due, 0)
FlushBeacon == Write(TRUE, writer.since)

\* GET /api/progress: a place far enough in is offered by the chip.
ProgressArrives(p) ==
    /\ Task /\ ~resume.fetched
    /\ resume' = [resume EXCEPT !.fetched = TRUE,
                                !.at = IF p < MinResume THEN None ELSE p, !.chip = p >= MinResume]
    /\ ParentRenders
    /\ UNCHANGED <<elem, events, flush, writer, issued, left, overlapped, inputs, flushes>>

\* The chip goes away by itself or by its button, or starts the film over.
DismissChip ==
    /\ Task /\ resume.chip /\ resume' = [resume EXCEPT !.chip = FALSE] /\ ParentRenders
    /\ UNCHANGED <<elem, events, flush, writer, issued, left, overlapped, inputs, flushes>>
StartOver ==
    /\ Task /\ resume.chip /\ resume' = [resume EXCEPT !.chip = FALSE] /\ ParentRenders
    /\ SeekTo(0) /\ writer' = [writer EXCEPT !.last = None]
    /\ UNCHANGED <<events, flush, issued, left, overlapped, inputs, flushes>>

\* The tab is hidden, or the page goes away.
TabHides ==
    /\ Task /\ flushes < MaxFlushes /\ flushes' = flushes + 1
    /\ FlushBeacon
    /\ UNCHANGED <<hook, elem, events, flush, resume, left, overlapped, inputs>>

\* Back: the page unmounts, and its last effect cleanup sends a beacon.
GoBack ==
    /\ Task /\ left' = TRUE
    /\ FlushBeacon
    /\ UNCHANGED <<hook, elem, events, flush, resume, overlapped, inputs, flushes>>

-----------------------------------------------------------------------------
(* Element events *)

Pending(e) == events # <<>> /\ Head(events) = e /\ events' = Tail(events)

MetaEvent ==
    /\ Task /\ Pending("meta") /\ ReportDuration(Length)
    /\ UNCHANGED <<elem, flush, outside>>
\* Two listeners: the page reports the place, the progress hook may write it.
TimeEvent ==
    /\ Task /\ Pending("time") /\ ReportProgress(elem.at)
    /\ PutProgress(~elem.paused /\ ~elem.seeking /\ writer.since = WriteInterval)
    /\ UNCHANGED <<elem, flush, resume, left, overlapped, inputs, flushes>>
\* FAULTY: the page does not hear of a pause.
HearsPlay(playing) == IF playing THEN SetPlaying(TRUE) ELSE UNCHANGED hook
\* FAULTY: any such event toggles the play intent.
HearsToggle(playing) == Dispatch(Toggled(state))
Hears(playing) == SetPlaying(playing)
PlayEvent ==
    /\ Task /\ Pending("play") /\ Hears(TRUE) /\ flush' = TRUE
    /\ UNCHANGED <<elem, outside>>
PauseEvent ==
    /\ Task /\ Pending("pause") /\ Hears(FALSE) /\ flush' = TRUE
    /\ PutProgress(TRUE)
    /\ UNCHANGED <<elem, resume, left, overlapped, inputs, flushes>>

-----------------------------------------------------------------------------
(* Keys, clicks and timers *)

Input == Task /\ inputs < MaxInputs /\ inputs' = inputs + 1 /\ Overlaps

\* A key, a button of the bar, or a click on the bare video.
PressKey(key) ==
    /\ Input /\ HandleRemote(key) /\ flush' = TRUE
    /\ UNCHANGED <<elem, events, resume, writer, issued, left, flushes>>
PointerMoves ==
    /\ Input /\ ShowOverlay
    /\ UNCHANGED <<elem, events, flush, resume, writer, issued, left, flushes>>
\* The scrub bar, a scene, or a chapter key: the element is sought directly.
SeekClick(p) ==
    /\ Input /\ state.overlayVisible /\ SeekTo(IF state.duration > 0 THEN p ELSE 0)
    /\ UNCHANGED <<hook, events, flush, resume, writer, issued, left, flushes>>
ChapterKey(target) ==
    /\ Input /\ target # None /\ SeekTo(target)
    /\ UNCHANGED <<hook, events, flush, resume, writer, issued, left, flushes>>
\* The browser or a headset pauses the video.
Interrupted ==
    /\ Input /\ ~elem.paused /\ DoPause
    /\ UNCHANGED <<hook, flush, resume, writer, issued, left, flushes>>

\* The effects; a changed play intent reaches the element.
RunsEffects ==
    /\ ~left /\ RunEffects /\ flush' = FALSE
    /\ IF ~ReflectsIntent THEN UNCHANGED <<elem, events>>
       ELSE IF state.isPlaying THEN DoPlay ELSE DoPause
    /\ UNCHANGED outside
NothingToRun ==
    /\ ~left /\ flush /\ EffectsSettled /\ flush' = FALSE
    /\ UNCHANGED <<hook, elem, events, outside>>
SeekCommits ==
    /\ Task /\ FireSeek /\ SeekTo(armedFor)
    /\ UNCHANGED <<events, flush, outside>>
Timers ==
    /\ Task /\ (FireHide \/ (events = <<>> /\ HookTick))
    /\ UNCHANGED <<elem, events, flush, outside>>

Next ==
    \/ StartPlayback \/ MetadataLoads \/ SeekLands \/ VideoPlays
    \/ (\E p \in Saved : ProgressArrives(p)) \/ DismissChip \/ StartOver \/ TabHides \/ GoBack
    \/ MetaEvent \/ TimeEvent \/ PlayEvent \/ PauseEvent
    \/ (\E key \in Key : PressKey(key)) \/ PointerMoves \/ Interrupted
    \/ \E p \in Place : SeekClick(p)
    \/ ChapterKey(NextChapter(elem.at)) \/ ChapterKey(PreviousChapter(elem.at))
    \/ RunsEffects \/ NothingToRun \/ SeekCommits \/ Timers

Spec == Init /\ [][Next]_vars
\* Queued events are handled, effects run, seeks land and the video plays on.
Fairness ==
    /\ WF_vars(RunsEffects) /\ WF_vars(NothingToRun)
    /\ WF_vars(MetaEvent \/ TimeEvent \/ PlayEvent \/ PauseEvent)
    /\ WF_vars(SeekLands) /\ WF_vars(VideoPlays)
FairSpec == Spec /\ Fairness

-----------------------------------------------------------------------------
(* Properties *)

Quiet == events = <<>> /\ EffectsSettled /\ ~flush

\* With no event on its way, the button shows what the video does, however
\* keys, autoplay, interruptions and the end of the film were interleaved.
InLockstep == Quiet => state.isPlaying = ~elem.paused

\* With no event on its way, the clock shows where the video is: no seek of
\* the bar, of a chapter or of a scrub leaves the reducer behind.
ClockTrue == Quiet /\ ~elem.seeking /\ elem.loaded /\ ~Scrubbing(state) => state.position = elem.at

\* Button and clock follow the element, whoever moved it.
FollowsElement == InLockstep /\ ClockTrue

\* A viewer who leaves has the very place sent to the server, wherever in the
\* throttle interval they leave and whatever was skipped as already written.
PlaceSent == left /\ elem.at > 0 => issued = elem.at

\* The next chapter is ahead with none skipped; the previous one is behind,
\* or is the first.
ChaptersStep ==
    LET next == NextChapter(elem.at)
        previous == PreviousChapter(elem.at)
    IN /\ next # None =>
            next > elem.at /\ \A i \in 1 .. Len(Chapters) : ~(elem.at < Chapters[i] /\ Chapters[i] < next)
       /\ Chapters # <<>> => previous <= elem.at \/ previous = Chapters[1]

\* The play state comes to rest.  The exception is a key, a click or the
\* autoplay that came while an earlier play or pause event was still queued: the page then answers each
\* queued event with the opposite command, for ever.
PlayStateRests == []~overlapped => <>[](left \/ state.isPlaying = ~elem.paused)

\* A saved place that is known before the source has loaded is where playback
\* starts, as the page's comment on the chip says.
ResumeApplied ==
    [][elem'.loaded /\ ~elem.loaded /\ resume.at # None => elem'.at = resume.at]_vars
=============================================================================
