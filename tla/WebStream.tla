------------------------------ MODULE WebStream ------------------------------
(***************************************************************************)
(* The web player's stream (VideoPlayer, under the state PlayerPage keeps): *)
(* asking the server for a decision, attaching the source it names, going  *)
(* back to the viewer's place after a switch, and rendering captions.      *)
(*                                                                         *)
(* A change of props or state is rendered at once, which is when a switch  *)
(* captures the position; the three effects (resolve, attach, captions)    *)
(* are steps of their own, so errors, loads and further switches may come  *)
(* between them.  A request is answered only after the render that its own *)
(* effect asked for has attached or torn down what it had to.  The <video> *)
(* element, hls.js and the subtitle renderers are external and do what the *)
(* code relies on.                                                         *)
(***************************************************************************)
EXTENDS Integers, FiniteSets

CONSTANTS
    Audio,          \* the stream_index of the file's other audio tracks
    Sub,            \* the file's subtitle tracks
    ClientRendered, \* those libass or libbitsub renders: ASS, PGS, VobSub
    Embedded,       \* those with a stream_index: the server can burn them in
    Length,         \* bound: playback positions are 0 .. Length
    MaxRecoveries,  \* hls.js errors recovered in place
    MaxSwitches,    \* bound: audio and caption choices of the viewer
    MaxFaults,      \* bound: failed requests, element errors, renderer errors
    None            \* null or undefined

ASSUME StreamAssumption ==
    /\ ClientRendered \subseteq Sub /\ Embedded \subseteq Sub
    /\ Length \in Nat \ {0} /\ MaxRecoveries \in Nat
    /\ MaxSwitches \in Nat /\ MaxFaults \in Nat

VARIABLES
    page,       \* PlayerPage: audio, selected caption, forceBurnIn, baseMode, files loaded
    player,     \* VideoPlayer: phase, decision, in-flight request, decisionKeyRef
    ran,        \* the dependencies the resolve effect last ran with
    retry,      \* forceTranscode, didFallbackRef, attempt
    resumeTo,   \* resumeToRef: the position to seek the next source to
    switching,  \* the "Switching audio" flag
    source,     \* what is attached to the <video>, and the element's position
    imports,    \* imports of hls.js pending for sources already torn down
    instances,  \* live hls.js instances
    capsRan,    \* the dependencies the captions effect last ran with
    making,     \* renderers being created, and whether their effect is current
    alive,      \* renderers that draw over the video
    place,      \* history: where the viewer was when a switch began
    budget      \* bound: switches and faults so far

stream == <<player, ran, retry, resumeTo, switching>>
element == <<source, imports, instances>>
captions == <<capsRan, making, alive>>
vars == <<page, stream, element, captions, place, budget>>

Default == "default"
Mode == {"direct", "hls"}
Place == 0 .. Length
Burn == Sub \cup {None}
Decision == [mode : Mode, audio : Audio \cup {Default}, burn : Burn]
Key == [audio : Audio \cup {Default}, burn : Burn, attempt : 0 .. MaxFaults, force : BOOLEAN]
Query == [forceTranscode : BOOLEAN, audioTrack : Audio \cup {Default}, sub : Burn]
Request == [query : Query, switching : BOOLEAN]
Page == [audio : Audio \cup {Default}, selected : Burn, burnIn : Burn,
         baseMode : Mode \cup {None}, loaded : BOOLEAN]
Player == [phase : {"loading", "ready", "error"}, decision : Decision \cup {None},
           request : Request \cup {None}, key : Key \cup {None}]
Retry == [forced : BOOLEAN, fellBack : BOOLEAN, attempt : 0 .. MaxFaults]
Source == [id : Decision, stage : {"set", "importing", "hls", "failed"}, loaded : BOOLEAN,
           listener : Place \cup {None}, recoveries : 0 .. MaxRecoveries, at : Place]

\* null is none of the values it stands in for, nor is the default track numbered.
ASSUME NoneAssumption ==
    /\ None \notin Sub /\ None \notin Place /\ Default \notin Audio
    /\ None \notin Mode \cup {"set", "importing", "failed"}
    /\ None \notin Decision /\ None \notin Request
    /\ None \notin Key /\ None \notin Source

-----------------------------------------------------------------------------
(* Asking for a decision *)

\* What PlayerPage passes down: the audio track, whether it takes a transcode,
\* the burn-in, and the caption rendered on the client (none under a burn-in).
Props == [audioTrack |-> page.audio, forceForAudio |-> page.baseMode # "hls",
          burnIn |-> page.burnIn,
          caption |-> IF page.burnIn # None THEN None ELSE page.selected]

Deps == [audio |-> Props.audioTrack, burn |-> Props.burnIn,
         forced |-> retry.forced, attempt |-> retry.attempt]

\* A burn-in, or another audio track over a stream not known to be HLS.
Forced(d) == d.forced \/ d.burn # None \/ (d.audio # Default /\ Props.forceForAudio)
KeyOf(d) == [audio |-> d.audio, burn |-> d.burn, attempt |-> d.attempt, force |-> Forced(d)]

\* The query of GET /api/stream.
QueryOf(key) == [forceTranscode |-> key.force, audioTrack |-> key.audio, sub |-> key.burn]

\* FAULTY: an aborted request keeps the key.
AbortedKeeps(p) == [p EXCEPT !.request = None]
\* The resolve effect's cleanup: a request that has not settled gives up the key.
Aborted(p) == [p EXCEPT !.request = None, !.key = IF p.request = None THEN @ ELSE None]

\* The resolve effect's body: nothing for the key in flight or resolved.
Requested(p, key, sw) ==
    IF p.key = key THEN p
    ELSE [p EXCEPT !.key = key, !.request = [query |-> QueryOf(key), switching |-> sw],
                   !.phase = "loading", !.decision = None]

ResolveEffect ==
    /\ Deps # ran /\ ran' = Deps
    /\ LET p == Requested(Aborted(player), KeyOf(Deps), resumeTo # None)
       IN /\ player' = p
          /\ switching' = (switching \/ (p.request # None /\ resumeTo # None))
    /\ UNCHANGED <<page, retry, resumeTo, element, captions, place, budget>>

DecisionId == IF player.phase = "ready" THEN player.decision ELSE None
SourceId == IF source = None THEN None ELSE source.id
Stage == IF source = None THEN None ELSE source.stage
Answerable == player.request # None /\ DecisionId = SourceId

\* The server's side: a forced request is always answered with HLS.
Decisions(q) == [mode : IF q.forceTranscode THEN {"hls"} ELSE Mode,
                 audio : {q.audioTrack}, burn : {q.sub}]
\* onDecision: the mode is remembered as the base one while no track is chosen.
BaseModeAfter(d) == IF page.audio = Default THEN d.mode ELSE page.baseMode

Answer ==
    /\ Answerable
    /\ \E d \in Decisions(player.request.query) :
         /\ player' = [player EXCEPT !.phase = "ready", !.request = None, !.decision = d]
         /\ page' = [page EXCEPT !.baseMode = BaseModeAfter(d)]
    /\ UNCHANGED <<ran, retry, resumeTo, switching, element, captions, place, budget>>

Faulty == budget.faults < MaxFaults /\ budget' = [budget EXCEPT !.faults = @ + 1]

\* Busy (409) or failed: the key is free again and the toast goes away.
RequestFails ==
    /\ Answerable /\ Faulty
    /\ player' = [player EXCEPT !.phase = "error", !.decision = None, !.request = None, !.key = None]
    /\ switching' = (switching /\ ~player.request.switching)
    /\ UNCHANGED <<page, ran, retry, resumeTo, element, captions, place>>

\* The Retry button: let the server decide afresh.
PressRetry ==
    /\ player.phase = "error" /\ retry.attempt < MaxFaults
    /\ retry' = [forced |-> FALSE, fellBack |-> FALSE, attempt |-> retry.attempt + 1]
    /\ UNCHANGED <<page, player, ran, resumeTo, switching, element, captions, place, budget>>

-----------------------------------------------------------------------------
(* Attaching the source *)

\* FAULTY: tearing a source down forgets where it was to resume.
TargetAfterTeardownCleared == IF source # None /\ source.listener # None THEN None ELSE resumeTo
\* A source torn down before its seek landed leaves the target to the next one.
TargetAfterTeardown == resumeTo

Attached(d, target) ==
    [id |-> d, stage |-> IF d.mode = "direct" THEN "set" ELSE "importing", loaded |-> FALSE,
     listener |-> target, recoveries |-> 0, at |-> 0]

\* Cleanup (drop the listener and the source, destroy hls.js) and the new source.
AttachEffect ==
    /\ DecisionId # SourceId
    /\ resumeTo' = TargetAfterTeardown
    /\ source' = IF DecisionId = None THEN None ELSE Attached(DecisionId, TargetAfterTeardown)
    /\ imports' = IF Stage = "importing" THEN imports + 1 ELSE imports
    /\ instances' = IF Stage = "hls" THEN instances - 1 ELSE instances
    /\ UNCHANGED <<page, player, ran, retry, switching, captions, place, budget>>

\* import('hls.js') of the current source: MSE, Safari's native HLS, or neither.
ImportLands ==
    /\ Stage = "importing"
    /\ \/ /\ source' = [source EXCEPT !.stage = "hls"] /\ instances' = instances + 1
          /\ UNCHANGED <<player, budget>>
       \/ source' = [source EXCEPT !.stage = "set"] /\ UNCHANGED <<instances, player, budget>>
       \/ /\ Faulty /\ player' = [player EXCEPT !.phase = "error", !.decision = None]
          /\ source' = [source EXCEPT !.stage = "set"] /\ UNCHANGED instances
    /\ UNCHANGED <<page, ran, retry, resumeTo, switching, imports, captions, place>>

\* The import is rejected, which nobody catches: the phase stays "ready", with nothing to play.
ImportFails ==
    /\ Stage = "importing" /\ Faulty
    /\ source' = [source EXCEPT !.stage = "failed"]
    /\ UNCHANGED <<page, stream, imports, instances, captions, place>>

\* FAULTY: the cancelled flag is not looked at.
InstancesAfterStale == instances + 1
\* An import whose source was torn down meanwhile does nothing (cancelled), nor does its rejection.
InstancesAfterCancelled == instances
StaleImportLands ==
    /\ imports > 0 /\ imports' = imports - 1 /\ instances' = InstancesAfterCancelled
    /\ UNCHANGED <<page, stream, source, captions, place, budget>>

\* loadedmetadata: the resume listener seeks once, then lets the toast go.
MetadataLoads ==
    /\ source # None /\ source.stage \in {"set", "hls"} /\ ~source.loaded
    /\ source' = [source EXCEPT !.loaded = TRUE, !.listener = None,
                                !.at = IF source.listener = None THEN 0 ELSE source.listener]
    /\ resumeTo' = IF source.listener = None THEN resumeTo ELSE None
    /\ switching' = (switching /\ source.listener = None)
    /\ UNCHANGED <<page, player, ran, retry, imports, instances, captions, place, budget>>

TimePasses ==
    /\ source # None /\ source.loaded /\ source.at < Length
    /\ source' = [source EXCEPT !.at = @ + 1]
    /\ UNCHANGED <<page, stream, imports, instances, captions, place, budget>>

GivesUp == player' = [player EXCEPT !.phase = "error", !.decision = None]

\* A fatal hls.js error: recovered in place a few times, then the error phase.
HlsFatal ==
    /\ Stage = "hls" /\ Faulty
    /\ \/ /\ source.recoveries < MaxRecoveries
          /\ source' = [source EXCEPT !.recoveries = @ + 1] /\ UNCHANGED player
       \/ GivesUp /\ UNCHANGED source
    /\ UNCHANGED <<page, ran, retry, resumeTo, switching, imports, instances, captions, place>>

\* The element's error event: a direct stream falls back once to a transcode.
ElementError ==
    /\ Stage = "set" /\ Faulty
    /\ \/ /\ player.phase = "ready" /\ player.decision.mode = "direct" /\ ~retry.fellBack
          /\ retry' = [retry EXCEPT !.fellBack = TRUE, !.forced = TRUE]
          /\ player' = [player EXCEPT !.phase = "loading", !.decision = None]
       \/ GivesUp /\ UNCHANGED retry
    /\ UNCHANGED <<page, ran, resumeTo, switching, element, captions, place>>

-----------------------------------------------------------------------------
(* The viewer's choices (PlayerPage) *)

Now == IF source = None THEN 0 ELSE source.at
\* FAULTY: a position of zero is captured too.
CapturedAlways == Now
\* Rendering a changed audio or burn-in track captures the position under way.
Captured == IF Now > 0 THEN Now ELSE resumeTo
Render(p) ==
    /\ page' = p
    /\ IF p.audio # page.audio \/ p.burnIn # page.burnIn
       THEN resumeTo' = Captured /\ place' = (IF Now > 0 THEN Now ELSE place)
       ELSE UNCHANGED <<resumeTo, place>>
    /\ UNCHANGED <<player, ran, retry, switching, element>>

Switches == budget.switches < MaxSwitches /\ budget' = [budget EXCEPT !.switches = @ + 1]

SelectAudio(a) ==
    page.loaded /\ Switches /\ Render([page EXCEPT !.audio = a]) /\ UNCHANGED captions
SelectSubtitle(s) ==
    page.loaded /\ Switches /\ Render([page EXCEPT !.selected = s, !.burnIn = None]) /\ UNCHANGED captions

\* GET /api/files: the menus, and once the tracks remembered from other titles.
FilesArrive ==
    /\ ~page.loaded
    /\ \E a \in Audio \cup {Default}, s \in Burn :
         Render([page EXCEPT !.loaded = TRUE, !.audio = a, !.selected = s])
    /\ UNCHANGED <<captions, budget>>

-----------------------------------------------------------------------------
(* Captions *)

CapsDeps == [sub |-> Props.caption, id |-> DecisionId]

\* Cleanup (dispose the renderer, disown one being made) and the new renderer.
CaptionsEffect ==
    /\ CapsDeps # capsRan /\ capsRan' = CapsDeps
    /\ alive' = {}
    /\ making' = {[m EXCEPT !.current = FALSE] : m \in making}
                 \cup [sub : {Props.caption} \cap ClientRendered, current : {TRUE}]
    /\ UNCHANGED <<page, stream, element, place, budget>>

\* FAULTY: a renderer that arrives after its effect was cleaned up is kept.
ArrivesAlways(m) == alive \cup {m.sub}
\* A renderer whose effect was cleaned up meanwhile is destroyed on arrival.
Arrives(m) == IF m.current THEN alive \cup {m.sub} ELSE alive
RendererMade(m) ==
    /\ alive' = Arrives(m) /\ making' = making \ {m}
    /\ UNCHANGED <<page, stream, element, capsRan, place, budget>>

\* onSubtitleBurnIn: an embedded track is burned in by the server instead.
BurnIn(s) == Render([page EXCEPT !.burnIn = IF s \in Embedded THEN s ELSE @])
RendererFails(m) ==
    /\ Faulty /\ BurnIn(m.sub) /\ making' = making \ {m} /\ UNCHANGED <<capsRan, alive>>
RendererDies(s) ==
    /\ Faulty /\ BurnIn(s) /\ alive' = alive \ {s} /\ UNCHANGED <<capsRan, making>>

-----------------------------------------------------------------------------
FirstDeps == [audio |-> Default, burn |-> None, forced |-> FALSE, attempt |-> 0]
FirstKey == [audio |-> Default, burn |-> None, attempt |-> 0, force |-> FALSE]
Mounted == Requested([phase |-> "loading", decision |-> None, request |-> None, key |-> None],
                     FirstKey, FALSE)

\* StrictMode runs the mount effects, cleans them up and runs them again.
Init ==
    /\ page = [audio |-> Default, selected |-> None, burnIn |-> None, baseMode |-> None, loaded |-> FALSE]
    /\ player \in {Mounted, Requested(Aborted(Mounted), FirstKey, FALSE)}
    /\ ran = FirstDeps
    /\ retry = [forced |-> FALSE, fellBack |-> FALSE, attempt |-> 0]
    /\ resumeTo = None /\ switching = FALSE
    /\ source = None /\ imports = 0 /\ instances = 0
    /\ capsRan = [sub |-> None, id |-> None] /\ making = {} /\ alive = {}
    /\ place = 0 /\ budget = [switches |-> 0, faults |-> 0]

Arriving ==
    \/ Answer \/ RequestFails \/ ImportLands \/ ImportFails
    \/ StaleImportLands \/ MetadataLoads
Next ==
    \/ ResolveEffect \/ AttachEffect \/ CaptionsEffect
    \/ Arriving \/ PressRetry \/ TimePasses \/ HlsFatal \/ ElementError
    \/ FilesArrive
    \/ \E a \in Audio : SelectAudio(a)
    \/ \E s \in Burn : SelectSubtitle(s)
    \/ \E m \in making : RendererMade(m) \/ RendererFails(m)
    \/ \E s \in alive : RendererDies(s)

Spec == Init /\ [][Next]_vars
\* React runs every effect it scheduled; requests, imports and loads come to an end.
Fairness ==
    /\ WF_vars(ResolveEffect) /\ WF_vars(AttachEffect)
    /\ WF_vars(Answer \/ RequestFails) /\ WF_vars(ImportLands \/ ImportFails) /\ WF_vars(MetadataLoads)
FairSpec == Spec /\ Fairness

-----------------------------------------------------------------------------
(* Properties *)

\* Page, player, source and renderers are well formed; a position to go back to is one of the film (VideoPlayer).
StreamTypeOK ==
    /\ page \in Page /\ player \in Player /\ retry \in Retry
    /\ resumeTo \in Place \cup {None} /\ switching \in BOOLEAN
    /\ source \in Source \cup {None}
    /\ imports \in Nat /\ instances \in Int
    /\ making \in SUBSET [sub : Sub, current : BOOLEAN] /\ alive \subseteq Sub
    /\ place \in Place

\* A player that shows "Preparing playback" is waiting for an answer: the key
\* that absorbs duplicate requests never absorbs the one that is needed.
LoadingHasRequest == player.phase = "loading" /\ Deps = ran => player.request # None

\* There is one hls.js instance, or none, and it plays the attached source:
\* none outlives its source, none is born of an import that came too late.
OneInstance == instances = IF Stage = "hls" THEN 1 ELSE 0

\* While the "Switching audio" toast is up there is a position to go back to:
\* the toast never outlives the switch that raised it.
ToastHasTarget == switching => resumeTo # None

\* A source whose audio track was chosen, or with burned-in captions, is never
\* played directly (unless the default track was HLS, when the code trusts the
\* server to decide so again).
ChoiceIsTranscoded ==
    source # None /\ source.id.mode = "direct" =>
        /\ source.id.burn = None
        /\ source.id.audio = Default \/ page.baseMode = "hls"

\* Once the captions effect has run, only the selected caption is drawn, however
\* late the renderers of earlier choices arrive.
NoStrayCaption == CapsDeps = capsRan => alive \subseteq {Props.caption}

\* Nothing outlives the source or the choice it was made for: no hls.js
\* instance, no caption, and no toast.
NothingOutlives == OneInstance /\ NoStrayCaption /\ ToastHasTarget

\* A switch ends where it began: the source that ends it starts at the position
\* the viewer had, through re-switches, failures and retries.
SwitchKeepsPlace ==
    [][switching /\ ~switching' /\ player.phase = "ready" /\ source # None => source'.at = place]_vars

\* Left with nothing to play and no error: import('hls.js') was rejected (VideoPlayer.tsx:425 has no
\* catch), and the toast stays up until the viewer chooses again.
Stranded == Stage = "failed"

\* A switch is carried out or its error is shown, unless hls.js itself could not be loaded.
SwitchEnds == switching ~> ~switching \/ player.phase = "error" \/ Stranded
=============================================================================
