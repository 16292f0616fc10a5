---------------------------- MODULE HoverPreviews ----------------------------
(***************************************************************************)
(* The TV home's hero and row of posters (packages/ui, packages/navigation) *)
(* and the hover-preview machine each poster with a clip runs: the image,  *)
(* the two-second gate, the request inside it, the video, the blur.        *)
(*                                                                         *)
(* A machine's request and timer belong to the state that started them:    *)
(* leaving it stops them, but the request goes on in the network until it  *)
(* is answered, whatever the abort signal says.  The focus engine, the     *)
(* native image and video, and the server are external.                    *)
(***************************************************************************)
EXTENDS Integers, FiniteSets

CONSTANTS
    Tiles,          \* posters in the row
    Clip,           \* the tiles whose preview the server has generated
    Gate,           \* HOVER_GATE_MS, in ticks
    MaxMoves,       \* bound: D-pad presses
    MaxClipFaults   \* bound: requests that fail, and clips that fail to play

ASSUME HoverAssumption ==
    /\ Tiles \in Nat \ {0} /\ Clip \subseteq 1 .. Tiles
    /\ Gate \in Nat \ {0} /\ MaxMoves \in Nat /\ MaxClipFaults \in Nat

VARIABLES
    machine,    \* by tile: state, previewUrl, attempt, gate timer
    requests,   \* HEAD requests in the network
    mounted,    \* the tiles the virtualized list renders
    focus,      \* the focused tile, or Hero
    registered, \* the row registered itself as the hero's "Down" target
    active,     \* the home screen is on top of the stack
    dwell,      \* history: ticks since the focus last moved, up to Gate
    deaf,       \* history: the focus came before the image had loaded
    broken,     \* history: the request or the clip of this visit failed
    moves, clipFaults

hoverVars == <<machine, requests, mounted, focus, registered, active, dwell, deaf, broken, moves, clipFaults>>

Tile == 1 .. Tiles
Hero == 0
NoUrl == 0
NoTimer == -1
Attempt == 0 .. MaxMoves
MachineState == {"awaitingBackgroundImageLoad", "idle", "cannotMoveOn", "canMoveOn", "playing"}
Loading == {"cannotMoveOn", "canMoveOn"}
Showing == Loading \cup {"playing"}
Machine == [st : MachineState, url : Attempt, attempt : Attempt, timer : {NoTimer} \cup 0 .. Gate]
Request == [tile : Tile, attempt : Attempt, aborted : BOOLEAN]

\* Machines, requests and the focus are well formed; no timer is longer than the
\* gate (hoverPreviewMachine).
HoverTypeOK ==
    /\ machine \in [Tile -> Machine] /\ requests \subseteq Request
    /\ mounted \subseteq Tile /\ focus \in Tile \cup {Hero}
    /\ registered \in BOOLEAN /\ active \in BOOLEAN
    /\ dwell \in 0 .. Gate /\ deaf \in BOOLEAN /\ broken \in BOOLEAN
    /\ moves \in 0 .. MaxMoves /\ clipFaults \in 0 .. MaxClipFaults

-----------------------------------------------------------------------------
(* The machine's transitions *)

Fresh == [st |-> "awaitingBackgroundImageLoad", url |-> NoUrl, attempt |-> 0, timer |-> NoTimer]

\* FOCUS: only an idle machine enters the gate, arms its abort and starts a request.
Focused(m) ==
    IF m.st = "idle"
    THEN [m EXCEPT !.st = "cannotMoveOn", !.attempt = moves + 1, !.timer = Gate] ELSE m

\* teardown: the source is dropped, and what belongs to the state stops with it.
Idle(m) == [m EXCEPT !.st = "idle", !.url = NoUrl, !.timer = NoTimer]
\* FAULTY: a playing preview does not hear the blur.
BlurredLoading(m) == IF m.st \in Loading THEN Idle(m) ELSE m
Blurred(m) == IF m.st \in Showing THEN Idle(m) ELSE m

\* FAULTY: the teardown leaves the request alone.
AbortedNone(t) == requests
Aborted(t) == {[r EXCEPT !.aborted = @ \/ r.tile = t] : r \in requests}

\* FAULTY: an answer that comes while the gate is closed is lost.
AnswersOpened(r) == machine[r.tile].st = "canMoveOn" /\ machine[r.tile].attempt = r.attempt
\* FAULTY: an answer is taken by whichever request the tile runs now.
AnswersAny(r) == machine[r.tile].st \in Loading
\* The answer of a request is for the machine state that asked for it.
AnswersCurrent(r) == machine[r.tile].st \in Loading /\ machine[r.tile].attempt = r.attempt

\* FAULTY: the video is mounted as soon as its source is known.
ShouldMountEarly(t) == machine[t].st \in Showing /\ machine[t].url # NoUrl
\* What the component renders: the gate is open and the source known.
ShouldMountVideo(t) == machine[t].st \in {"canMoveOn", "playing"} /\ machine[t].url # NoUrl

-----------------------------------------------------------------------------
HoverInit ==
    /\ machine = [t \in Tile |-> Fresh] /\ requests = {}
    /\ mounted = {} /\ focus = Hero /\ registered = FALSE /\ active = TRUE
    /\ dwell = 0 /\ deaf = FALSE /\ broken = FALSE /\ moves = 0 /\ clipFaults = 0

\* The library's first page is rendered: the row registers its name.
RowMounts ==
    /\ ~registered /\ registered' = TRUE /\ mounted' = Tile
    /\ UNCHANGED <<machine, requests, focus, active, dwell, deaf, broken, moves, clipFaults>>

\* Virtualization: a tile away from the focus unmounts, a tile near it mounts.
TileUnmounts(t) ==
    /\ t \in mounted /\ focus \in Tile /\ t < focus - 1
    /\ mounted' = mounted \ {t} /\ machine' = [machine EXCEPT ![t] = Fresh]
    /\ UNCHANGED <<requests, focus, registered, active, dwell, deaf, broken, moves, clipFaults>>
TileMounts(t) ==
    /\ registered /\ t \notin mounted /\ (focus = Hero \/ t >= focus - 1)
    /\ mounted' = mounted \cup {t}
    /\ UNCHANGED <<machine, requests, focus, registered, active, dwell, deaf, broken, moves, clipFaults>>

ImageLoads(t) ==
    /\ t \in mounted /\ machine[t].st = "awaitingBackgroundImageLoad"
    /\ machine' = [machine EXCEPT ![t].st = "idle"]
    /\ UNCHANGED <<requests, mounted, focus, registered, active, dwell, deaf, broken, moves, clipFaults>>

\* The focus leaves one node (BLUR) and enters another (FOCUS).
Landed(to) ==
    LET blurred == IF focus = Hero THEN machine ELSE [machine EXCEPT ![focus] = Blurred(@)]
    IN IF to = Hero THEN blurred ELSE [blurred EXCEPT ![to] = Focused(@)]
Asked(to, ms) ==
    IF to # Hero /\ ms[to].st = "cannotMoveOn"
    THEN {[tile |-> to, attempt |-> ms[to].attempt, aborted |-> FALSE]} ELSE {}
FocusMoves(to) ==
    /\ active /\ moves < MaxMoves /\ moves' = moves + 1
    /\ to # focus /\ focus' = to
    /\ machine' = Landed(to)
    /\ requests' = (IF focus = Hero THEN requests ELSE Aborted(focus)) \cup Asked(to, Landed(to))
    /\ dwell' = 0
    /\ deaf' = (to # Hero /\ machine[to].st = "awaitingBackgroundImageLoad")
    /\ broken' = FALSE
    /\ UNCHANGED <<mounted, registered, active, clipFaults>>

\* Geometry moves along the row and up to the hero; "Down" on the hero has
\* nothing below it and jumps to the row registered under the target's name.
PressSide(t) == focus \in Tile /\ t \in mounted /\ t \in {focus - 1, focus + 1} /\ FocusMoves(t)
PressUp == focus \in Tile /\ FocusMoves(Hero)
PressDown == focus = Hero /\ registered /\ 1 \in mounted /\ FocusMoves(1)

\* A screen covers the home screen: nothing is blurred, the keys go elsewhere.
Covered ==
    /\ focus # Hero /\ active' = ~active
    /\ UNCHANGED <<machine, requests, mounted, focus, registered, dwell, deaf, broken, moves, clipFaults>>

\* A tick of the gate of every loading tile; `after` moves on when it is over.
Tick ==
    /\ dwell < Gate /\ dwell' = dwell + 1
    /\ machine' = [t \in Tile |-> [machine[t] EXCEPT !.timer = IF @ > 0 THEN @ - 1 ELSE @]]
    /\ UNCHANGED <<requests, mounted, focus, registered, active, deaf, broken, moves, clipFaults>>
GateOpens(t) ==
    /\ machine[t].st = "cannotMoveOn" /\ machine[t].timer = 0
    /\ machine' = [machine EXCEPT ![t].st = "canMoveOn", ![t].timer = NoTimer]
    /\ UNCHANGED <<requests, mounted, focus, registered, active, dwell, deaf, broken, moves, clipFaults>>

\* A request is answered: the clip is there, or not generated yet.  One that
\* was aborted is answered too, if its answer was already under way.
RequestAnswered(r) ==
    /\ r \in requests /\ requests' = requests \ {r}
    /\ machine' =
         IF ~AnswersCurrent(r) THEN machine
         ELSE IF r.tile \in Clip THEN [machine EXCEPT ![r.tile].url = r.attempt]
         ELSE [machine EXCEPT ![r.tile] = Idle(@)]
    /\ UNCHANGED <<mounted, focus, registered, active, dwell, deaf, broken, moves, clipFaults>>

PreviewFault == clipFaults < MaxClipFaults /\ clipFaults' = clipFaults + 1 /\ broken' = TRUE

\* A request that is still waited for fails (network, server), though the clip may be there.
RequestFails(r) ==
    /\ r \in requests /\ requests' = requests \ {r}
    /\ AnswersCurrent(r) /\ PreviewFault
    /\ machine' = [machine EXCEPT ![r.tile] = Idle(@)]
    /\ UNCHANGED <<mounted, focus, registered, active, dwell, deaf, moves>>

VideoLoads(t) ==
    /\ ShouldMountVideo(t) /\ machine[t].st = "canMoveOn"
    /\ machine' = [machine EXCEPT ![t].st = "playing"]
    /\ UNCHANGED <<requests, mounted, focus, registered, active, dwell, deaf, broken, moves, clipFaults>>
VideoFails(t) ==
    /\ ShouldMountVideo(t) /\ PreviewFault
    /\ machine' = [machine EXCEPT ![t] = Idle(@)]
    /\ UNCHANGED <<requests, mounted, focus, registered, active, dwell, deaf, moves>>

HoverNext ==
    \/ RowMounts \/ PressUp \/ PressDown \/ Covered \/ Tick
    \/ \E t \in Tile : TileUnmounts(t) \/ TileMounts(t) \/ ImageLoads(t) \/ PressSide(t)
    \/ \E t \in Tile : GateOpens(t) \/ VideoLoads(t) \/ VideoFails(t)
    \/ \E r \in requests : RequestAnswered(r) \/ RequestFails(r)

HoverSpec == HoverInit /\ [][HoverNext]_hoverVars

-----------------------------------------------------------------------------
(* Properties *)

\* A preview video exists only under the focus of the home screen, hence one at
\* most: none goes on at a tile the focus has left, and no late answer starts one.
OneVideo == \A t \in Tile : ShouldMountVideo(t) => focus = t /\ t \in mounted

\* A request nobody waits for has been aborted, wherever the blur came.
NoOrphanRequest ==
    \A r \in requests : ~r.aborted =>
        machine[r.tile].st \in Showing /\ machine[r.tile].attempt = r.attempt

\* A mounted video plays what this visit of the focus asked for, though the
\* answers of earlier visits may still come.
SourceIsCurrent == \A t \in Tile : machine[t].url # NoUrl => machine[t].url = machine[t].attempt

\* No video before the focus has dwelt the whole gate, however it came back to
\* a tile whose timer had been running.
GateHolds == \A t \in Tile : ShouldMountVideo(t) => dwell = Gate

\* A preview is of this visit of the focus, and nothing of an earlier one is
\* left: no video, no request, no answer, no timer.
NoStalePreview == OneVideo /\ NoOrphanRequest /\ SourceIsCurrent /\ GateHolds

\* The focus rests on a tile that has a clip and heard of it, nothing of this
\* visit has failed, and no preview plays.
Dwelling == focus \in Clip /\ machine[focus].st # "playing" /\ ~deaf /\ ~broken

\* A tile whose clip exists and that the focus stays on plays it in the end.
\* The exceptions are a visit whose request or clip failed, after which nothing
\* is tried again, and a focus that came before the image had loaded, which the
\* machine never hears of.
DwellPlays == Dwelling ~> ~Dwelling
=============================================================================
