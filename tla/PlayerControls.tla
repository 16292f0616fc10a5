---------------------------- MODULE PlayerControls ----------------------------
(***************************************************************************)
(* usePlayerControls (packages/player): the transport and overlay state    *)
(* machine shared by the TV and the web player.                            *)
(*                                                                         *)
(* A dispatch changes the reducer's state at once; the effects that arm    *)
(* and clear the two timers run after the render it causes, so a timer     *)
(* that is due may still fire between a key press and its effects.  The    *)
(* dependencies an effect last ran with are a variable of their own.  Both *)
(* players pass a new onSeek at every render, so every render counts as a  *)
(* changed dependency of the settle effect (fresh turns FALSE).            *)
(* Positions are counted in seek steps of SEEK_STEP_MS, time in ticks.     *)
(***************************************************************************)
EXTENDS Integers

CONSTANTS
    HideAfter,      \* HIDE_AFTER_MS, in ticks
    SeekSettle,     \* SEEK_SETTLE_MS, in ticks
    MaxPosition,    \* bound: stands for MAX_SAFE_INTEGER while no duration is known
    Autoplay        \* initialPlaying: TRUE on TV, FALSE with reflectFromEvents

ASSUME ControlsAssumption ==
    /\ HideAfter \in Nat \ {0} /\ SeekSettle \in Nat \ {0}
    /\ MaxPosition \in Nat \ {0} /\ Autoplay \in BOOLEAN

VARIABLES
    state,      \* the reducer's state
    seen,       \* the dependencies the timer effects last ran with
    reflected,  \* wasPlaying: the play intent last reported to the player
    hideTimer,  \* ticks until HIDE_OVERLAY, or Off
    seekTimer,  \* ticks until the scrub is committed, or Off
    armedFor,   \* the target captured by the settle timer's closure; 0 when off
    hideFired   \* history: HIDE_OVERLAY fired since the hide effect last ran

hook == <<state, seen, reflected, hideTimer, seekTimer, armedFor, hideFired>>

Off == -1
NotScrubbing == -1
Position == 0 .. MaxPosition
State == [isPlaying : BOOLEAN, overlayVisible : BOOLEAN,
          scrubTarget : Position \cup {NotScrubbing},
          position : Position, duration : Position]
Deps == [overlay : BOOLEAN, playing : BOOLEAN, scrub : Position \cup {NotScrubbing}, fresh : BOOLEAN]
Key == {"select", "playPause", "left", "right", "up", "down"}

\* The reducer's positions are ones a film may have, never before its start, and timers stay
\* within their periods (clamp, usePlayerControls).
ControlsTypeOK ==
    /\ state \in State /\ seen \in Deps /\ reflected \in BOOLEAN
    /\ hideTimer \in {Off} \cup 0 .. HideAfter
    /\ seekTimer \in {Off} \cup 0 .. SeekSettle
    /\ armedFor \in Position /\ hideFired \in BOOLEAN

-----------------------------------------------------------------------------
(* The reducer *)

Scrubbing(s) == s.scrubTarget # NotScrubbing
\* FAULTY: no upper limit.
ClampBelow(v, lo, hi) == IF v < lo THEN lo ELSE v
Clamp(v, lo, hi) == IF v < lo THEN lo ELSE IF v > hi THEN hi ELSE v
Upper(s) == IF s.duration > 0 THEN s.duration ELSE MaxPosition
DisplayPosition(s) == IF Scrubbing(s) THEN s.scrubTarget ELSE s.position

Shown(s) == [s EXCEPT !.overlayVisible = TRUE]
\* FAULTY: the overlay hides under a scrub.
HiddenMidScrub(s) == [s EXCEPT !.overlayVisible = FALSE]
Hidden(s) == IF Scrubbing(s) THEN s ELSE [s EXCEPT !.overlayVisible = FALSE]
Toggled(s) == [s EXCEPT !.isPlaying = ~@, !.overlayVisible = TRUE]
Scrubbed(s, delta) ==
    [s EXCEPT !.overlayVisible = TRUE,
              !.scrubTarget = Clamp(DisplayPosition(s) + delta, 0, Upper(s))]
Committed(s) ==
    IF Scrubbing(s) THEN [s EXCEPT !.position = s.scrubTarget, !.scrubTarget = NotScrubbing]
                    ELSE s
\* FAULTY: the place of a paused video is not followed.
TickedPlaying(s, p) == IF Scrubbing(s) \/ ~s.isPlaying THEN s ELSE [s EXCEPT !.position = p]
Ticked(s, p) == IF Scrubbing(s) THEN s ELSE [s EXCEPT !.position = p]

\* What one key does to the state.
Pressed(s, key) ==
    CASE key \in {"select", "playPause"} -> Toggled(s)
      [] key = "left" -> Scrubbed(s, -1)
      [] key = "right" -> Scrubbed(s, 1)
      [] key \in {"up", "down"} -> Shown(s)

-----------------------------------------------------------------------------
(* Mounting, dispatches from outside, effects and timers *)

DepsOf(s) == [overlay |-> s.overlayVisible, playing |-> s.isPlaying,
              scrub |-> s.scrubTarget, fresh |-> TRUE]
EffectsSettled == seen = DepsOf(state) /\ reflected = state.isPlaying
SameForHide(d) == d = [seen EXCEPT !.fresh = TRUE]
WantsHide(d) == d.overlay /\ d.playing /\ d.scrub = NotScrubbing

FreshState == [isPlaying |-> Autoplay, overlayVisible |-> TRUE, scrubTarget |-> NotScrubbing,
               position |-> 0, duration |-> 0]

HookInit ==
    /\ state = FreshState /\ seen = DepsOf(FreshState) /\ reflected = Autoplay
    /\ hideTimer = IF Autoplay THEN HideAfter ELSE Off
    /\ seekTimer = Off /\ armedFor = 0 /\ hideFired = FALSE

\* The screen mounts: the hook starts over, the timers of the old one are cleared.
HookMount ==
    /\ state' = FreshState /\ seen' = DepsOf(FreshState) /\ reflected' = Autoplay
    /\ hideTimer' = IF Autoplay THEN HideAfter ELSE Off
    /\ seekTimer' = Off /\ armedFor' = 0 /\ hideFired' = FALSE

\* A render with a scrub under way makes the settle effect due.
Rendered(s) == seen' = IF Scrubbing(s) THEN [seen EXCEPT !.fresh = FALSE] ELSE seen
ParentRenders ==
    Rendered(state) /\ UNCHANGED <<state, reflected, hideTimer, seekTimer, armedFor, hideFired>>
Dispatch(s) ==
    /\ state' = s /\ Rendered(s)
    /\ UNCHANGED <<reflected, hideTimer, seekTimer, armedFor, hideFired>>
\* These reducer cases return the very state they were given, which renders nothing.
Offer(s) == IF s = state THEN UNCHANGED hook ELSE Dispatch(s)

HandleRemote(key) ==
    IF key \in {"up", "down"} THEN Offer(Pressed(state, key)) ELSE Dispatch(Pressed(state, key))
ReportProgress(p) == Offer(Ticked(state, p))
ReportDuration(d) == Dispatch([state EXCEPT !.duration = d])
SetPlaying(b) == Dispatch([state EXCEPT !.isPlaying = b])
ShowOverlay == Offer(Shown(state))

\* FAULTY: the hide effect forgets to clear the timer it had armed.
HideEffectLeaks(d) ==
    hideTimer' = IF SameForHide(d) THEN hideTimer ELSE IF WantsHide(d) THEN HideAfter ELSE hideTimer
\* The hide effect: its cleanup clears the timer, its body may arm it again.
HideEffect(d) ==
    hideTimer' = IF SameForHide(d) THEN hideTimer ELSE IF WantsHide(d) THEN HideAfter ELSE Off

\* FAULTY: a timer armed for an earlier target is kept.
SettleEffectKeeps(d) ==
    IF d.scrub = NotScrubbing \/ seekTimer # Off
    THEN UNCHANGED <<seekTimer, armedFor>>
    ELSE seekTimer' = SeekSettle /\ armedFor' = d.scrub
\* FAULTY: the settle timer is armed only while the video plays.
SettleEffectPlaying(d) ==
    IF d.scrub = NotScrubbing \/ ~d.playing THEN seekTimer' = Off /\ armedFor' = 0
    ELSE seekTimer' = SeekSettle /\ armedFor' = d.scrub
\* The settle effect: its cleanup clears the timer, a scrub arms it again.
SettleEffect(d) ==
    IF d.scrub = NotScrubbing THEN seekTimer' = Off /\ armedFor' = 0
    ELSE seekTimer' = SeekSettle /\ armedFor' = d.scrub

\* The three effects that follow a render (onPlay and onPause: ReflectsIntent).
RunEffects ==
    /\ ~EffectsSettled
    /\ LET d == DepsOf(state)
       IN HideEffect(d) /\ SettleEffect(d) /\ seen' = d /\ hideFired' = (hideFired /\ SameForHide(d))
    /\ reflected' = state.isPlaying
    /\ UNCHANGED state
ReflectsIntent == reflected' # reflected

FireHide ==
    /\ hideTimer = 0 /\ hideTimer' = Off /\ hideFired' = TRUE
    /\ state' = Hidden(state)
    /\ UNCHANGED <<seen, reflected, seekTimer, armedFor>>

\* The settle timer calls onSeek(armedFor), then dispatches COMMIT_SCRUB.
FireSeek ==
    /\ seekTimer = 0 /\ seekTimer' = Off /\ armedFor' = 0
    /\ state' = Committed(state)
    /\ UNCHANGED <<seen, reflected, hideTimer, hideFired>>

\* A tick passes when no callback is due and no effect is waiting.
Down(t) == IF t > 0 THEN t - 1 ELSE t
HookTick ==
    /\ EffectsSettled /\ hideTimer # 0 /\ seekTimer # 0
    /\ hideTimer > 0 \/ seekTimer > 0
    /\ hideTimer' = Down(hideTimer) /\ seekTimer' = Down(seekTimer)
    /\ UNCHANGED <<state, seen, reflected, armedFor, hideFired>>

HookNext ==
    \/ HookMount
    \/ \E key \in Key : HandleRemote(key)
    \/ \E p \in Position : ReportProgress(p) \/ ReportDuration(p)
    \/ \E b \in BOOLEAN : SetPlaying(b)
    \/ ParentRenders \/ ShowOverlay \/ RunEffects \/ FireHide \/ FireSeek \/ HookTick

HookSpec == HookInit /\ [][HookNext]_hook
HookFairness ==
    WF_hook(RunEffects) /\ WF_hook(FireHide) /\ WF_hook(FireSeek) /\ WF_hook(HookTick)

-----------------------------------------------------------------------------
(* Properties *)

\* The overlay is up while a scrub is dialled, though the hide timer may fire
\* between the key press and the effect that clears it (HIDE_OVERLAY's guard).
ScrubShown == Scrubbing(state) => state.overlayVisible

\* Once the effects have run, a dialled target always has its settle timer,
\* which will seek to that very target, and no timer outlives its scrub: no
\* press is lost and none is committed twice, though every render starts the
\* timer again.
ScrubArmed ==
    seen = DepsOf(state) =>
        /\ Scrubbing(state) <=> seekTimer # Off
        /\ Scrubbing(state) => armedFor = state.scrubTarget

\* Once the effects have run, the hide timer is armed exactly when the overlay
\* is up over a playing video nobody scrubs: it neither sticks nor goes away
\* while the video is paused.  The exception is a timer that fired and a press
\* that restored the very same dependencies in one render.
OverlayWillHide ==
    seen = DepsOf(state) /\ ~hideFired => (WantsHide(DepsOf(state)) <=> hideTimer # Off)

\* What is on the screen and what the timers will do agree with what the viewer
\* last pressed, in any order of presses, renders, effects and timers.
ControlsTrue == ScrubShown /\ ScrubArmed /\ OverlayWillHide

\* A dialled scrub is sought and left: its settle timer fires.
ScrubSettles == Scrubbing(state) ~> ~Scrubbing(state)
=============================================================================
