------------------------ MODULE PlayerControls_proofs ------------------------
(***************************************************************************)
(* Proofs about PlayerControls, for every timeout, every length and        *)
(* whether the player starts by itself or not: types, and that the two     *)
(* timers of the hook and its state never drift apart, in whatever order   *)
(* keys, progress, renders, effects and timers come.                       *)
(***************************************************************************)
EXTENDS PlayerControls, TLAPS

-----------------------------------------------------------------------------
(* The reducer *)

\* Clamp stays between its limits.
LEMMA ClampInRange ==
    ASSUME NEW v \in Int, NEW hi \in Nat
    PROVE  Clamp(v, 0, hi) \in 0 .. hi
  BY DEF Clamp

\* The upper limit of a scrub is a position.
LEMMA UpperIsPosition ==
    ASSUME NEW s \in State PROVE Upper(s) \in Position
  BY ControlsAssumption DEF State, Position, Upper

\* Dialling a scrub by one step keeps the state well typed.
LEMMA ScrubbedType ==
    ASSUME NEW s \in State, NEW delta \in {-1, 1}
    PROVE  Scrubbed(s, delta) \in State
  <1> DEFINE shown == DisplayPosition(s)
             target == Clamp(shown + delta, 0, Upper(s))
  <1>1. Position \subseteq Int /\ Position \subseteq Nat
    BY ControlsAssumption DEF Position
  <1>2. shown \in Position
    BY DEF State, DisplayPosition, Scrubbing
  <1>3. Upper(s) \in Position
    BY UpperIsPosition
  <1>4. target \in 0 .. Upper(s)
    <2> HIDE DEF shown
    <2>1. shown + delta \in Int
      BY <1>1, <1>2
    <2>2. Upper(s) \in Nat
      BY <1>1, <1>3
    <2> QED
      BY <2>1, <2>2, ClampInRange
  <1>5. target \in Position
    <2> HIDE DEF target
    <2> QED
      BY <1>3, <1>4, ControlsAssumption DEF Position
  <1>6. Scrubbed(s, delta) = [s EXCEPT !.overlayVisible = TRUE, !.scrubTarget = target]
    BY DEF Scrubbed
  <1> HIDE DEF target
  <1> QED
    BY <1>5, <1>6 DEF State

\* Every key keeps the state well typed.
LEMMA PressedType ==
    ASSUME NEW s \in State, NEW key \in Key
    PROVE  Pressed(s, key) \in State
  <1>1. CASE key \in {"select", "playPause"}
    BY <1>1 DEF Pressed, Toggled, State
  <1>2. CASE key = "left"
    BY <1>2, ScrubbedType DEF Pressed
  <1>3. CASE key = "right"
    BY <1>3, ScrubbedType DEF Pressed
  <1>4. CASE key \in {"up", "down"}
    BY <1>4 DEF Pressed, Shown, State
  <1> QED
    BY <1>1, <1>2, <1>3, <1>4 DEF Key

\* The dependencies of a well-typed state are well typed.
LEMMA DepsType ==
    ASSUME NEW s \in State PROVE DepsOf(s) \in Deps
  BY DEF DepsOf, Deps, State

-----------------------------------------------------------------------------
(* Type correctness *)

\* The steps that only dispatch to the reducer, and what each leaves of the state.
Dispatches == \E s \in State : state' = s /\ Rendered(s)
                  /\ UNCHANGED <<reflected, hideTimer, seekTimer, armedFor, hideFired>>

\* A render touches the dependencies' freshness only.
LEMMA RenderedType ==
    ASSUME seen \in Deps, NEW s \in State, Rendered(s)
    PROVE  seen' \in Deps
  BY DEF Rendered, Deps

\* What a mounted hook starts with is well typed.
LEMMA FreshType ==
    /\ FreshState \in State /\ DepsOf(FreshState) \in Deps
    /\ (IF Autoplay THEN HideAfter ELSE Off) \in {Off} \cup 0 .. HideAfter
    /\ Off \in {Off} \cup 0 .. SeekSettle /\ 0 \in Position
  <1>1. 0 \in Position /\ Autoplay \in BOOLEAN
    BY ControlsAssumption DEF Position
  <1>2. FreshState \in State
    BY <1>1 DEF FreshState, State
  <1>3. (IF Autoplay THEN HideAfter ELSE Off) \in {Off} \cup 0 .. HideAfter
    BY ControlsAssumption
  <1> QED
    BY <1>1, <1>2, <1>3, DepsType

\* Initially the hook is well typed.
LEMMA ControlsTypeInit == HookInit => ControlsTypeOK
  <1>1. Autoplay \in BOOLEAN /\ FALSE \in BOOLEAN
    BY ControlsAssumption
  <1> QED
    BY <1>1, FreshType DEF HookInit, ControlsTypeOK

\* Every step of the hook that dispatches is a dispatch of a well-typed state, or nothing.
LEMMA DispatchingSteps ==
    ASSUME ControlsTypeOK,
           \/ \E key \in Key : HandleRemote(key)
           \/ \E p \in Position : ReportProgress(p) \/ ReportDuration(p)
           \/ \E b \in BOOLEAN : SetPlaying(b)
           \/ ParentRenders \/ ShowOverlay
    PROVE  Dispatches \/ UNCHANGED hook
  <1>0. state \in State
    BY DEF ControlsTypeOK
  <1>1. ASSUME NEW key \in Key, HandleRemote(key) PROVE Dispatches \/ UNCHANGED hook
    BY <1>0, <1>1, PressedType DEF HandleRemote, Offer, Dispatch, Dispatches
  <1>2. ASSUME NEW p \in Position, ReportProgress(p) PROVE Dispatches \/ UNCHANGED hook
    <2>1. Ticked(state, p) \in State
      BY <1>0 DEF Ticked, State
    <2> QED
      BY <1>2, <2>1 DEF ReportProgress, Offer, Dispatch, Dispatches
  <1>3. ASSUME NEW p \in Position, ReportDuration(p) PROVE Dispatches \/ UNCHANGED hook
    <2>1. [state EXCEPT !.duration = p] \in State
      BY <1>0 DEF State
    <2> QED
      BY <1>3, <2>1 DEF ReportDuration, Dispatch, Dispatches
  <1>4. ASSUME NEW b \in BOOLEAN, SetPlaying(b) PROVE Dispatches \/ UNCHANGED hook
    <2>1. [state EXCEPT !.isPlaying = b] \in State
      BY <1>0 DEF State
    <2> QED
      BY <1>4, <2>1 DEF SetPlaying, Dispatch, Dispatches
  <1>5. ASSUME ParentRenders PROVE Dispatches \/ UNCHANGED hook
    BY <1>0, <1>5 DEF ParentRenders, Dispatches
  <1>6. ASSUME ShowOverlay PROVE Dispatches \/ UNCHANGED hook
    <2>1. Shown(state) \in State
      BY <1>0 DEF Shown, State
    <2> QED
      BY <1>6, <2>1 DEF ShowOverlay, Offer, Dispatch, Dispatches
  <1> QED
    BY <1>1, <1>2, <1>3, <1>4, <1>5, <1>6

\* Every step keeps the hook well typed.
LEMMA ControlsTypeStep == ControlsTypeOK /\ [HookNext]_hook => ControlsTypeOK'
  <1> SUFFICES ASSUME ControlsTypeOK, [HookNext]_hook PROVE ControlsTypeOK'
    OBVIOUS
  <1>0. state \in State /\ seen \in Deps
    BY DEF ControlsTypeOK
  <1>1. CASE UNCHANGED hook
    BY <1>1 DEF ControlsTypeOK, hook
  <1>2. CASE HookMount
    BY <1>2, FreshType, ControlsAssumption DEF HookMount, ControlsTypeOK
  <1>3. CASE Dispatches
    BY <1>0, <1>3, RenderedType DEF Dispatches, ControlsTypeOK
  <1>4. CASE RunEffects
    <2> DEFINE d == DepsOf(state)
    <2>1. d \in Deps
      BY <1>0, DepsType
    <2>2. state' = state /\ seen' = d /\ reflected' = state.isPlaying
          /\ hideFired' = (hideFired /\ SameForHide(d)) /\ HideEffect(d) /\ SettleEffect(d)
      BY <1>4 DEF RunEffects
    <2> HIDE DEF d
    <2>3. hideTimer' \in {Off} \cup 0 .. HideAfter
      BY <2>2, ControlsAssumption DEF HideEffect, ControlsTypeOK, Off
    <2>4. seekTimer' \in {Off} \cup 0 .. SeekSettle /\ armedFor' \in Position
      BY <2>1, <2>2, ControlsAssumption DEF SettleEffect, Deps, Off, Position
    <2>5. hideFired' \in BOOLEAN
      BY <2>2 DEF ControlsTypeOK, SameForHide
    <2>6. reflected' \in BOOLEAN
      BY <1>0, <2>2 DEF State
    <2> QED
      BY <1>0, <2>1, <2>2, <2>3, <2>4, <2>5, <2>6 DEF ControlsTypeOK
  <1>5. CASE FireHide
    BY <1>0, <1>5, ControlsAssumption DEF FireHide, Hidden, Scrubbing, State, ControlsTypeOK, Off
  <1>6. CASE FireSeek
    <2>1. Committed(state) \in State
      BY <1>0 DEF Committed, Scrubbing, State
    <2>2. 0 \in Position
      BY ControlsAssumption DEF Position
    <2> QED
      BY <1>6, <2>1, <2>2 DEF FireSeek, ControlsTypeOK
  <1>7. CASE HookTick
    BY <1>7, ControlsAssumption DEF HookTick, Down, ControlsTypeOK, Off
  <1> QED
    BY <1>1, <1>2, <1>3, <1>4, <1>5, <1>6, <1>7, DispatchingSteps DEF HookNext

\* The hook's state, timers and closures are well typed in every reachable
\* state (usePlayerControls), whatever the timeouts and the length.
THEOREM ControlsTypeCorrect == HookSpec => []ControlsTypeOK
  BY ControlsTypeInit, ControlsTypeStep, PTL DEF HookSpec

-----------------------------------------------------------------------------
(* The overlay under a scrub *)

\* A scrub is dialled with the overlay up.
LEMMA PressedShown ==
    ASSUME NEW key \in Key, state \in State, ScrubShown
    PROVE  Scrubbing(Pressed(state, key)) => Pressed(state, key).overlayVisible
  <1>1. CASE key \in {"select", "playPause"}
    BY <1>1 DEF Pressed, Toggled, State
  <1>2. CASE key = "left"
    BY <1>2 DEF Pressed, Scrubbed, State
  <1>3. CASE key = "right"
    BY <1>3 DEF Pressed, Scrubbed, State
  <1>4. CASE key \in {"up", "down"}
    BY <1>4 DEF Pressed, Shown, State
  <1> QED
    BY <1>1, <1>2, <1>3, <1>4 DEF Key

\* No step takes the overlay from under a scrub, nor starts one without it.
LEMMA ScrubShownStep == ControlsTypeOK /\ ScrubShown /\ [HookNext]_hook => ScrubShown'
  <1> SUFFICES ASSUME ControlsTypeOK, ScrubShown, [HookNext]_hook PROVE ScrubShown'
    OBVIOUS
  <1>0. state \in State
    BY DEF ControlsTypeOK
  <1>1. CASE UNCHANGED hook
    BY <1>1 DEF hook, ScrubShown, Scrubbing
  <1>2. CASE HookMount
    BY <1>2 DEF HookMount, FreshState, ScrubShown, Scrubbing
  <1>3. ASSUME NEW key \in Key, HandleRemote(key) PROVE ScrubShown'
    <2>1. state' = Pressed(state, key) \/ state' = state
      BY <1>3 DEF HandleRemote, Offer, Dispatch, hook
    <2> QED
      BY <1>0, <2>1, PressedShown DEF ScrubShown, Scrubbing
  <1>4. ASSUME NEW p \in Position, ReportProgress(p) \/ ReportDuration(p) PROVE ScrubShown'
    <2>1. state' = state \/ state' = Ticked(state, p) \/ state' = [state EXCEPT !.duration = p]
      BY <1>4 DEF ReportProgress, ReportDuration, Offer, Dispatch, hook
    <2> QED
      BY <1>0, <2>1 DEF ScrubShown, Scrubbing, Ticked, State
  <1>5. ASSUME NEW b \in BOOLEAN, SetPlaying(b) PROVE ScrubShown'
    BY <1>0, <1>5 DEF SetPlaying, Dispatch, ScrubShown, Scrubbing, State
  <1>6. CASE ParentRenders
    BY <1>6 DEF ParentRenders, ScrubShown, Scrubbing
  <1>7. CASE ShowOverlay
    BY <1>0, <1>7 DEF ShowOverlay, Offer, Dispatch, Shown, hook, ScrubShown, Scrubbing, State
  <1>8. CASE RunEffects
    BY <1>8 DEF RunEffects, ScrubShown, Scrubbing
  <1>9. CASE FireHide
    BY <1>0, <1>9 DEF FireHide, Hidden, ScrubShown, Scrubbing, State
  <1>10. CASE FireSeek
    BY <1>0, <1>10 DEF FireSeek, Committed, ScrubShown, Scrubbing, State
  <1>11. CASE HookTick
    BY <1>11 DEF HookTick, ScrubShown, Scrubbing
  <1> QED
    BY <1>1, <1>2, <1>3, <1>4, <1>5, <1>6, <1>7, <1>8, <1>9, <1>10, <1>11 DEF HookNext

\* The overlay stays up while a scrub is dialled (the guard of HIDE_OVERLAY),
\* whatever the order of hide timer, keys and effects.
THEOREM ScrubIsShown == HookSpec => []ScrubShown
  <1>1. HookInit => ScrubShown
    BY DEF HookInit, FreshState, ScrubShown, Scrubbing
  <1> QED
    BY <1>1, ScrubShownStep, ControlsTypeCorrect, PTL DEF HookSpec

-----------------------------------------------------------------------------
(* The settle timer *)

\* What makes ScrubArmed inductive.  Between a render and its effects the
\* timer may belong to an older scrub or none, but then the effect is due: the
\* timer is off where the effect last saw no scrub, and a scrub under way with
\* no render since is the one the timer was armed for.
SettleInv ==
    /\ seen.scrub = NotScrubbing => seekTimer = Off
    /\ seen.fresh /\ Scrubbing(state) => seekTimer # Off /\ armedFor = state.scrubTarget

\* A dispatch to a scrubbing state makes the effect due, and leaves the rest alone.
LEMMA SettleDispatch ==
    ASSUME ControlsTypeOK, SettleInv, Dispatches PROVE SettleInv'
  <1>1. PICK s \in State : state' = s /\ Rendered(s)
                           /\ UNCHANGED <<reflected, hideTimer, seekTimer, armedFor, hideFired>>
    BY DEF Dispatches
  <1>2. CASE Scrubbing(s)
    <2>1. seen' = [seen EXCEPT !.fresh = FALSE]
      BY <1>1, <1>2 DEF Rendered
    <2>2. seen'.scrub = seen.scrub /\ seen'.fresh = FALSE
      BY <2>1 DEF ControlsTypeOK, Deps
    <2> QED
      BY <1>1, <2>2 DEF SettleInv, Off
  <1>3. CASE ~Scrubbing(s)
    <2>1. seen' = seen /\ ~Scrubbing(state')
      BY <1>1, <1>3 DEF Rendered
    <2> QED
      BY <1>1, <2>1 DEF SettleInv, Off, Scrubbing
  <1> QED
    BY <1>2, <1>3

\* Every step keeps SettleInv.
LEMMA SettleStep == ControlsTypeOK /\ SettleInv /\ [HookNext]_hook => SettleInv'
  <1> SUFFICES ASSUME ControlsTypeOK, SettleInv, [HookNext]_hook PROVE SettleInv'
    OBVIOUS
  <1>1. CASE UNCHANGED hook
    BY <1>1 DEF hook, SettleInv, Scrubbing
  <1>2. CASE HookMount
    BY <1>2 DEF HookMount, FreshState, DepsOf, SettleInv, Scrubbing
  <1>3. CASE Dispatches
    BY <1>3, SettleDispatch
  <1>4. CASE RunEffects
    <2>1. state' = state /\ seen' = DepsOf(state) /\ SettleEffect(DepsOf(state))
      BY <1>4 DEF RunEffects
    <2>2. CASE state.scrubTarget = NotScrubbing
      BY <2>1, <2>2 DEF SettleEffect, DepsOf, SettleInv, Scrubbing
    <2>3. CASE state.scrubTarget # NotScrubbing
      BY <2>1, <2>3, ControlsAssumption DEF SettleEffect, DepsOf, SettleInv, Scrubbing, Off
    <2> QED
      BY <2>2, <2>3
  <1>5. CASE FireHide
    BY <1>5 DEF FireHide, Hidden, SettleInv, Scrubbing, ControlsTypeOK, State
  <1>6. CASE FireSeek
    <2>1. ~Scrubbing(state') /\ seekTimer' = Off /\ seen' = seen
      BY <1>6 DEF FireSeek, Committed, Scrubbing, ControlsTypeOK, State
    <2> QED
      BY <2>1 DEF SettleInv, Scrubbing
  <1>7. CASE HookTick
    BY <1>7 DEF HookTick, Down, SettleInv, Scrubbing, ControlsTypeOK, Off
  <1> QED
    BY <1>1, <1>2, <1>3, <1>4, <1>5, <1>6, <1>7, DispatchingSteps DEF HookNext

\* Once the effects have run, a dialled scrub has its own settle timer and no
\* timer outlives its scrub (the settle effect of usePlayerControls).
THEOREM ScrubIsArmed == HookSpec => []ScrubArmed
  <1>1. HookInit => SettleInv
    BY DEF HookInit, FreshState, DepsOf, SettleInv, Scrubbing
  <1>2. ControlsTypeOK /\ SettleInv => ScrubArmed
    <2> SUFFICES ASSUME SettleInv, seen = DepsOf(state)
                 PROVE  /\ Scrubbing(state) <=> seekTimer # Off
                        /\ Scrubbing(state) => armedFor = state.scrubTarget
      BY DEF ScrubArmed
    <2>1. seen.fresh = TRUE /\ seen.scrub = state.scrubTarget
      BY DEF DepsOf
    <2> QED
      BY <2>1 DEF SettleInv, Scrubbing
  <1> QED
    BY <1>1, <1>2, SettleStep, ControlsTypeCorrect, PTL DEF HookSpec

-----------------------------------------------------------------------------
(* The hide timer *)

\* Until it fires, the hide timer is armed exactly when the effect last found
\* an overlay over a playing video nobody scrubs.
HideInv == ~hideFired => (WantsHide(seen) <=> hideTimer # Off)

\* Freshness is not among the hide effect's dependencies.
LEMMA HideDispatch ==
    ASSUME ControlsTypeOK, HideInv, Dispatches PROVE HideInv'
  <1>1. PICK s \in State : Rendered(s) /\ UNCHANGED <<hideTimer, hideFired>>
    BY DEF Dispatches
  <1>2. seen' = seen \/ seen' = [seen EXCEPT !.fresh = FALSE]
    BY <1>1 DEF Rendered
  <1>3. seen'.overlay = seen.overlay /\ seen'.playing = seen.playing /\ seen'.scrub = seen.scrub
    BY <1>2 DEF ControlsTypeOK, Deps
  <1> QED
    BY <1>1, <1>3 DEF HideInv, WantsHide, Off

\* Every step keeps HideInv.
LEMMA HideStep == ControlsTypeOK /\ HideInv /\ [HookNext]_hook => HideInv'
  <1> SUFFICES ASSUME ControlsTypeOK, HideInv, [HookNext]_hook PROVE HideInv'
    OBVIOUS
  <1>1. CASE UNCHANGED hook
    BY <1>1 DEF hook, HideInv, WantsHide
  <1>2. CASE HookMount
    BY <1>2, ControlsAssumption DEF HookMount, FreshState, DepsOf, HideInv, WantsHide, Off
  <1>3. CASE Dispatches
    BY <1>3, HideDispatch
  <1>4. CASE RunEffects
    <2> DEFINE d == DepsOf(state)
    <2>1. seen' = d /\ HideEffect(d) /\ hideFired' = (hideFired /\ SameForHide(d))
      BY <1>4 DEF RunEffects
    <2> HIDE DEF d
    <2>2. CASE SameForHide(d)
      <3>1. d.overlay = seen.overlay /\ d.playing = seen.playing /\ d.scrub = seen.scrub
        BY <2>2 DEF SameForHide, ControlsTypeOK, Deps
      <3> QED
        BY <2>1, <2>2, <3>1 DEF HideEffect, HideInv, WantsHide, Off
    <2>3. CASE ~SameForHide(d)
      BY <2>1, <2>3, ControlsAssumption DEF HideEffect, HideInv, WantsHide, Off
    <2> QED
      BY <2>2, <2>3
  <1>5. CASE FireHide
    BY <1>5 DEF FireHide, HideInv
  <1>6. CASE FireSeek
    BY <1>6 DEF FireSeek, HideInv, WantsHide, Off
  <1>7. CASE HookTick
    BY <1>7 DEF HookTick, Down, HideInv, WantsHide, ControlsTypeOK, Off
  <1> QED
    BY <1>1, <1>2, <1>3, <1>4, <1>5, <1>6, <1>7, DispatchingSteps DEF HookNext

\* Once the effects have run, the hide timer neither sticks nor runs under a
\* paused or scrubbed video (the hide effect of usePlayerControls), but for a
\* timer that fired and a press that undid it in one render.
THEOREM OverlayHides == HookSpec => []OverlayWillHide
  <1>1. HookInit => HideInv
    BY ControlsAssumption DEF HookInit, FreshState, DepsOf, HideInv, WantsHide, Off
  <1>2. HideInv => OverlayWillHide
    BY DEF HideInv, OverlayWillHide, Off
  <1> QED
    BY <1>1, <1>2, HideStep, ControlsTypeCorrect, PTL DEF HookSpec

-----------------------------------------------------------------------------
\* Together: what is on the screen and what the two timers of the hook will do
\* agree with what the viewer last pressed (usePlayerControls' two timer effects).
THEOREM ControlsAreTrue == HookSpec => []ControlsTrue
  BY ScrubIsShown, ScrubIsArmed, OverlayHides, PTL DEF ControlsTrue
=============================================================================
