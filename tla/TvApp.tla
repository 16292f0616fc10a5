-------------------------------- MODULE TvApp --------------------------------
(***************************************************************************)
(* The TV app (apps/tv) around the player of packages/player: the route    *)
(* stack, the home screen's paging, the detail screens and VideoScreen.    *)
(*                                                                         *)
(* A push or a pop changes the stack at once, the screens change at the    *)
(* next render: until then a second key still reaches the old screen, and  *)
(* the back key still sees the old canGoBack.                              *)
(***************************************************************************)
EXTENDS PlayerControls, Sequences

CONSTANTS
    Movie,          \* titles whose detail lists playable files
    Series,         \* titles whose episode rows play nothing yet
    Pages,          \* keyset pages the library has
    Length,         \* of every file, in seek steps
    Mosaic,         \* trickplay geometries a server may send
    NoMosaic,       \* trickplay undefined: a plain scrub bar
    MaxStack,       \* bound: routes on the stack
    MaxKeys,        \* bound: transport keys pressed in one player
    MaxFaults       \* bound: requests that fail

ASSUME TvAssumption ==
    /\ Pages \in Nat \ {0} /\ Length \in 1 .. MaxPosition
    /\ MaxStack \in Nat \ {0} /\ MaxKeys \in Nat /\ MaxFaults \in Nat
    /\ NoMosaic \notin Mosaic
    /\ \A m \in Mosaic : m \in [intervalMs : Nat, tileW : Nat, tileH : Nat, cols : Nat, rows : Nat]

VARIABLES
    stack,      \* the navigator's routes
    shown,      \* the routes of the last render
    library,    \* useLibrary: the pages appended, cursor, flags
    detail,     \* useMovie and useSeries, by position in the stack
    phase,      \* VideoScreen's phase
    trickplay,  \* the mosaic's geometry, once resolved
    elem,       \* currentTime of the native video; Length + 1 once onEnd has fired
    keys, faults

screens == <<stack, shown, library, detail>>
player == <<phase, trickplay, elem>>
vars == <<screens, player, hook, keys, faults>>

Title == Movie \cup Series
Home == [name |-> "Home"]
Detail(t) == [name |-> "Detail", id |-> t]
Player(t) == [name |-> "Player", fileId |-> t]
Route == {Home} \cup {Detail(t) : t \in Title} \cup {Player(t) : t \in Movie}

Phase == {"unmounted", "loading", "ready", "busy", "error"}
Failed == phase \in {"busy", "error"}
Fetch == {"none", "loading", "data", "error"}

Top(s) == s[Len(s)]
Mounted == phase # "unmounted"

\* Routes, library, details and player are well formed, positions within the film (App, VideoScreen).
TvTypeOK ==
    /\ ControlsTypeOK
    /\ stack \in Seq(Route) /\ shown \in Seq(Route)
    /\ library \in [items : Seq(1 .. Pages), cursor : 1 .. Pages + 1, exhausted : BOOLEAN,
                    asked : Seq(1 .. Pages), inFlight : BOOLEAN, error : BOOLEAN]
    /\ detail \in [1 .. MaxStack -> Fetch]
    /\ phase \in Phase /\ trickplay \in Mosaic \cup {NoMosaic} /\ elem \in 0 .. Length + 1
    /\ keys \in 0 .. MaxKeys /\ faults \in 0 .. MaxFaults

-----------------------------------------------------------------------------
(* Trickplay geometry *)

Least(a, b) == IF a < b THEN a ELSE b
TileCount(m) == m.cols * m.rows
\* FAULTY: clamped to the number of tiles, not to the last of them.
TilePastEnd(m, p) ==
    LET index == Least(p \div m.intervalMs, TileCount(m))
    IN [x |-> (index % m.cols) * m.tileW, y |-> (index \div m.cols) * m.tileH]
\* The tile that covers a position; meaningful unless Degenerate(m).
TileForPosition(m, p) ==
    LET index == Least(p \div m.intervalMs, TileCount(m) - 1)
    IN [x |-> (index % m.cols) * m.tileW, y |-> (index \div m.cols) * m.tileH]
Degenerate(m) == TileCount(m) = 0 \/ m.intervalMs = 0

\* What PlayerOverlay draws.
OverlayShown == Mounted /\ phase # "loading" /\ (state.overlayVisible \/ Failed)
ThumbShown ==
    OverlayShown /\ Scrubbing(state) /\ trickplay # NoMosaic /\ ~Degenerate(trickplay)
Thumb == TileForPosition(trickplay, DisplayPosition(state))

-----------------------------------------------------------------------------
(* The route stack *)

\* FAULTY: a pop that trusts the canGoBack its caller saw.
PoppedBlindly(s) == SubSeq(s, 1, Len(s) - 1)
Popped(s) == IF Len(s) > 1 THEN SubSeq(s, 1, Len(s) - 1) ELSE s
CanGoBack == Len(shown) > 1
Push(r) == Len(stack) < MaxStack /\ stack' = Append(stack, r)

EmptyLibrary == [items |-> <<>>, cursor |-> 1, exhausted |-> FALSE, asked |-> <<1>>,
                 inFlight |-> TRUE, error |-> FALSE]

Init ==
    /\ stack = <<Home>> /\ shown = <<Home>>
    /\ library = EmptyLibrary
    /\ detail = [i \in 1 .. MaxStack |-> "none"]
    /\ phase = "unmounted" /\ trickplay = NoMosaic /\ elem = 0
    /\ HookInit
    /\ keys = 0 /\ faults = 0

\* The stack renders: screens mount, unmount (aborting what they fetch) and the
\* player mounts when its route is on top, afresh each time.
KeepsScreen(i) == i <= Len(shown) /\ shown[i] = stack[i]
Render ==
    /\ shown # stack /\ shown' = stack
    /\ detail' = [i \in 1 .. MaxStack |->
                    IF i > Len(stack) THEN "none"
                    ELSE IF stack[i].name # "Detail" THEN "none"
                    ELSE IF KeepsScreen(i) THEN detail[i] ELSE "loading"]
    /\ IF Top(stack).name = "Player" /\ Top(shown) = Top(stack) /\ Len(shown) = Len(stack)
       THEN UNCHANGED <<player, hook, keys>>
       ELSE /\ keys' = 0
            /\ phase' = IF Top(stack).name = "Player" THEN "loading" ELSE "unmounted"
            /\ trickplay' = NoMosaic /\ elem' = 0
            /\ HookMount
    /\ UNCHANGED <<stack, library, faults>>

Fault == faults < MaxFaults /\ faults' = faults + 1

\* Hardware back, or the end of the film: whoever saw a stack to pop pops it.
MenuPressed ==
    /\ CanGoBack /\ stack' = Popped(stack)
    /\ UNCHANGED <<shown, library, detail, player, hook, keys, faults>>
OnEnd ==
    /\ phase = "ready" /\ elem = Length /\ state.isPlaying
    /\ CanGoBack /\ stack' = Popped(stack)
    /\ elem' = Length + 1
    /\ UNCHANGED <<shown, library, detail, phase, trickplay, hook, keys, faults>>

OpenDetail(t) ==
    /\ Top(shown).name = "Home" /\ library.items # <<>>
    /\ Push(Detail(t))
    /\ UNCHANGED <<shown, library, detail, player, hook, keys, faults>>
Play ==
    /\ Top(shown).name = "Detail" /\ detail[Len(shown)] = "data"
    /\ Top(shown).id \in Movie
    /\ Push(Player(Top(shown).id))
    /\ UNCHANGED <<shown, library, detail, player, hook, keys, faults>>

-----------------------------------------------------------------------------
(* useLibrary, useMovie and useSeries *)

\* FAULTY: a second request for the page already asked for.
AsksAgain == ~library.exhausted
MayLoadMore == ~library.inFlight /\ ~library.exhausted
\* The last row of the home screen is nearly scrolled to its end.
LoadMore ==
    /\ Top(shown).name = "Home" /\ library.items # <<>> /\ MayLoadMore
    /\ library' = [library EXCEPT !.asked = Append(@, library.cursor), !.inFlight = TRUE]
    /\ UNCHANGED <<stack, shown, detail, player, hook, keys, faults>>

\* A page arrives: appended, its next_cursor kept, and the last one noticed.
PageAppended(l) ==
    LET page == Head(l.asked)
    IN [l EXCEPT !.items = Append(@, page), !.cursor = page + 1, !.exhausted = (page = Pages),
                 !.asked = Tail(@), !.inFlight = FALSE, !.error = FALSE]
LibraryPage ==
    /\ library.asked # <<>> /\ library' = PageAppended(library)
    /\ UNCHANGED <<stack, shown, detail, player, hook, keys, faults>>
LibraryFails ==
    /\ Fault /\ library.asked # <<>>
    /\ library' = [library EXCEPT !.asked = Tail(@), !.inFlight = FALSE, !.error = TRUE]
    /\ UNCHANGED <<stack, shown, detail, player, hook, keys>>

DetailAnswers(i, answer) ==
    /\ detail[i] = "loading" /\ detail' = [detail EXCEPT ![i] = answer]
    /\ UNCHANGED <<stack, shown, library, player, hook, keys>>
DetailArrives(i) == DetailAnswers(i, "data") /\ UNCHANGED faults
DetailFails(i) == Fault /\ DetailAnswers(i, "error")

-----------------------------------------------------------------------------
(* VideoScreen *)

\* The decision: direct and HLS alike become a source.
StreamResolves ==
    /\ phase = "loading" /\ phase' = "ready" /\ ParentRenders
    /\ UNCHANGED <<screens, trickplay, elem, keys, faults>>
\* The decision fails (409: busy), or the native video does: the overlay shows it.
ShowsError(p) ==
    /\ phase' = p /\ Dispatch(Shown(state))
    /\ UNCHANGED <<screens, trickplay, elem, keys>>
StreamFails == Fault /\ phase = "loading" /\ \E p \in {"busy", "error"} : ShowsError(p)
OnError == Fault /\ phase = "ready" /\ ShowsError("error")

ResolveTrickplay(m) ==
    /\ Mounted /\ trickplay = NoMosaic /\ trickplay' = m /\ ParentRenders
    /\ UNCHANGED <<screens, phase, elem, keys, faults>>

\* Every transport key goes to the hook, whatever the phase.
RemoteKey(key) ==
    /\ keys < MaxKeys /\ keys' = keys + 1
    /\ Top(shown).name = "Player" /\ HandleRemote(key)
    /\ UNCHANGED <<screens, player, faults>>

OnLoad ==
    /\ phase = "ready" /\ state.duration = 0 /\ ReportDuration(Length)
    /\ UNCHANGED <<screens, player, keys, faults>>
OnProgress ==
    /\ phase = "ready" /\ state.duration > 0 /\ state.position # Least(elem, Length)
    /\ ReportProgress(Least(elem, Length))
    /\ UNCHANGED <<screens, player, keys, faults>>
\* The native video plays on.
VideoPlays ==
    /\ phase = "ready" /\ state.duration > 0 /\ state.isPlaying /\ elem < Length
    /\ elem' = elem + 1
    /\ UNCHANGED <<screens, phase, trickplay, hook, keys, faults>>

\* The settle timer seeks the video, when there is one.
SeekCommits ==
    /\ FireSeek
    /\ elem' = IF phase = "ready" THEN Least(armedFor, Length) ELSE elem
    /\ UNCHANGED <<screens, phase, trickplay, keys, faults>>
HookRuns ==
    /\ Mounted /\ (RunEffects \/ FireHide \/ HookTick)
    /\ UNCHANGED <<screens, player, keys, faults>>

Next ==
    \/ Render \/ MenuPressed \/ OnEnd \/ Play \/ (\E t \in Title : OpenDetail(t))
    \/ LoadMore \/ LibraryPage \/ LibraryFails
    \/ \E i \in 1 .. MaxStack : DetailArrives(i) \/ DetailFails(i)
    \/ StreamResolves \/ StreamFails \/ OnError \/ (\E m \in Mosaic : ResolveTrickplay(m))
    \/ \E key \in Key : RemoteKey(key)
    \/ OnLoad \/ OnProgress \/ VideoPlays
    \/ (Mounted /\ SeekCommits) \/ HookRuns

Spec == Init /\ [][Next]_vars

-----------------------------------------------------------------------------
(* Properties *)

\* The app never leaves its home screen for an empty stack, though the end of
\* the film and the back key may both pop what the same render showed.
HomeStays == Len(stack) > 0 /\ stack[1] = Home

\* The home screen shows every page once and in order, over retries and
\* end-of-row events that fire while a page is on its way.
PagesInOrder ==
    /\ \A i \in 1 .. Len(library.items) : library.items[i] = i
    /\ library.exhausted <=> Len(library.items) = Pages

\* The scrub thumbnail is cut from inside the mosaic, wherever the scrub goes.
TileInMosaic ==
    ThumbShown =>
        /\ Thumb.x + trickplay.tileW <= trickplay.cols * trickplay.tileW
        /\ Thumb.y + trickplay.tileH <= trickplay.rows * trickplay.tileH

\* Routes, pages and tiles are within what there is, each in its order.
ScreensInOrder == HomeStays /\ PagesInOrder /\ TileInMosaic
=============================================================================
