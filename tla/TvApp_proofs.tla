---------------------------- MODULE TvApp_proofs ----------------------------
(***************************************************************************)
(* Proofs about the TV app.  TvApp: whatever the app does around its       *)
(* player, the player sees nothing but steps of usePlayerControls (so what *)
(* PlayerControls promises holds in the app), the route stack never loses  *)
(* its home, the home screen shows its pages in order, and the scrub       *)
(* thumbnail is cut from inside the mosaic.  HoverPreviews, for any number *)
(* of posters, any gate and any number of moves of the focus: no preview   *)
(* video, request or source outlives the visit of the focus it belongs to. *)
(***************************************************************************)
EXTENDS TvApp, HoverPreviews, PlayerControls_proofs, SequenceTheorems

-----------------------------------------------------------------------------
(* The app implements the hook *)

\* The place of the native video, and a step back or forth of it, is a position.
LEMMA PlaceIsPosition ==
    /\ Length \in Nat /\ 0 \in Position
    /\ \A e \in 0 .. Length + 1 : Least(e, Length) \in Position /\ Least(e, Length) \in 0 .. Length
    /\ \A p \in Position : Least(p, Length) \in 0 .. Length
    /\ Length \in Position
  BY TvAssumption, ControlsAssumption DEF Position, Least

\* What the steps of the app need of the player: types of the hook and the place.
PlayerInv == ControlsTypeOK /\ elem \in 0 .. Length + 1

\* Every step of the app is a step of the hook, or leaves it alone.
LEMMA AppStepsHook == PlayerInv /\ [Next]_vars => [HookNext]_hook
  <1> SUFFICES ASSUME PlayerInv, [Next]_vars PROVE [HookNext]_hook
    OBVIOUS
  <1>1. CASE UNCHANGED vars
    BY <1>1 DEF vars
  <1>2. CASE Render
    BY <1>2 DEF Render, HookNext
  <1>3. CASE \/ MenuPressed \/ OnEnd \/ Play \/ (\E t \in Title : OpenDetail(t))
             \/ LoadMore \/ LibraryPage \/ LibraryFails \/ VideoPlays
    BY <1>3 DEF MenuPressed, OnEnd, Play, OpenDetail, LoadMore, LibraryPage, LibraryFails, VideoPlays
  <1>4. ASSUME NEW i \in 1 .. MaxStack, DetailArrives(i) \/ DetailFails(i) PROVE UNCHANGED hook
    BY <1>4 DEF DetailArrives, DetailFails, DetailAnswers
  <1>5. CASE StreamResolves \/ \E m \in Mosaic : ResolveTrickplay(m)
    BY <1>5 DEF StreamResolves, ResolveTrickplay, HookNext
  <1>6. CASE StreamFails \/ OnError
    <2>1. Dispatch(Shown(state))
      BY <1>6 DEF StreamFails, OnError, ShowsError
    <2>2. CASE Shown(state) = state
      BY <2>1, <2>2 DEF Dispatch, ParentRenders, HookNext
    <2>3. CASE Shown(state) # state
      BY <2>1, <2>3 DEF ShowOverlay, Offer, HookNext
    <2> QED
      BY <2>2, <2>3
  <1>7. ASSUME NEW key \in Key, RemoteKey(key) PROVE HookNext
    BY <1>7 DEF RemoteKey, HookNext
  <1>8. CASE OnLoad
    BY <1>8, PlaceIsPosition DEF OnLoad, HookNext
  <1>9. CASE OnProgress
    BY <1>9, PlaceIsPosition DEF OnProgress, PlayerInv, HookNext
  <1>10. CASE Mounted /\ SeekCommits
    BY <1>10 DEF SeekCommits, HookNext
  <1>11. CASE HookRuns
    BY <1>11 DEF HookRuns, HookNext
  <1> QED
    BY <1>1, <1>2, <1>3, <1>4, <1>5, <1>6, <1>7, <1>8, <1>9, <1>10, <1>11 DEF Next

\* The place stays within the film, its end included.
LEMMA PlayerStep == PlayerInv /\ [Next]_vars => PlayerInv'
  <1> SUFFICES ASSUME PlayerInv, [Next]_vars PROVE PlayerInv'
    OBVIOUS
  <1>0. ControlsTypeOK'
    BY AppStepsHook, ControlsTypeStep DEF PlayerInv
  <1>1. CASE elem' = elem
    BY <1>0, <1>1 DEF PlayerInv
  <1>2. CASE Render
    BY <1>0, <1>2, TvAssumption DEF Render, player, PlayerInv
  <1>3. CASE OnEnd \/ VideoPlays
    BY <1>0, <1>3, TvAssumption DEF OnEnd, VideoPlays, PlayerInv
  <1>4. CASE Mounted /\ SeekCommits
    <2>1. armedFor \in Position
      BY DEF PlayerInv, ControlsTypeOK
    <2> QED
      BY <1>0, <1>4, <2>1, PlaceIsPosition DEF SeekCommits, PlayerInv
  <1>5. elem' = elem \/ Render \/ OnEnd \/ VideoPlays \/ (Mounted /\ SeekCommits)
    BY DEF Next, vars, player, MenuPressed, Play, OpenDetail, LoadMore, LibraryPage, LibraryFails,
           DetailArrives, DetailFails, DetailAnswers, StreamResolves, StreamFails, OnError,
           ShowsError, ResolveTrickplay, RemoteKey, OnLoad, OnProgress, HookRuns
  <1> QED
    BY <1>1, <1>2, <1>3, <1>4, <1>5

\* The player's invariant holds throughout the app.
LEMMA PlayerAlways == Spec => []PlayerInv
  <1>1. Init => PlayerInv
    BY ControlsTypeInit, PlaceIsPosition DEF Init, PlayerInv
  <1> QED
    BY <1>1, PlayerStep, PTL DEF Spec

\* The TV app implements the hook: remote keys, the native video's events, the
\* stream's answers, screens that mount and unmount are all steps of
\* usePlayerControls as its own specification has them.
THEOREM AppImplementsHook == Spec => HookSpec
  <1>1. Init => HookInit
    BY DEF Init
  <1> QED
    BY <1>1, AppStepsHook, PlayerAlways, PTL DEF Spec, HookSpec

\* Hence in the app, whatever the stack and the requests do: the overlay stays
\* up under a scrub,
THEOREM AppScrubIsShown == Spec => []ScrubShown
  BY AppImplementsHook, ScrubIsShown

\* every dialled scrub has its settle timer,
THEOREM AppScrubIsArmed == Spec => []ScrubArmed
  BY AppImplementsHook, ScrubIsArmed

\* and the overlay's hide timer follows the video.
THEOREM AppOverlayHides == Spec => []OverlayWillHide
  BY AppImplementsHook, OverlayHides

-----------------------------------------------------------------------------
(* The route stack *)

\* The stack as its operations need it.
StackInv == stack \in Seq(Route) /\ HomeStays

\* A pop keeps the bottom of the stack: it is checked against the stack of its own time.
LEMMA PoppedKeepsHome ==
    ASSUME StackInv PROVE Popped(stack) \in Seq(Route) /\ Len(Popped(stack)) > 0 /\ Popped(stack)[1] = Home
  <1>1. stack \in Seq(Route) /\ Len(stack) > 0 /\ Len(stack) \in Nat /\ stack[1] = Home
    BY DEF StackInv, HomeStays
  <1>2. CASE Len(stack) > 1
    <2>1. Popped(stack) = SubSeq(stack, 1, Len(stack) - 1)
      BY <1>2 DEF Popped
    <2> QED
      BY <1>1, <1>2, <2>1
  <1>3. CASE ~(Len(stack) > 1)
    BY <1>1, <1>3 DEF Popped
  <1> QED
    BY <1>2, <1>3

\* A push of a route keeps the bottom of the stack.
LEMMA PushKeepsHome ==
    ASSUME StackInv, NEW r \in Route, Push(r) PROVE StackInv'
  <1>1. stack \in Seq(Route) /\ Len(stack) > 0 /\ stack[1] = Home
    BY DEF StackInv, HomeStays
  <1>2. stack' = Append(stack, r)
    BY DEF Push
  <1>3. Append(stack, r) \in Seq(Route) /\ Len(Append(stack, r)) > 0 /\ Append(stack, r)[1] = stack[1]
    BY <1>1
  <1> QED
    BY <1>1, <1>2, <1>3 DEF StackInv, HomeStays

\* Every step of the app keeps the home screen at the bottom.
LEMMA StackStep == StackInv /\ [Next]_vars => StackInv'
  <1> SUFFICES ASSUME StackInv, [Next]_vars PROVE StackInv'
    OBVIOUS
  <1>1. CASE stack' = stack
    BY <1>1 DEF StackInv, HomeStays
  <1>2. CASE MenuPressed \/ OnEnd
    <2>1. stack' = Popped(stack)
      BY <1>2 DEF MenuPressed, OnEnd
    <2> QED
      BY <2>1, PoppedKeepsHome DEF StackInv, HomeStays
  <1>3. ASSUME NEW t \in Title, OpenDetail(t) PROVE StackInv'
    <2>1. Detail(t) \in Route
      BY DEF Route
    <2> QED
      BY <1>3, <2>1, PushKeepsHome DEF OpenDetail
  <1>4. CASE Play
    <2>1. Player(Top(shown).id) \in Route
      BY <1>4 DEF Play, Route
    <2> QED
      BY <1>4, <2>1, PushKeepsHome DEF Play
  <1>5. stack' = stack \/ MenuPressed \/ OnEnd \/ Play \/ (\E t \in Title : OpenDetail(t))
    BY DEF Next, vars, screens, Render, LoadMore, LibraryPage, LibraryFails, VideoPlays,
           DetailArrives, DetailFails, DetailAnswers, StreamResolves, StreamFails, OnError,
           ShowsError, ResolveTrickplay, RemoteKey, OnLoad, OnProgress, SeekCommits, HookRuns
  <1> QED
    BY <1>1, <1>2, <1>3, <1>4, <1>5

\* The home screen stays at the bottom of the stack (NavigationProvider's pop),
\* whichever of the back key and the end of a film saw an older stack.
THEOREM HomeAlwaysStays == Spec => []HomeStays
  <1>1. Init => StackInv
    BY DEF Init, StackInv, HomeStays, Route
  <1>2. StackInv => HomeStays
    BY DEF StackInv
  <1> QED
    BY <1>1, <1>2, StackStep, PTL DEF Spec

-----------------------------------------------------------------------------
(* The home screen's pages *)

\* useLibrary's flags say what is under way: one request, for the page after
\* those on screen, and none beyond the last.
LibraryInv ==
    /\ library \in [items : Seq(Nat), cursor : Nat, exhausted : BOOLEAN, asked : Seq(Nat),
                    inFlight : BOOLEAN, error : BOOLEAN]
    /\ library.cursor = Len(library.items) + 1
    /\ \A i \in 1 .. Len(library.items) : library.items[i] = i
    /\ library.asked = IF library.inFlight THEN <<library.cursor>> ELSE <<>>
    /\ library.exhausted <=> Len(library.items) = Pages
    /\ library.inFlight => ~library.exhausted

\* A page that arrives is the next one.
LEMMA PageAppendedInv ==
    ASSUME LibraryInv, library.asked # <<>>, library' = PageAppended(library) PROVE LibraryInv'
  <1> DEFINE items == library.items
             n == Len(items)
             more == Append(items, n + 1)
  <1>1. items \in Seq(Nat) /\ n \in Nat /\ library.cursor = n + 1 /\ library.inFlight /\ ~library.exhausted
    BY DEF LibraryInv
  <1>2. library.asked = <<n + 1>>
    BY <1>1 DEF LibraryInv
  <1>3. Head(library.asked) = n + 1 /\ Tail(library.asked) = <<>>
    BY <1>1, <1>2
  <1>4. library' = [library EXCEPT !.items = more, !.cursor = n + 2, !.exhausted = (n + 1 = Pages),
                                   !.asked = <<>>, !.inFlight = FALSE, !.error = FALSE]
    <2>1. n + 1 + 1 = n + 2
      BY <1>1
    <2> QED
      BY <1>3, <2>1 DEF PageAppended
  <1>5. more \in Seq(Nat) /\ Len(more) = n + 1 /\ \A i \in 1 .. n + 1 : more[i] = i
    <2>1. \A i \in 1 .. n : items[i] = i
      BY DEF LibraryInv
    <2> HIDE DEF items
    <2> QED
      BY <1>1, <2>1
  <1> HIDE DEF items, n, more
  <1>6. library' \in [items : Seq(Nat), cursor : Nat, exhausted : BOOLEAN, asked : Seq(Nat),
                      inFlight : BOOLEAN, error : BOOLEAN]
    <2>1. <<>> \in Seq(Nat) /\ n + 2 \in Nat /\ (n + 1 = Pages) \in BOOLEAN
      BY <1>1
    <2> QED
      BY <1>4, <1>5, <2>1 DEF LibraryInv
  <1>7. /\ library'.items = more /\ library'.cursor = n + 2 /\ library'.exhausted = (n + 1 = Pages)
        /\ library'.asked = <<>> /\ library'.inFlight = FALSE
    BY <1>4 DEF LibraryInv
  <1> QED
    BY <1>1, <1>5, <1>6, <1>7 DEF LibraryInv

\* Asking for the next page, and a request that fails, keep the flags in step.
LEMMA LibraryAsksInv ==
    ASSUME LibraryInv, LoadMore \/ LibraryFails PROVE LibraryInv'
  <1>1. CASE LoadMore
    <2>1. ~library.inFlight /\ ~library.exhausted /\ library.asked = <<>> /\ library.cursor \in Nat
      BY <1>1 DEF LoadMore, MayLoadMore, LibraryInv
    <2>2. Append(library.asked, library.cursor) = <<library.cursor>>
      BY <2>1
    <2>3. library' = [library EXCEPT !.asked = <<library.cursor>>, !.inFlight = TRUE]
      BY <1>1, <2>2 DEF LoadMore
    <2>4. <<library.cursor>> \in Seq(Nat)
      BY <2>1
    <2> QED
      BY <2>1, <2>3, <2>4 DEF LibraryInv
  <1>2. CASE LibraryFails
    <2>1. library.asked = <<library.cursor>> /\ library.inFlight /\ library.cursor \in Nat
      BY <1>2 DEF LibraryFails, LibraryInv
    <2>2. Tail(library.asked) = <<>> /\ <<>> \in Seq(Nat)
      BY <2>1
    <2>3. library' = [library EXCEPT !.asked = <<>>, !.inFlight = FALSE, !.error = TRUE]
      BY <1>2, <2>2 DEF LibraryFails
    <2> QED
      BY <2>1, <2>2, <2>3 DEF LibraryInv
  <1> QED
    BY <1>1, <1>2

\* Every step of the app keeps LibraryInv.
LEMMA LibraryStep == LibraryInv /\ [Next]_vars => LibraryInv'
  <1> SUFFICES ASSUME LibraryInv, [Next]_vars PROVE LibraryInv'
    OBVIOUS
  <1>1. CASE library' = library
    BY <1>1 DEF LibraryInv
  <1>2. CASE LibraryPage
    BY <1>2, PageAppendedInv DEF LibraryPage
  <1>3. CASE LoadMore \/ LibraryFails
    BY <1>3, LibraryAsksInv
  <1>4. library' = library \/ LibraryPage \/ LoadMore \/ LibraryFails
    BY DEF Next, vars, screens, Render, MenuPressed, OnEnd, Play, OpenDetail, VideoPlays,
           DetailArrives, DetailFails, DetailAnswers, StreamResolves, StreamFails, OnError,
           ShowsError, ResolveTrickplay, RemoteKey, OnLoad, OnProgress, SeekCommits, HookRuns
  <1> QED
    BY <1>1, <1>2, <1>3, <1>4

\* The home screen shows the pages of the library once and in order
\* (useLibrary), for any number of pages, failed requests and events.
THEOREM PagesStayInOrder == Spec => []PagesInOrder
  <1>1. Init => LibraryInv
    BY TvAssumption DEF Init, EmptyLibrary, LibraryInv
  <1>2. LibraryInv => PagesInOrder
    BY DEF LibraryInv, PagesInOrder
  <1> QED
    BY <1>1, <1>2, LibraryStep, PTL DEF Spec

-----------------------------------------------------------------------------
(* The thumbnail *)

\* A tile that starts before the last column or row ends within the mosaic.
LEMMA TileFits ==
    ASSUME NEW i \in Nat, NEW n \in Nat, NEW w \in Nat, i < n
    PROVE  i * w + w <= n * w
  <1>1. PICK k \in Nat : n = i + 1 + k
    <2>1. n - i - 1 \in Nat /\ n = i + 1 + (n - i - 1)
      OBVIOUS
    <2> QED
      BY <2>1
  <1>2. n * w = i * w + w + k * w
    BY <1>1
  <1>3. k * w \in Nat /\ i * w \in Nat
    OBVIOUS
  <1> QED
    BY <1>2, <1>3

\* The row of an index below cols * rows is a row.
LEMMA RowInMosaic ==
    ASSUME NEW index \in Nat, NEW cols \in Nat, NEW rows \in Nat, cols > 0, index < cols * rows
    PROVE  index \div cols \in Nat /\ index \div cols < rows
  <1> DEFINE q == index \div cols
  <1>1. q \in Nat /\ cols * q <= index
    BY SMTT(30)
  <1>2. ASSUME ~(q < rows) PROVE FALSE
    <2> HIDE DEF q
    <2>1. PICK k \in Nat : q = rows + k
      <3>1. q - rows \in Nat /\ q = rows + (q - rows)
        BY <1>1, <1>2
      <3> QED
        BY <3>1
    <2>2. cols * q = cols * rows + cols * k
      BY <1>1, <2>1
    <2>3. cols * k \in Nat /\ cols * rows \in Nat /\ cols * q \in Nat
      BY <1>1
    <2> QED
      BY <1>1, <2>2, <2>3
  <1> QED
    BY <1>1, <1>2

\* The mosaic of the overlay is one a server sent.
LEMMA MosaicStep ==
    trickplay \in Mosaic \cup {NoMosaic} /\ [Next]_vars => trickplay' \in Mosaic \cup {NoMosaic}
  BY DEF Next, vars, screens, player, Render, MenuPressed, OnEnd, Play, OpenDetail, VideoPlays,
         LoadMore, LibraryPage, LibraryFails,
         DetailArrives, DetailFails, DetailAnswers, StreamResolves, StreamFails, OnError,
         ShowsError, ResolveTrickplay, RemoteKey, OnLoad, OnProgress, SeekCommits, HookRuns

\* In a well-typed state the thumbnail shown lies in its mosaic.
LEMMA ThumbInMosaic ==
    ASSUME PlayerInv, trickplay \in Mosaic \cup {NoMosaic}, ThumbShown PROVE TileInMosaic
  <1> DEFINE m == trickplay
             p == DisplayPosition(state)
             last == m.cols * m.rows - 1
             at == p \div m.intervalMs
             index == IF at < last THEN at ELSE last
  <1>1. m \in [intervalMs : Nat, tileW : Nat, tileH : Nat, cols : Nat, rows : Nat]
    BY TvAssumption DEF ThumbShown
  <1>2. m.intervalMs \in Nat /\ m.tileW \in Nat /\ m.tileH \in Nat /\ m.cols \in Nat /\ m.rows \in Nat
    BY <1>1
  <1>3. m.intervalMs # 0 /\ m.cols * m.rows # 0
    BY DEF ThumbShown, Degenerate, TileCount
  <1>4. p \in Nat
    BY ControlsAssumption DEF PlayerInv, ControlsTypeOK, State, Position, DisplayPosition, Scrubbing
  <1>5. Thumb = [x |-> (index % m.cols) * m.tileW, y |-> (index \div m.cols) * m.tileH]
    BY DEF Thumb, TileForPosition, TileCount, Least
  <1> HIDE DEF m, p
  <1>6. at \in Nat
    BY <1>2, <1>3, <1>4
  <1>7. m.cols * m.rows \in Nat /\ m.cols > 0
    <2>1. m.cols * m.rows \in Nat
      BY <1>2
    <2>2. m.cols # 0
      BY <1>2, <1>3
    <2> QED
      BY <1>2, <2>1, <2>2
  <1>8. last \in Nat
    BY <1>3, <1>7
  <1>9. index \in Nat /\ index < m.cols * m.rows
    <2> HIDE DEF at
    <2>1. CASE at < last
      BY <1>6, <1>7, <2>1
    <2>2. CASE ~(at < last)
      BY <1>7, <1>8, <2>2
    <2> QED
      BY <2>1, <2>2
  <1> HIDE DEF index
  <1>10. index % m.cols \in Nat /\ index % m.cols < m.cols
    BY <1>2, <1>7, <1>9
  <1>11. index \div m.cols \in Nat /\ index \div m.cols < m.rows
    BY <1>2, <1>7, <1>9, RowInMosaic
  <1>12. (index % m.cols) * m.tileW + m.tileW <= m.cols * m.tileW
    BY <1>2, <1>10, TileFits
  <1>13. (index \div m.cols) * m.tileH + m.tileH <= m.rows * m.tileH
    BY <1>2, <1>11, TileFits
  <1>14. Thumb.x = (index % m.cols) * m.tileW /\ Thumb.y = (index \div m.cols) * m.tileH
    BY <1>5
  <1> QED
    BY <1>12, <1>13, <1>14 DEF TileInMosaic, m

\* The scrub thumbnail lies inside the mosaic (tileForPosition), for every
\* geometry a server sends and every place a scrub reaches, past the last tile too.
THEOREM TileAlwaysInMosaic == Spec => []TileInMosaic
  <1> DEFINE Typed == trickplay \in Mosaic \cup {NoMosaic}
  <1>1. Init => Typed
    BY DEF Init
  <1>2. Typed /\ [Next]_vars => Typed'
    BY MosaicStep
  <1>3. PlayerInv /\ Typed => TileInMosaic
    BY ThumbInMosaic DEF TileInMosaic
  <1> QED
    BY <1>1, <1>2, <1>3, PlayerAlways, PTL DEF Spec

-----------------------------------------------------------------------------
\* Together: the player of the app keeps what the hook promises,
THEOREM AppControlsAreTrue == Spec => []ControlsTrue
  BY AppImplementsHook, ControlsAreTrue

\* and routes (RouteStack), pages (useLibrary) and tiles (tileForPosition) are
\* within what there is, each in its order.
THEOREM ScreensStayInOrder == Spec => []ScreensInOrder
  BY HomeAlwaysStays, PagesStayInOrder, TileAlwaysInMosaic, PTL DEF ScreensInOrder

-----------------------------------------------------------------------------
(* Types *)

\* The rest of the app's types; the listing is no longer than the library.
ScreensTyped ==
    /\ shown \in Seq(Route) /\ Len(library.items) <= Pages
    /\ detail \in [1 .. MaxStack -> Fetch]
    /\ phase \in Phase /\ trickplay \in Mosaic \cup {NoMosaic}
    /\ keys \in 0 .. MaxKeys /\ faults \in 0 .. MaxFaults

\* Screens render what the stack says, with the details they had or fetch afresh.
LEMMA RenderTyped == ASSUME StackInv, ScreensTyped, Render PROVE ScreensTyped'
  <1>1. shown' = stack /\ library' = library /\ faults' = faults
    BY DEF Render
  <1>2. \A i \in 1 .. MaxStack : detail[i] \in Fetch
    BY DEF ScreensTyped
  <1>3. detail' \in [1 .. MaxStack -> Fetch]
    <2>1. detail' = [i \in 1 .. MaxStack |->
                       IF i > Len(stack) THEN "none"
                       ELSE IF stack[i].name # "Detail" THEN "none"
                       ELSE IF KeepsScreen(i) THEN detail[i] ELSE "loading"]
      BY DEF Render
    <2> QED
      BY <1>2, <2>1 DEF Fetch
  <1>4. UNCHANGED <<phase, trickplay, keys>>
        \/ (keys' = 0 /\ phase' \in {"loading", "unmounted"} /\ trickplay' = NoMosaic)
    BY DEF Render, player
  <1>5. 0 \in 0 .. MaxKeys
    BY TvAssumption
  <1> QED
    BY <1>1, <1>3, <1>4, <1>5 DEF ScreensTyped, StackInv, Phase

\* A page that arrives is one the library has: the request for it was not sent
\* beyond the last.
LEMMA ListingBounded ==
    ASSUME LibraryInv, Len(library.items) <= Pages, [Next]_vars PROVE Len(library'.items) <= Pages
  <1>1. CASE library' = library
    BY <1>1
  <1>2. CASE LibraryPage
    <2>1. library' = PageAppended(library) /\ library.asked # <<>>
      BY <1>2 DEF LibraryPage
    <2>2. library.items \in Seq(Nat) /\ Len(library.items) \in Nat /\ Len(library.items) # Pages
      BY <2>1 DEF LibraryInv
    <2>3. library'.items = Append(library.items, Head(library.asked))
      BY <2>1 DEF PageAppended, LibraryInv
    <2>4. Len(library'.items) = Len(library.items) + 1
      BY <2>2, <2>3
    <2> QED
      BY <2>2, <2>4, TvAssumption
  <1>3. CASE LoadMore \/ LibraryFails
    <2>1. library'.items = library.items
      BY <1>3 DEF LoadMore, LibraryFails, LibraryInv
    <2> QED
      BY <2>1
  <1>4. library' = library \/ LibraryPage \/ LoadMore \/ LibraryFails
    BY DEF Next, vars, screens, Render, MenuPressed, OnEnd, Play, OpenDetail, VideoPlays,
           DetailArrives, DetailFails, DetailAnswers, StreamResolves, StreamFails, OnError,
           ShowsError, ResolveTrickplay, RemoteKey, OnLoad, OnProgress, SeekCommits, HookRuns
  <1> QED
    BY <1>1, <1>2, <1>3, <1>4

LEMMA ScreensStep == StackInv /\ LibraryInv /\ ScreensTyped /\ [Next]_vars => ScreensTyped'
  <1> SUFFICES ASSUME StackInv, LibraryInv, ScreensTyped, [Next]_vars PROVE ScreensTyped'
    OBVIOUS
  <1>1. Len(library'.items) <= Pages
    BY ListingBounded DEF ScreensTyped
  <1>2. MaxKeys \in Nat /\ MaxFaults \in Nat
    BY TvAssumption
  <1>3. trickplay' \in Mosaic \cup {NoMosaic}
    BY MosaicStep DEF ScreensTyped
  <1>4. CASE Render
    BY <1>4, RenderTyped
  <1>5. CASE UNCHANGED <<shown, detail, phase, keys>> /\ (faults' = faults \/ Fault)
    BY <1>1, <1>2, <1>3, <1>5 DEF ScreensTyped, Fault
  <1>6. CASE UNCHANGED vars
    BY <1>5, <1>6 DEF vars, screens, player
  <1>7. CASE MenuPressed \/ OnEnd \/ Play \/ (\E t \in Title : OpenDetail(t)) \/ LoadMore \/ LibraryPage \/ LibraryFails
    BY <1>5, <1>7 DEF MenuPressed, OnEnd, Play, OpenDetail, LoadMore, LibraryPage, LibraryFails, player
  <1>8. ASSUME NEW i \in 1 .. MaxStack, DetailArrives(i) \/ DetailFails(i) PROVE ScreensTyped'
    <2>1. \E a \in Fetch : detail' = [detail EXCEPT ![i] = a]
      BY <1>8 DEF DetailArrives, DetailFails, DetailAnswers, Fetch
    <2>2. UNCHANGED <<shown, phase, keys>> /\ (faults' = faults \/ Fault)
      BY <1>8 DEF DetailArrives, DetailFails, DetailAnswers, player
    <2> QED
      BY <1>1, <1>2, <1>3, <2>1, <2>2 DEF ScreensTyped, Fault
  <1>9. CASE StreamResolves \/ StreamFails \/ OnError
    <2>1. phase' \in Phase /\ UNCHANGED <<shown, detail, keys>> /\ (faults' = faults \/ Fault)
      BY <1>9 DEF StreamResolves, StreamFails, OnError, ShowsError, screens, Phase
    <2> QED
      BY <1>1, <1>2, <1>3, <2>1 DEF ScreensTyped, Fault
  <1>10. CASE \E m \in Mosaic : ResolveTrickplay(m)
    BY <1>5, <1>10 DEF ResolveTrickplay, screens
  <1>11. CASE \E key \in Key : RemoteKey(key)
    BY <1>1, <1>2, <1>3, <1>11 DEF RemoteKey, screens, player, ScreensTyped
  <1>12. CASE OnLoad \/ OnProgress \/ VideoPlays \/ (Mounted /\ SeekCommits) \/ HookRuns
    BY <1>5, <1>12 DEF OnLoad, OnProgress, VideoPlays, SeekCommits, HookRuns, screens, player
  <1> QED
    BY <1>4, <1>6, <1>7, <1>8, <1>9, <1>10, <1>11, <1>12 DEF Next

\* What is on screen, and what is asked for, are pages of the library.
LEMMA LibraryTyped ==
    ASSUME LibraryInv, Len(library.items) <= Pages
    PROVE  library \in [items : Seq(1 .. Pages), cursor : 1 .. Pages + 1, exhausted : BOOLEAN,
                        asked : Seq(1 .. Pages), inFlight : BOOLEAN, error : BOOLEAN]
  <1> DEFINE items == library.items
             n == Len(items)
  <1>1. items \in Seq(Nat) /\ n \in Nat /\ n <= Pages /\ Pages \in Nat /\ \A i \in 1 .. n : items[i] = i
    BY TvAssumption DEF LibraryInv
  <1>2. \A i \in 1 .. n : items[i] \in 1 .. Pages
    <2> HIDE DEF items, n
    <2> QED
      BY <1>1
  <1>3. items \in Seq(1 .. Pages)
    <2>1. items \in [1 .. n -> Nat]
      BY <1>1
    <2> HIDE DEF items, n
    <2>2. items \in [1 .. n -> 1 .. Pages]
      BY <1>2, <2>1
    <2> QED
      BY <1>1, <2>2
  <1>4. library.cursor \in 1 .. Pages + 1
    BY <1>1 DEF LibraryInv
  <1>5. library.asked \in Seq(1 .. Pages)
    <2>1. CASE library.inFlight
      <3>1. n # Pages /\ library.cursor = n + 1 /\ library.asked = <<library.cursor>>
        BY <2>1 DEF LibraryInv
      <3>2. library.cursor \in 1 .. Pages
        BY <1>1, <3>1
      <3> QED
        BY <3>1, <3>2
    <2>2. CASE ~library.inFlight
      BY <2>2 DEF LibraryInv
    <2> QED
      BY <2>1, <2>2
  <1> QED
    BY <1>3, <1>4, <1>5 DEF LibraryInv

\* Routes, library, details and player are well formed, positions within the
\* film: for stacks of any height, libraries of any length and any number of
\* keys and faults.
THEOREM AppAlwaysTyped == Spec => []TvTypeOK
  <1>1. Init => StackInv /\ LibraryInv /\ ScreensTyped
    BY TvAssumption DEF Init, StackInv, HomeStays, Route, EmptyLibrary, LibraryInv, ScreensTyped, Fetch, Phase
  <1>2. PlayerInv /\ StackInv /\ LibraryInv /\ ScreensTyped => TvTypeOK
    BY LibraryTyped DEF PlayerInv, StackInv, ScreensTyped, TvTypeOK
  <1> QED
    BY <1>1, <1>2, StackStep, LibraryStep, ScreensStep, PlayerAlways, PTL DEF Spec

-----------------------------------------------------------------------------
(* The hover previews *)

\* What makes the properties inductive, tile by tile: only the focused, mounted
\* tile is past the image; its gate has run exactly as long as the focus has
\* dwelt; and a source is that of this visit.
TileInv(t) ==
    /\ machine[t].st \in Showing => focus = t /\ t \in mounted
    /\ machine[t].st \notin Showing => machine[t].url = NoUrl
    /\ machine[t].st = "cannotMoveOn" => machine[t].timer + dwell = Gate
    /\ machine[t].st \in {"canMoveOn", "playing"} => dwell = Gate
    /\ machine[t].url # NoUrl => machine[t].url = machine[t].attempt

\* Request by request: one that still counts is that of this visit and has no
\* source yet; one that was aborted is of an earlier visit.
RequestInv(r) ==
    /\ r.attempt <= moves
    /\ ~r.aborted => /\ machine[r.tile].st \in Showing /\ machine[r.tile].attempt = r.attempt
                     /\ machine[r.tile].url = NoUrl
    /\ r.aborted /\ machine[r.tile].st \in Showing => machine[r.tile].attempt # r.attempt

HoverInv ==
    /\ HoverTypeOK
    /\ \A t \in Tile : TileInv(t)
    /\ \A r \in requests : RequestInv(r)

\* The states of a machine, and the numbers around it.
LEMMA HoverFacts ==
    /\ Tile \subseteq Nat \ {0} /\ 1 \in Tile /\ Hero \notin Tile /\ Gate \in Nat \ {0} /\ MaxMoves \in Nat
    /\ Attempt \subseteq Nat /\ NoUrl \in Attempt /\ NoTimer \in {NoTimer} \cup 0 .. Gate
  BY HoverAssumption DEF Tile, Hero, Attempt, NoUrl

\* What each transition makes of a machine.
LEMMA Transitions ==
    ASSUME NEW m \in Machine, moves \in 0 .. MaxMoves
    PROVE  /\ Fresh \in Machine /\ Fresh.st \notin Showing /\ Fresh.url = NoUrl /\ Fresh.timer = NoTimer
           /\ Idle(m) \in Machine /\ Idle(m).st = "idle" /\ Idle(m).url = NoUrl
              /\ Idle(m).timer = NoTimer /\ Idle(m).attempt = m.attempt
           /\ Blurred(m) \in Machine
           /\ m.st \in Showing => Blurred(m) = Idle(m)
           /\ m.st \notin Showing => Blurred(m) = m
           /\ m.st # "idle" => Focused(m) = m
           /\ moves < MaxMoves /\ m.st = "idle" =>
                 Focused(m) \in Machine /\ Focused(m).st = "cannotMoveOn"
                 /\ Focused(m).timer = Gate /\ Focused(m).attempt = moves + 1 /\ Focused(m).url = m.url
  <1>1. Fresh \in Machine /\ Fresh.st \notin Showing /\ Fresh.url = NoUrl /\ Fresh.timer = NoTimer
    BY HoverFacts DEF Fresh, Machine, MachineState, Showing, Loading, Attempt, NoUrl
  <1>2. /\ Idle(m) \in Machine /\ Idle(m).st = "idle" /\ Idle(m).url = NoUrl
        /\ Idle(m).timer = NoTimer /\ Idle(m).attempt = m.attempt
    BY HoverFacts DEF Idle, Machine, MachineState
  <1>3. (m.st \in Showing => Blurred(m) = Idle(m)) /\ (m.st \notin Showing => Blurred(m) = m)
    BY DEF Blurred
  <1>4. Blurred(m) \in Machine
    BY <1>2, <1>3
  <1>5. m.st # "idle" => Focused(m) = m
    BY DEF Focused
  <1>6. ASSUME moves < MaxMoves, m.st = "idle"
        PROVE  Focused(m) \in Machine /\ Focused(m).st = "cannotMoveOn"
               /\ Focused(m).timer = Gate /\ Focused(m).attempt = moves + 1 /\ Focused(m).url = m.url
    <2>1. Focused(m) = [m EXCEPT !.st = "cannotMoveOn", !.attempt = moves + 1, !.timer = Gate]
      BY <1>6 DEF Focused
    <2>2. moves + 1 \in Attempt /\ Gate \in 0 .. Gate
      BY <1>6, HoverFacts DEF Attempt
    <2> QED
      BY <2>1, <2>2 DEF Machine, MachineState
  <1> QED
    BY <1>1, <1>2, <1>3, <1>4, <1>5, <1>6

\* Initially the invariant holds.
LEMMA HoverStarts == HoverInit => HoverInv
  <1> SUFFICES ASSUME HoverInit PROVE HoverInv
    OBVIOUS
  <1>1. \A t \in Tile : machine[t] = Fresh
    BY DEF HoverInit
  <1>2. Fresh \in Machine /\ Fresh.st \notin Showing /\ Fresh.url = NoUrl
    BY HoverFacts DEF Fresh, Machine, MachineState, Showing, Loading, Attempt, NoUrl
  <1>3. Fresh.st \notin {"cannotMoveOn", "canMoveOn", "playing"}
    BY DEF Fresh
  <1>4. HoverTypeOK
    <2>1. machine \in [Tile -> Machine]
      BY <1>2 DEF HoverInit
    <2>2. 0 \in 0 .. Gate /\ 0 \in 0 .. MaxMoves /\ 0 \in 0 .. MaxClipFaults
      BY HoverAssumption
    <2> QED
      BY <2>1, <2>2 DEF HoverInit, HoverTypeOK
  <1>5. \A t \in Tile : TileInv(t)
    BY <1>1, <1>2, <1>3 DEF TileInv
  <1>6. requests = {}
    BY DEF HoverInit
  <1> QED
    BY <1>4, <1>5, <1>6 DEF HoverInv

\* A step of one tile that is not past its image and stays so, or that leaves
\* the requests it waits for alone.
LEMMA OneTile ==
    ASSUME HoverInv, NEW t \in Tile, NEW m \in Machine, machine' = [machine EXCEPT ![t] = m],
           UNCHANGED <<focus, dwell, moves>>, mounted' \subseteq Tile,
           \A u \in Tile \ {t} : u \in mounted => u \in mounted',
           requests' \subseteq requests, TileInv(t)',
           \A r \in requests' : r.tile = t => RequestInv(r)',
           registered' \in BOOLEAN, active' \in BOOLEAN, deaf' \in BOOLEAN, broken' \in BOOLEAN, clipFaults' \in 0 .. MaxClipFaults
    PROVE  HoverInv'
  <1>1. machine \in [Tile -> Machine] /\ requests \subseteq Request
    BY DEF HoverInv, HoverTypeOK
  <1>2. machine' \in [Tile -> Machine] /\ \A u \in Tile \ {t} : machine'[u] = machine[u]
    BY <1>1
  <1>3. HoverTypeOK'
    BY <1>1, <1>2 DEF HoverInv, HoverTypeOK
  <1>4. \A u \in Tile \ {t} : TileInv(u)'
    BY <1>2 DEF HoverInv, TileInv
  <1>5. \A r \in requests' : r.tile # t => RequestInv(r)'
    <2> SUFFICES ASSUME NEW r \in requests', r.tile # t PROVE RequestInv(r)'
      OBVIOUS
    <2>1. r \in requests /\ r.tile \in Tile \ {t}
      BY <1>1 DEF Request
    <2> QED
      BY <1>2, <2>1 DEF HoverInv, RequestInv
  <1> QED
    BY <1>3, <1>4, <1>5 DEF HoverInv

-----------------------------------------------------------------------------
(* The steps that leave the focus where it is *)

\* The list renders its row: every tile keeps its machine.
LEMMA RowMountsKeeps == HoverInv /\ RowMounts => HoverInv'
  <1> SUFFICES ASSUME HoverInv, RowMounts PROVE HoverInv'
    OBVIOUS
  <1>1. UNCHANGED <<machine, requests, focus, active, dwell, deaf, broken, moves, clipFaults>>
        /\ mounted' = Tile /\ registered' = TRUE
    BY DEF RowMounts
  <1>2. HoverTypeOK'
    BY <1>1 DEF HoverInv, HoverTypeOK
  <1>3. \A t \in Tile : TileInv(t)'
    BY <1>1 DEF HoverInv, TileInv
  <1>4. \A r \in requests' : RequestInv(r)'
    BY <1>1 DEF HoverInv, RequestInv
  <1> QED
    BY <1>2, <1>3, <1>4 DEF HoverInv

\* The stack covers the home or uncovers it: no tile hears of it.
LEMMA CoveredKeeps == HoverInv /\ Covered => HoverInv'
  <1> SUFFICES ASSUME HoverInv, Covered PROVE HoverInv'
    OBVIOUS
  <1>1. UNCHANGED <<machine, requests, mounted, focus, registered, dwell, deaf, broken, moves, clipFaults>>
        /\ active' \in BOOLEAN
    BY DEF Covered
  <1>2. HoverTypeOK'
    BY <1>1 DEF HoverInv, HoverTypeOK
  <1>3. \A t \in Tile : TileInv(t)'
    BY <1>1 DEF HoverInv, TileInv
  <1>4. \A r \in requests' : RequestInv(r)'
    BY <1>1 DEF HoverInv, RequestInv
  <1> QED
    BY <1>2, <1>3, <1>4 DEF HoverInv

\* A tile away from the focus unmounts: it was not showing anything.
LEMMA TileUnmountsKeeps == ASSUME NEW t \in Tile, HoverInv, TileUnmounts(t) PROVE HoverInv'
  <1>1. /\ mounted' = mounted \ {t} /\ machine' = [machine EXCEPT ![t] = Fresh] /\ t < focus - 1
        /\ UNCHANGED <<requests, focus, registered, active, dwell, deaf, broken, moves, clipFaults>>
    BY DEF TileUnmounts
  <1>2. t # focus /\ machine[t].st \notin Showing
    BY <1>1, HoverFacts DEF HoverInv, TileInv, HoverTypeOK, Tile
  <1>3. /\ machine \in [Tile -> Machine] /\ machine'[t] = Fresh
        /\ Fresh \in Machine /\ Fresh.st \notin Showing /\ Fresh.url = NoUrl
    BY <1>1, HoverFacts DEF HoverInv, HoverTypeOK, Fresh, Machine, MachineState, Showing, Loading, Attempt, NoUrl
  <1>4. TileInv(t)'
    BY <1>3 DEF TileInv, Showing, Loading
  <1>5. \A r \in requests' : r.tile = t => RequestInv(r)'
    BY <1>1, <1>2, <1>3 DEF HoverInv, RequestInv
  <1> QED
    BY <1>1, <1>3, <1>4, <1>5, OneTile DEF HoverInv, HoverTypeOK

\* A tile near the focus mounts again.
LEMMA TileMountsKeeps == ASSUME NEW t \in Tile, HoverInv, TileMounts(t) PROVE HoverInv'
  <1>1. mounted' = mounted \cup {t}
        /\ UNCHANGED <<machine, requests, focus, registered, active, dwell, deaf, broken, moves, clipFaults>>
    BY DEF TileMounts
  <1>2. HoverTypeOK'
    BY <1>1 DEF HoverInv, HoverTypeOK
  <1>3. \A u \in Tile : TileInv(u)'
    BY <1>1 DEF HoverInv, TileInv
  <1>4. \A r \in requests' : RequestInv(r)'
    BY <1>1 DEF HoverInv, RequestInv
  <1> QED
    BY <1>2, <1>3, <1>4 DEF HoverInv

\* Machine updates that keep what the invariant says of one tile.
LEMMA ImageLoadsKeeps == ASSUME NEW t \in Tile, HoverInv, ImageLoads(t) PROVE HoverInv'
  <1> DEFINE m == [machine[t] EXCEPT !.st = "idle"]
  <1>1. /\ machine' = [machine EXCEPT ![t] = m] /\ machine[t].st = "awaitingBackgroundImageLoad"
        /\ UNCHANGED <<requests, mounted, focus, registered, active, dwell, deaf, broken, moves, clipFaults>>
    BY DEF ImageLoads
  <1>2. machine \in [Tile -> Machine] /\ machine[t] \in Machine
    BY DEF HoverInv, HoverTypeOK
  <1>3. m \in Machine /\ m.st = "idle" /\ m.url = machine[t].url
    BY <1>2 DEF Machine, MachineState
  <1>4. machine[t].st \notin Showing /\ m.st \notin Showing
    BY <1>1, <1>3 DEF Showing, Loading
  <1> HIDE DEF m
  <1>5. machine'[t] = m
    BY <1>1, <1>2
  <1>6. m.url = NoUrl
    BY <1>3, <1>4 DEF HoverInv, TileInv
  <1>7. TileInv(t)'
    BY <1>3, <1>4, <1>5, <1>6 DEF TileInv
  <1>8. \A r \in requests' : r.tile = t => RequestInv(r)'
    BY <1>1, <1>4, <1>5 DEF HoverInv, RequestInv
  <1> QED
    BY <1>1, <1>3, <1>7, <1>8, OneTile DEF HoverInv, HoverTypeOK

\* The gate opens when its timer is over: the focus has dwelt the whole gate.
LEMMA GateOpensKeeps == ASSUME NEW t \in Tile, HoverInv, GateOpens(t) PROVE HoverInv'
  <1> DEFINE m == [machine[t] EXCEPT !.st = "canMoveOn", !.timer = NoTimer]
  <1>2. machine \in [Tile -> Machine] /\ machine[t] \in Machine
    BY DEF HoverInv, HoverTypeOK
  <1>1. /\ machine' = [machine EXCEPT ![t] = m] /\ machine[t].st = "cannotMoveOn" /\ machine[t].timer = 0
        /\ UNCHANGED <<requests, mounted, focus, registered, active, dwell, deaf, broken, moves, clipFaults>>
    BY <1>2 DEF GateOpens
  <1>3. m \in Machine /\ m.st = "canMoveOn" /\ m.url = machine[t].url /\ m.attempt = machine[t].attempt
    BY <1>2 DEF Machine, MachineState
  <1>4. machine[t].st \in Showing /\ m.st \in Showing
    BY <1>1, <1>3 DEF Showing, Loading
  <1> HIDE DEF m
  <1>5. machine'[t] = m
    BY <1>1, <1>2
  <1>6. dwell = Gate
    BY <1>1, HoverFacts DEF HoverInv, TileInv, HoverTypeOK
  <1>7. TileInv(t)'
    BY <1>1, <1>3, <1>4, <1>5, <1>6 DEF HoverInv, TileInv
  <1>8. \A r \in requests' : r.tile = t => RequestInv(r)'
    BY <1>1, <1>3, <1>4, <1>5 DEF HoverInv, RequestInv
  <1> QED
    BY <1>1, <1>3, <1>7, <1>8, OneTile DEF HoverInv, HoverTypeOK

\* A mounted video loads and plays what it was mounted with.
LEMMA VideoLoadsKeeps == ASSUME NEW t \in Tile, HoverInv, VideoLoads(t) PROVE HoverInv'
  <1> DEFINE m == [machine[t] EXCEPT !.st = "playing"]
  <1>2. machine \in [Tile -> Machine] /\ machine[t] \in Machine
    BY DEF HoverInv, HoverTypeOK
  <1>1. /\ machine' = [machine EXCEPT ![t] = m] /\ machine[t].st = "canMoveOn"
        /\ UNCHANGED <<requests, mounted, focus, registered, active, dwell, deaf, broken, moves, clipFaults>>
    BY DEF VideoLoads
  <1>3. m \in Machine /\ m.st = "playing" /\ m.url = machine[t].url /\ m.attempt = machine[t].attempt
    BY <1>2 DEF Machine, MachineState
  <1>4. machine[t].st \in Showing /\ m.st \in Showing
    BY <1>1, <1>3 DEF Showing, Loading
  <1> HIDE DEF m
  <1>5. machine'[t] = m
    BY <1>1, <1>2
  <1>7. TileInv(t)'
    BY <1>1, <1>3, <1>4, <1>5 DEF HoverInv, TileInv
  <1>8. \A r \in requests' : r.tile = t => RequestInv(r)'
    BY <1>1, <1>3, <1>4, <1>5 DEF HoverInv, RequestInv
  <1> QED
    BY <1>1, <1>3, <1>7, <1>8, OneTile DEF HoverInv, HoverTypeOK

\* A clip that fails falls back to the image; its request was answered before
\* the video could be mounted.
LEMMA VideoFailsKeeps == ASSUME NEW t \in Tile, HoverInv, VideoFails(t) PROVE HoverInv'
  <1> DEFINE m == Idle(machine[t])
  <1>1. /\ machine' = [machine EXCEPT ![t] = m] /\ ShouldMountVideo(t)
        /\ clipFaults < MaxClipFaults /\ clipFaults' = clipFaults + 1 /\ broken' = TRUE
        /\ UNCHANGED <<requests, mounted, focus, registered, active, dwell, deaf, moves>>
    BY DEF VideoFails, PreviewFault
  <1>2. machine \in [Tile -> Machine] /\ machine[t] \in Machine /\ moves \in 0 .. MaxMoves
    BY DEF HoverInv, HoverTypeOK
  <1>3. m \in Machine /\ m.st = "idle" /\ m.url = NoUrl
    BY <1>2, Transitions
  <1> HIDE DEF m
  <1>4. m.st \notin Showing /\ machine[t].st \in Showing
    BY <1>1, <1>3 DEF ShouldMountVideo, Showing, Loading
  <1>5. machine'[t] = m
    BY <1>1, <1>2
  <1>6. clipFaults' \in 0 .. MaxClipFaults
    BY <1>1, HoverAssumption DEF HoverInv, HoverTypeOK
  <1>7. TileInv(t)'
    BY <1>3, <1>4, <1>5 DEF TileInv
  <1>8. \A r \in requests' : r.tile = t => RequestInv(r)'
    BY <1>1, <1>4, <1>5 DEF HoverInv, RequestInv, ShouldMountVideo
  <1> QED
    BY <1>1, <1>3, <1>6, <1>7, <1>8, OneTile DEF HoverInv, HoverTypeOK

\* The request that counts is the only one of its tile that was not aborted.
LEMMA OthersAborted ==
    ASSUME NEW r \in requests, HoverInv, AnswersCurrent(r), requests' = requests \ {r}
    PROVE  /\ machine[r.tile].st \in Loading /\ machine[r.tile].st \in Showing
           /\ machine[r.tile].attempt = r.attempt
           /\ \A q \in requests' : q.tile = r.tile => q.aborted
  <1>1. requests \subseteq Request /\ r.tile \in Tile /\ r.aborted \in BOOLEAN
    BY DEF HoverInv, HoverTypeOK, Request
  <1>2. machine[r.tile].st \in Loading /\ machine[r.tile].st \in Showing /\ machine[r.tile].attempt = r.attempt
    BY DEF AnswersCurrent, Showing
  <1>3. ~r.aborted
    BY <1>1, <1>2 DEF HoverInv, RequestInv
  <1>4. \A q \in requests' : q.tile = r.tile => q.aborted
    <2> SUFFICES ASSUME NEW q \in requests', q.tile = r.tile, ~q.aborted PROVE FALSE
      BY <1>1 DEF Request
    <2>1. q \in requests /\ q # r /\ q.attempt = r.attempt
      BY <1>2 DEF HoverInv, RequestInv
    <2>2. q = r
      BY <1>1, <1>3, <2>1 DEF Request
    <2> QED
      BY <2>1, <2>2
  <1> QED
    BY <1>2, <1>4

\* Without a clip, or after a failure, the tile that waits falls back to its image.
LEMMA FallsBack ==
    ASSUME NEW r \in requests, HoverInv, AnswersCurrent(r), requests' = requests \ {r},
           machine' = [machine EXCEPT ![r.tile] = Idle(@)],
           UNCHANGED <<mounted, focus, registered, active, dwell, deaf, moves>>,
           broken' \in BOOLEAN, clipFaults' \in 0 .. MaxClipFaults
    PROVE  HoverInv'
  <1> DEFINE t == r.tile
             m == Idle(machine[t])
  <1>1. /\ machine \in [Tile -> Machine] /\ moves \in 0 .. MaxMoves /\ mounted \subseteq Tile
        /\ registered \in BOOLEAN /\ active \in BOOLEAN /\ deaf \in BOOLEAN
        /\ t \in Tile /\ machine[t] \in Machine
    BY DEF HoverInv, HoverTypeOK, Request
  <1>2. machine' = [machine EXCEPT ![t] = m]
    OBVIOUS
  <1>3. m \in Machine /\ m.st = "idle" /\ m.url = NoUrl
    BY <1>1, Transitions
  <1> HIDE DEF m
  <1>4. machine'[t] = m /\ m.st \notin Showing
    BY <1>1, <1>2, <1>3 DEF Showing, Loading
  <1>5. TileInv(t)'
    BY <1>3, <1>4 DEF TileInv
  <1>6. \A q \in requests' : q.tile = t => RequestInv(q)'
    BY <1>4, OthersAborted DEF HoverInv, RequestInv
  <1> HIDE DEF t
  <1> QED
    BY <1>1, <1>2, <1>3, <1>5, <1>6, OneTile

\* An answer: it is for the tile only when its request was not aborted, and
\* then no other request of the tile counts.
LEMMA RequestAnsweredKeeps == ASSUME NEW r \in requests, HoverInv, RequestAnswered(r) PROVE HoverInv'
  <1> DEFINE t == r.tile
  <1>1. /\ requests' = requests \ {r}
        /\ UNCHANGED <<mounted, focus, registered, active, dwell, deaf, broken, moves, clipFaults>>
    BY DEF RequestAnswered
  <1>2. /\ machine \in [Tile -> Machine] /\ moves \in 0 .. MaxMoves /\ requests \subseteq Request
        /\ mounted \subseteq Tile
        /\ registered \in BOOLEAN /\ active \in BOOLEAN /\ deaf \in BOOLEAN /\ broken \in BOOLEAN
        /\ clipFaults \in 0 .. MaxClipFaults
    BY DEF HoverInv, HoverTypeOK
  <1>3. t \in Tile /\ machine[t] \in Machine /\ r.attempt \in Attempt /\ r.aborted \in BOOLEAN
    BY <1>2 DEF Request
  <1>4. CASE ~AnswersCurrent(r)
    <2>1. machine' = machine
      BY <1>4 DEF RequestAnswered
    <2>2. HoverTypeOK'
      BY <1>1, <2>1 DEF HoverInv, HoverTypeOK
    <2>3. \A u \in Tile : TileInv(u)'
      BY <1>1, <2>1 DEF HoverInv, TileInv
    <2>4. \A q \in requests' : RequestInv(q)'
      BY <1>1, <2>1 DEF HoverInv, RequestInv
    <2> QED
      BY <2>2, <2>3, <2>4 DEF HoverInv
  <1>5. CASE AnswersCurrent(r) /\ r.tile \in Clip
    <2> DEFINE m == [machine[t] EXCEPT !.url = r.attempt]
    <2>0. /\ machine[t].st \in Showing /\ machine[t].attempt = r.attempt
          /\ \A q \in requests' : q.tile = t => q.aborted
      BY <1>1, <1>5, OthersAborted
    <2>1. machine' = [machine EXCEPT ![t] = m]
      BY <1>2, <1>5 DEF RequestAnswered
    <2>2. m \in Machine /\ m.st = machine[t].st /\ m.attempt = machine[t].attempt
          /\ m.timer = machine[t].timer /\ m.url = r.attempt
      BY <1>3 DEF Machine
    <2> HIDE DEF m
    <2>3. machine'[t] = m
      BY <1>2, <1>3, <2>1
    <2>4. TileInv(t)'
      BY <1>1, <1>3, <2>0, <2>2, <2>3 DEF HoverInv, TileInv
    <2>5. \A q \in requests' : q.tile = t => RequestInv(q)'
      BY <1>1, <2>0, <2>2, <2>3 DEF HoverInv, RequestInv
    <2> HIDE DEF t
    <2> QED
      BY <1>1, <1>2, <1>3, <2>1, <2>2, <2>4, <2>5, OneTile
  <1>6. CASE AnswersCurrent(r) /\ r.tile \notin Clip
    BY <1>1, <1>2, <1>6, FallsBack DEF RequestAnswered
  <1> QED
    BY <1>4, <1>5, <1>6

\* A request that fails is one the tile waits for.
LEMMA RequestFailsKeeps == ASSUME NEW r \in requests, HoverInv, RequestFails(r) PROVE HoverInv'
  <1>1. clipFaults' \in 0 .. MaxClipFaults /\ broken' \in BOOLEAN
    BY HoverAssumption DEF RequestFails, PreviewFault, HoverInv, HoverTypeOK
  <1> QED
    BY <1>1, FallsBack DEF RequestFails

\* A tick of every gate: the loading tile's timer and the dwell go together.
LEMMA TickKeeps == HoverInv /\ Tick => HoverInv'
  <1> SUFFICES ASSUME HoverInv, Tick PROVE HoverInv'
    OBVIOUS
  <1> DEFINE left(i) == IF i > 0 THEN i - 1 ELSE i
             m(t) == [machine[t] EXCEPT !.timer = left(machine[t].timer)]
  <1>1. /\ dwell < Gate /\ dwell' = dwell + 1 /\ machine' = [t \in Tile |-> m(t)]
        /\ UNCHANGED <<requests, mounted, focus, registered, active, deaf, broken, moves, clipFaults>>
    BY DEF Tick
  <1>2. /\ machine \in [Tile -> Machine] /\ dwell \in 0 .. Gate /\ requests \subseteq Request
    BY DEF HoverInv, HoverTypeOK
  <1>3. \A i \in {NoTimer} \cup 0 .. Gate : left(i) \in {NoTimer} \cup 0 .. Gate
    BY HoverFacts DEF NoTimer
  <1>4. ASSUME NEW t \in Tile
        PROVE  /\ m(t) \in Machine /\ m(t).st = machine[t].st /\ m(t).url = machine[t].url
               /\ m(t).attempt = machine[t].attempt /\ m(t).timer = left(machine[t].timer)
               /\ machine[t].timer \in {NoTimer} \cup 0 .. Gate
    <2>1. machine[t] \in Machine
      BY <1>2
    <2>2. left(machine[t].timer) \in {NoTimer} \cup 0 .. Gate
      BY <1>3, <2>1 DEF Machine
    <2> HIDE DEF left
    <2> QED
      BY <2>1, <2>2 DEF Machine
  <1> HIDE DEF m
  <1>5. \A t \in Tile : machine'[t] = m(t)
    BY <1>1
  <1>6. HoverTypeOK'
    <2>1. machine' \in [Tile -> Machine]
      BY <1>1, <1>4
    <2>2. dwell' \in 0 .. Gate
      BY <1>1, <1>2, HoverFacts
    <2> QED
      BY <1>1, <2>1, <2>2 DEF HoverInv, HoverTypeOK
  <1>7. ASSUME NEW t \in Tile PROVE TileInv(t)'
    <2>1. machine[t].st \notin {"canMoveOn", "playing"}
      BY <1>1, <1>2, HoverFacts DEF HoverInv, TileInv
    <2>2. machine[t].st = "cannotMoveOn" => left(machine[t].timer) + dwell' = Gate
      <3> SUFFICES ASSUME machine[t].st = "cannotMoveOn" PROVE left(machine[t].timer) + dwell' = Gate
        OBVIOUS
      <3>1. machine[t].timer + dwell = Gate
        BY DEF HoverInv, TileInv
      <3> QED
        BY <1>1, <1>2, <1>4, <3>1, HoverFacts DEF NoTimer
    <2> HIDE DEF left
    <2> QED
      BY <1>1, <1>4, <1>5, <2>1, <2>2 DEF HoverInv, TileInv
  <1>8. ASSUME NEW r \in requests' PROVE RequestInv(r)'
    <2>1. r \in requests /\ r.tile \in Tile
      BY <1>1, <1>2 DEF Request
    <2> QED
      BY <1>1, <1>4, <1>5, <2>1 DEF HoverInv, RequestInv
  <1> QED
    BY <1>6, <1>7, <1>8 DEF HoverInv
-----------------------------------------------------------------------------
(* The focus moves *)

\* The blur of the tile left behind and the focus of the one reached: only the
\* latter shows, its gate starts now, and its request is newer than any other.
LEMMA FocusMovesKeeps ==
    ASSUME HoverInv, NEW to \in Tile \cup {Hero}, to = Hero \/ to \in mounted, FocusMoves(to)
    PROVE  HoverInv'
  <1> DEFINE blurred == IF focus = Hero THEN machine ELSE [machine EXCEPT ![focus] = Blurred(@)]
             asked == Asked(to, Landed(to))
             kept == IF focus = Hero THEN requests ELSE Aborted(focus)
  <1>1. /\ moves < MaxMoves /\ moves' = moves + 1 /\ to # focus /\ focus' = to
        /\ machine' = Landed(to) /\ requests' = kept \cup asked /\ dwell' = 0
        /\ deaf' \in BOOLEAN /\ broken' \in BOOLEAN /\ UNCHANGED <<mounted, registered, active, clipFaults>>
    BY DEF FocusMoves
  <1>2. /\ machine \in [Tile -> Machine] /\ moves \in 0 .. MaxMoves /\ requests \subseteq Request
        /\ focus \in Tile \cup {Hero}
    BY DEF HoverInv, HoverTypeOK
  <1>3. moves \in Nat /\ MaxMoves \in Nat /\ moves' \in 0 .. MaxMoves /\ moves + 1 \in Attempt
    BY <1>1, <1>2, HoverFacts DEF Attempt
  \* Nothing shows once the blur is heard.
  <1>4. /\ blurred \in [Tile -> Machine]
        /\ \A t \in Tile : blurred[t].st \notin Showing /\ blurred[t].url = NoUrl
        /\ \A t \in Tile : blurred[t].st = machine[t].st \/ blurred[t].st = "idle"
    <2>1. \A t \in Tile : t # focus => machine[t].st \notin Showing /\ machine[t].url = NoUrl
      BY DEF HoverInv, TileInv
    <2>2. CASE focus = Hero
      BY <1>2, <2>1, <2>2, HoverFacts
    <2>3. CASE focus # Hero
      <3>1. focus \in Tile /\ machine[focus] \in Machine
        BY <1>2, <2>3
      <3>2. blurred = [machine EXCEPT ![focus] = Blurred(machine[focus])]
        BY <2>3
      <3>3. /\ Blurred(machine[focus]) \in Machine
            /\ Blurred(machine[focus]).st \notin Showing /\ Blurred(machine[focus]).url = NoUrl
            /\ Blurred(machine[focus]).st = machine[focus].st \/ Blurred(machine[focus]).st = "idle"
        <4>1. CASE machine[focus].st \in Showing
          BY <1>2, <3>1, <4>1, Transitions DEF Showing, Loading
        <4>2. CASE machine[focus].st \notin Showing
          BY <1>2, <3>1, <4>2, Transitions DEF HoverInv, TileInv
        <4> QED
          BY <4>1, <4>2
      <3> HIDE DEF blurred
      <3> QED
        BY <1>2, <2>1, <3>1, <3>2, <3>3
    <2> QED
      BY <2>2, <2>3
  \* A request is in the network before and after, or it is the one just asked.
  <1>5. \A r \in kept : /\ r \in Request /\ r.attempt <= moves
                        /\ ~r.aborted => r.tile # focus /\ r \in requests
    <2>1. CASE focus = Hero
      BY <1>2, <2>1, HoverFacts DEF HoverInv, RequestInv, Request
    <2>2. CASE focus # Hero
      <3> SUFFICES ASSUME NEW r \in Aborted(focus)
                   PROVE  /\ r \in Request /\ r.attempt <= moves
                          /\ ~r.aborted => r.tile # focus /\ r \in requests
        BY <2>2
      <3>1. PICK q \in requests : r = [q EXCEPT !.aborted = @ \/ q.tile = focus]
        BY DEF Aborted
      <3>2. q \in Request /\ q.attempt <= moves
        BY <1>2 DEF HoverInv, RequestInv
      <3>3. r \in Request /\ r.attempt = q.attempt /\ r.tile = q.tile
        BY <3>1, <3>2 DEF Request
      <3>4. ASSUME ~r.aborted PROVE r.tile # focus /\ r = q
        <4>1. r.aborted = (q.aborted \/ q.tile = focus)
          BY <3>1, <3>2 DEF Request
        <4>2. q.tile # focus /\ q.aborted = FALSE
          BY <3>2, <3>4, <4>1 DEF Request
        <4>3. r.aborted = FALSE
          BY <3>3, <3>4 DEF Request
        <4> QED
          BY <3>2, <3>3, <4>2, <4>3 DEF Request
      <3> QED
        BY <3>2, <3>3, <3>4
    <2> QED
      BY <2>1, <2>2
  <1>6. \A r \in kept : r.aborted
    <2> SUFFICES ASSUME NEW r \in kept, ~r.aborted PROVE FALSE
      BY <1>5 DEF Request
    <2>1. r \in requests /\ r.tile # focus /\ r.tile \in Tile
      BY <1>5 DEF Request
    <2> QED
      BY <2>1 DEF HoverInv, RequestInv, TileInv
  <1>7. CASE to = Hero
    <2>1. machine' = blurred /\ asked = {}
      BY <1>1, <1>7 DEF Landed, Asked
    <2> HIDE DEF blurred, asked, kept
    <2>2. HoverTypeOK'
      <3>1. requests' \subseteq Request /\ 0 \in 0 .. Gate
        BY <1>1, <1>5, <2>1, HoverFacts
      <3> QED
        BY <1>1, <1>3, <1>4, <2>1, <3>1 DEF HoverInv, HoverTypeOK
    <2>3. \A t \in Tile : TileInv(t)'
      BY <1>4, <2>1 DEF TileInv, Showing, Loading
    <2>4. \A r \in requests' : RequestInv(r)'
      BY <1>1, <1>3, <1>4, <1>5, <1>6, <2>1 DEF RequestInv, Request, Attempt
    <2> QED
      BY <2>2, <2>3, <2>4 DEF HoverInv
  <1>8. CASE to # Hero
    <2> DEFINE m == Focused(blurred[to])
    <2>1. to \in Tile /\ to \in mounted /\ blurred[to] \in Machine
      BY <1>4, <1>8
    <2>2. machine' = [blurred EXCEPT ![to] = m] /\ Landed(to)[to] = m
      BY <1>1, <1>4, <1>8, <2>1 DEF Landed
    <2>3. asked = IF m.st = "cannotMoveOn"
                  THEN {[tile |-> to, attempt |-> m.attempt, aborted |-> FALSE]} ELSE {}
      BY <1>8, <2>2 DEF Asked
    <2>4. /\ m \in Machine /\ m.url = NoUrl
          /\ \/ m.st \notin Showing /\ m.st # "cannotMoveOn"
             \/ m.st = "cannotMoveOn" /\ m.timer = Gate /\ m.attempt = moves + 1
      <3>1. CASE blurred[to].st = "idle"
        BY <1>1, <1>2, <1>4, <2>1, <3>1, Transitions
      <3>2. CASE blurred[to].st # "idle"
        BY <1>2, <1>4, <2>1, <3>2, Transitions DEF Showing, Loading
      <3> QED
        BY <3>1, <3>2
    <2> HIDE DEF m, blurred, asked, kept
    <2>5. /\ machine' \in [Tile -> Machine] /\ machine'[to] = m
          /\ \A t \in Tile \ {to} : machine'[t] = blurred[t]
      BY <1>4, <2>1, <2>2, <2>4
    <2>6. \A r \in asked : /\ r = [tile |-> to, attempt |-> moves + 1, aborted |-> FALSE]
                           /\ m.st = "cannotMoveOn" /\ m.attempt = moves + 1 /\ r \in Request
      <3>1. m.st = "cannotMoveOn" => m.attempt = moves + 1
        BY <2>4
      <3>2. [tile |-> to, attempt |-> moves + 1, aborted |-> FALSE] \in Request
        BY <1>3, <2>1 DEF Request
      <3>3. CASE m.st = "cannotMoveOn"
        <4>1. asked = {[tile |-> to, attempt |-> moves + 1, aborted |-> FALSE]}
          BY <2>3, <3>1, <3>3
        <4> QED
          BY <3>1, <3>2, <3>3, <4>1
      <3>4. CASE m.st # "cannotMoveOn"
        BY <2>3, <3>4
      <3> QED
        BY <3>3, <3>4
    <2>7. HoverTypeOK'
      <3>1. requests' \subseteq Request /\ 0 \in 0 .. Gate
        BY <1>1, <1>5, <2>6, HoverFacts
      <3> QED
        BY <1>1, <1>3, <2>5, <3>1 DEF HoverInv, HoverTypeOK
    <2>8. ASSUME NEW t \in Tile PROVE TileInv(t)'
      <3>1. CASE t = to
        <4>1. m.st = "cannotMoveOn" => m.timer + dwell' = Gate
          BY <1>1, <2>4, HoverFacts DEF Showing, Loading
        <4>2. m.st \notin {"canMoveOn", "playing"}
          BY <2>4 DEF Showing, Loading
        <4> QED
          BY <1>1, <2>1, <2>4, <2>5, <3>1, <4>1, <4>2 DEF TileInv
      <3>2. CASE t # to
        BY <1>4, <2>5, <3>2 DEF TileInv, Showing, Loading
      <3> QED
        BY <3>1, <3>2
    <2>9. ASSUME NEW r \in requests' PROVE RequestInv(r)'
      <3>1. CASE r \in asked
        BY <1>1, <1>3, <2>4, <2>5, <2>6, <3>1 DEF RequestInv, Showing, Loading
      <3>2. CASE r \in kept
        <4>1. r.aborted /\ r.attempt <= moves /\ r.attempt \in Nat /\ r.tile \in Tile
          BY <1>5, <1>6, <3>2, HoverFacts DEF Request
        <4>2. machine'[r.tile].st \in Showing => machine'[r.tile].attempt = moves + 1
          BY <1>4, <2>4, <2>5, <4>1
        <4> QED
          BY <1>1, <1>3, <4>1, <4>2 DEF RequestInv
      <3> QED
        BY <1>1, <3>1, <3>2
    <2> QED
      BY <2>7, <2>8, <2>9 DEF HoverInv
  <1> QED
    BY <1>7, <1>8

-----------------------------------------------------------------------------
(* The invariant, and what follows from it *)

\* Every step keeps the invariant.
LEMMA HoverStep == HoverInv /\ [HoverNext]_hoverVars => HoverInv'
  <1> SUFFICES ASSUME HoverInv, [HoverNext]_hoverVars PROVE HoverInv'
    OBVIOUS
  <1>1. CASE UNCHANGED hoverVars
    <2>1. HoverTypeOK'
      BY <1>1 DEF HoverInv, HoverTypeOK, hoverVars
    <2>2. \A t \in Tile : TileInv(t)'
      BY <1>1 DEF HoverInv, TileInv, hoverVars
    <2>3. \A r \in requests' : RequestInv(r)'
      BY <1>1 DEF HoverInv, RequestInv, hoverVars
    <2> QED
      BY <2>1, <2>2, <2>3 DEF HoverInv
  <1>2. CASE PressUp \/ PressDown \/ \E t \in Tile : PressSide(t)
    BY <1>2, FocusMovesKeeps, HoverFacts DEF PressUp, PressDown, PressSide
  <1>3. CASE RowMounts \/ Covered \/ Tick
    BY <1>3, RowMountsKeeps, CoveredKeeps, TickKeeps
  <1>4. CASE \E t \in Tile : TileUnmounts(t) \/ TileMounts(t) \/ ImageLoads(t)
    BY <1>4, TileUnmountsKeeps, TileMountsKeeps, ImageLoadsKeeps
  <1>5. CASE \E t \in Tile : GateOpens(t) \/ VideoLoads(t) \/ VideoFails(t)
    BY <1>5, GateOpensKeeps, VideoLoadsKeeps, VideoFailsKeeps
  <1>6. CASE \E r \in requests : RequestAnswered(r) \/ RequestFails(r)
    BY <1>6, RequestAnsweredKeeps, RequestFailsKeeps
  <1> QED
    BY <1>1, <1>2, <1>3, <1>4, <1>5, <1>6 DEF HoverNext

LEMMA HoverInvariant == HoverSpec => []HoverInv
  BY HoverStarts, HoverStep, PTL DEF HoverSpec

\* The machines, requests and focus stay of their types, the counters in bounds.
THEOREM HoverTypeCorrect == HoverSpec => []HoverTypeOK
  <1>1. HoverInv => HoverTypeOK
    BY DEF HoverInv
  <1> QED
    BY <1>1, HoverInvariant, PTL

\* At most one preview video is mounted, that of the focused tile
\* (machine.ts's BLUR transitions, useHoverPreview's shouldMountVideo).
THEOREM OneVideoAtMost == HoverSpec => []OneVideo
  <1>1. HoverInv => OneVideo
    BY DEF HoverInv, TileInv, OneVideo, ShouldMountVideo, Showing
  <1> QED
    BY <1>1, HoverInvariant, PTL

\* A request that nobody waits for has been aborted (machine.ts's signal of
\* the invoked actor).
THEOREM RequestsAreAborted == HoverSpec => []NoOrphanRequest
  <1>1. HoverInv => NoOrphanRequest
    BY DEF HoverInv, RequestInv, NoOrphanRequest
  <1> QED
    BY <1>1, HoverInvariant, PTL

\* A mounted video plays what this visit asked for, not a late answer.
THEOREM SourcesAreCurrent == HoverSpec => []SourceIsCurrent
  <1>1. HoverInv => SourceIsCurrent
    BY DEF HoverInv, TileInv, SourceIsCurrent
  <1> QED
    BY <1>1, HoverInvariant, PTL

\* No video is mounted before the focus has dwelt the whole gate (HOVER_GATE_MS).
THEOREM GateAlwaysHolds == HoverSpec => []GateHolds
  <1>1. HoverInv => GateHolds
    BY DEF HoverInv, TileInv, GateHolds, ShouldMountVideo
  <1> QED
    BY <1>1, HoverInvariant, PTL

\* Together: a preview is of this visit of the focus, and nothing of an earlier
\* one is left (machine.ts, from its gate to its abort).
THEOREM NoPreviewIsStale == HoverSpec => []NoStalePreview
  BY OneVideoAtMost, RequestsAreAborted, SourcesAreCurrent, GateAlwaysHolds, PTL DEF NoStalePreview
=============================================================================
