---------------------------- MODULE LibraryBrowse ----------------------------
(***************************************************************************)
(* The web client's browsing: the search box of the nav bar, the library   *)
(* and genre pages, and the grid that pages through a catalog            *)
(* (useLibraryPaging) whenever its sentinel scrolls into view.             *)
(*                                                                         *)
(* A state update is kept at once and rendered later; the refs through     *)
(* which the grid's callback reads the cursor are those of the last        *)
(* render.  The effect that observes the sentinel follows the render; the  *)
(* observer is the browser's.  A view that goes away takes its hook along. *)
(***************************************************************************)
EXTENDS Integers, Sequences

CONSTANTS
    Slug,           \* genre slugs in links and typed URLs
    Listed,         \* those that GET /api/genres lists
    Pages,          \* keyset pages of every listing
    MaxChanges,     \* bound: edits of the search, the sort and the route
    MaxBrowseFaults \* bound: failed requests

ASSUME BrowseAssumption ==
    /\ Listed \subseteq Slug /\ Pages \in Nat \ {0}
    /\ MaxChanges \in Nat /\ MaxBrowseFaults \in Nat

VARIABLES
    search,     \* the box: open, its text, the debounce timer's text, the debounced text
    browse,     \* the route, and BrowseState's query and sort
    pager,      \* useLibraryPaging: the view it serves, its state, its refs
    asks,       \* requests for pages
    sentinel,   \* the observer's effect: deps it ran with, a callback due, in view
    rows,       \* the landing rows, or the list of genres
    raced,      \* history: the grid asked again before an answer was rendered
    browsed     \* bound: changes and faults so far

browseVars == <<search, browse, pager, asks, sentinel, rows, raced, browsed>>

Text == {"empty", "blank", "word"}
NoTimer == "none"
Sort == {"sort_title", "added_at"}
View == [kind : {"landing", "flat", "genre"}, key : Sort \cup Slug]
Item == [key : Sort \cup Slug, page : 1 .. Pages]
Ask == [key : Sort \cup Slug, page : 1 .. Pages + 1, initial : BOOLEAN, aborted : BOOLEAN]
Refs == [cursor : 1 .. Pages + 1, more : BOOLEAN]
Unwatched == [on |-> FALSE, len |-> -1]

\* Search box, pager and requests are well formed; the query is never blank (SearchControl trims it).
BrowseTypeOK ==
    /\ search \in [open : BOOLEAN, input : Text, timer : Text \cup {NoTimer}, debounced : Text]
    /\ browse \in [route : {"library"} \cup Slug, query : Text \ {"blank"}, sort : Sort]
    /\ pager \in [view : View, items : Seq(Item), now : Refs, refs : Refs, inFlight : BOOLEAN,
                  initial : BOOLEAN, more : BOOLEAN, error : BOOLEAN]
    /\ asks \subseteq Ask
    /\ sentinel \in [seen : [on : BOOLEAN, len : -1 .. 2 * Pages], due : BOOLEAN, inView : BOOLEAN]
    /\ rows \in {"loading", "ready", "withContinue", "error"}
    /\ raced \in BOOLEAN
    /\ browsed \in [changes : 0 .. MaxChanges, faults : 0 .. MaxBrowseFaults]

-----------------------------------------------------------------------------
(* The search box *)

\* FAULTY: the text is handed on as typed.
TrimmedNot(t) == t
Trimmed(t) == IF t = "blank" THEN "empty" ELSE t

\* The landing view, unless a search or another order asks for the flat grid.
Wanted ==
    IF browse.route # "library" THEN [kind |-> "genre", key |-> browse.route]
    ELSE IF browse.query = "empty" /\ browse.sort = "sort_title" THEN [kind |-> "landing", key |-> "sort_title"]
    ELSE [kind |-> "flat", key |-> browse.sort]
\* React runs the effects of a render before it renders again.
EffectsRan == Wanted = pager.view

Changes == browsed.changes < MaxChanges /\ browsed' = [browsed EXCEPT !.changes = @ + 1]
BrowseFault == browsed.faults < MaxBrowseFaults /\ browsed' = [browsed EXCEPT !.faults = @ + 1]

\* FAULTY: a timer that is running is left running.
RearmedOnce(s, t) == [s EXCEPT !.input = t, !.timer = IF @ = NoTimer THEN t ELSE @]
\* A changed text starts the debounce timer again.
Rearmed(s, t) == IF t = s.input THEN s ELSE [s EXCEPT !.input = t, !.timer = t]

Type(t) ==
    /\ Changes /\ search.open /\ t # search.input
    /\ search' = Rearmed(search, t)
    /\ UNCHANGED <<browse, pager, asks, sentinel, rows, raced>>
Escape ==
    /\ search.open /\ search' = [Rearmed(search, "empty") EXCEPT !.open = FALSE]
    /\ UNCHANGED <<browse, pager, asks, sentinel, rows, raced, browsed>>
\* The icon shows or hides the box and leaves its text alone.
ToggleSearch ==
    /\ Changes /\ search' = [search EXCEPT !.open = ~@]
    /\ UNCHANGED <<browse, pager, asks, sentinel, rows, raced>>
DebounceFires ==
    /\ search.timer # NoTimer
    /\ search' = [search EXCEPT !.debounced = search.timer, !.timer = NoTimer]
    /\ UNCHANGED <<browse, pager, asks, sentinel, rows, raced, browsed>>
\* The effect that hands the debounced text to the page.
QueryEffect ==
    /\ EffectsRan /\ browse.query # Trimmed(search.debounced)
    /\ browse' = [browse EXCEPT !.query = Trimmed(search.debounced)]
    /\ UNCHANGED <<search, pager, asks, sentinel, rows, raced, browsed>>

SetSort(s) ==
    /\ Changes /\ EffectsRan /\ browse.route = "library" /\ s # browse.sort
    /\ browse' = [browse EXCEPT !.sort = s]
    /\ UNCHANGED <<search, pager, asks, sentinel, rows, raced>>
\* A link, or back: the library or a genre.
Navigate(route) ==
    /\ Changes /\ EffectsRan /\ route # browse.route
    /\ browse' = [browse EXCEPT !.route = route]
    /\ UNCHANGED <<search, pager, asks, sentinel, rows, raced>>

-----------------------------------------------------------------------------
(* useLibraryPaging *)

FirstPage(view) == [key |-> view.key, page |-> 1, initial |-> TRUE, aborted |-> FALSE]
FromStart == [cursor |-> 1, more |-> TRUE]
Started(view) == [view |-> view, items |-> <<>>, now |-> FromStart, refs |-> FromStart,
                  inFlight |-> TRUE, initial |-> TRUE, more |-> FALSE, error |-> FALSE]

\* Another view: its hook mounts, the old one is gone with all it asked for.
Mounts ==
    /\ Wanted.kind # pager.view.kind
    /\ pager' = Started(Wanted) /\ asks' = {FirstPage(Wanted)}
    /\ sentinel' = [sentinel EXCEPT !.seen = Unwatched, !.due = FALSE]
    /\ rows' = IF Wanted.kind = "flat" THEN rows ELSE "loading"
    /\ UNCHANGED <<search, browse, raced, browsed>>

\* The same view with another key: abort, and start from page one.
Restarted(p, view) ==
    [p EXCEPT !.view = view, !.items = <<>>, !.now = FromStart, !.inFlight = TRUE,
              !.initial = TRUE, !.error = FALSE]
Restarts ==
    /\ Wanted.kind = pager.view.kind /\ Wanted # pager.view
    /\ pager' = Restarted(pager, Wanted)
    /\ asks' = {[r EXCEPT !.aborted = TRUE] : r \in asks} \cup {FirstPage(Wanted)}
    /\ rows' = IF Wanted.kind = "genre" THEN "loading" ELSE rows
    /\ UNCHANGED <<search, browse, sentinel, raced, browsed>>

Render ==
    /\ pager.refs # pager.now /\ pager' = [pager EXCEPT !.refs = pager.now]
    /\ UNCHANGED <<search, browse, asks, sentinel, rows, raced, browsed>>

\* FAULTY: the answer of an aborted request frees the next one.
SettledAlways(p, r) == [p EXCEPT !.inFlight = FALSE, !.initial = @ /\ ~r.initial, !.more = @ /\ r.initial]
\* Any end of a request; only one of this generation frees the next request,
\* though every one clears a loading flag.
Settled(p, r) ==
    [p EXCEPT !.inFlight = @ /\ r.aborted, !.initial = @ /\ ~r.initial, !.more = @ /\ r.initial]

Got(r) == IF r.key \in Slug \ Listed THEN <<>> ELSE <<[key |-> r.key, page |-> r.page]>>
Appended(p, r) ==
    [p EXCEPT !.items = IF r.initial THEN Got(r) ELSE @ \o Got(r),
              !.now = [cursor |-> r.page + 1, more |-> r.page < Pages /\ r.key \notin Slug \ Listed],
              !.error = FALSE]
\* FAULTY: a page that was superseded is appended too.
TakenAlways(p, r) == Appended(p, r)
\* A page of a generation that was superseded is dropped.
Taken(p, r) == IF r.aborted THEN p ELSE Appended(p, r)

\* What the page draws of it.
NotFound == pager.view.kind = "genre" /\ rows = "ready" /\ pager.view.key \notin Listed
Empty == pager.items = <<>>
GridShown ==
    /\ ~(pager.initial /\ Empty) /\ ~(pager.error /\ Empty) /\ ~NotFound
    /\ Empty => pager.view.kind = "flat"
\* A search narrows what is loaded and stops the paging.
Paging == pager.refs.more /\ (pager.view.kind = "flat" => browse.query = "empty")

\* FAULTY: the observer is not renewed when a page was appended.
GridDepsByFlag == IF GridShown THEN [on |-> Paging, len |-> 0] ELSE Unwatched
GridDeps == IF GridShown THEN [on |-> Paging, len |-> Len(pager.items)] ELSE Unwatched

\* The network is slower than a render: an answer finds the page as it is, while
\* the abort of a request is felt at once.
UpToDate == pager.refs = pager.now /\ sentinel.seen = GridDeps
PageArrives(r) ==
    /\ r.aborted \/ UpToDate
    /\ asks' = asks \ {r} /\ pager' = Settled(Taken(pager, r), r)
    /\ UNCHANGED <<search, browse, sentinel, rows, raced, browsed>>
PageFails(r) ==
    /\ BrowseFault /\ ~r.aborted /\ UpToDate /\ asks' = asks \ {r}
    /\ pager' = Settled([pager EXCEPT !.error = TRUE, !.now.more = FALSE], r)
    /\ UNCHANGED <<search, browse, sentinel, rows, raced>>

-----------------------------------------------------------------------------
(* The sentinel *)

\* A new observer reports whether the sentinel is in view, wherever that is now.
Observes ==
    /\ pager.refs = pager.now /\ sentinel.seen # GridDeps
    /\ \E inView \in BOOLEAN :
         sentinel' = [seen |-> GridDeps, due |-> inView /\ GridDeps.on, inView |-> inView]
    /\ UNCHANGED <<search, browse, pager, asks, rows, raced, browsed>>
Scroll ==
    /\ sentinel' = [sentinel EXCEPT !.inView = ~@, !.due = ~sentinel.inView /\ sentinel.seen.on]
    /\ UNCHANGED <<search, browse, pager, asks, rows, raced, browsed>>

\* The callback is that of the last render, which may be ahead of the restart.
Serving == IF Wanted.kind = pager.view.kind THEN Wanted.key ELSE pager.view.key
\* loadMore: a no-op while a request is in flight or after the last page.
SentinelFires ==
    /\ sentinel.due /\ sentinel' = [sentinel EXCEPT !.due = FALSE]
    /\ IF pager.inFlight \/ ~pager.refs.more THEN UNCHANGED <<pager, asks, raced>>
       ELSE /\ raced => pager.refs = pager.now   \* bound: one such race
            /\ pager' = [pager EXCEPT !.inFlight = TRUE, !.more = TRUE]
            /\ asks' = asks \cup {[key |-> Serving, page |-> pager.refs.cursor,
                                   initial |-> FALSE, aborted |-> FALSE]}
            /\ raced' = (raced \/ pager.refs # pager.now)
    /\ UNCHANGED <<search, browse, rows, browsed>>

-----------------------------------------------------------------------------
(* The rows above the grid *)

RowsArrive ==
    /\ rows = "loading" /\ rows' = "ready"
    /\ UNCHANGED <<search, browse, pager, asks, sentinel, raced, browsed>>
RowsFail ==
    /\ BrowseFault /\ rows = "loading" /\ rows' = "error"
    /\ UNCHANGED <<search, browse, pager, asks, sentinel, raced>>
ContinueArrives ==
    /\ rows = "ready" /\ pager.view.kind = "landing" /\ rows' = "withContinue"
    /\ UNCHANGED <<search, browse, pager, asks, sentinel, raced, browsed>>

Home == [kind |-> "landing", key |-> "sort_title"]
BrowseInit ==
    /\ search = [open |-> FALSE, input |-> "empty", timer |-> NoTimer, debounced |-> "empty"]
    /\ browse = [route |-> "library", query |-> "empty", sort |-> "sort_title"]
    /\ pager = Started(Home) /\ asks = {FirstPage(Home)}
    /\ sentinel = [seen |-> Unwatched, due |-> FALSE, inView |-> FALSE]
    /\ rows = "loading" /\ raced = FALSE /\ browsed = [changes |-> 0, faults |-> 0]
\* The player is no child of the shell: coming back from it, all is as at first.
BackFromPlayer ==
    /\ Changes
    /\ search' = [open |-> FALSE, input |-> "empty", timer |-> NoTimer, debounced |-> "empty"]
    /\ \E route \in {"library"} \cup Slug :
         browse' = [route |-> route, query |-> "empty", sort |-> "sort_title"]
    /\ pager' = Started(Wanted') /\ asks' = {FirstPage(Wanted')}
    /\ sentinel' = [seen |-> Unwatched, due |-> FALSE, inView |-> FALSE]
    /\ rows' = "loading" /\ UNCHANGED raced

BrowseNext ==
    \/ (\E t \in Text : Type(t)) \/ Escape \/ ToggleSearch \/ DebounceFires \/ QueryEffect
    \/ (\E s \in Sort : SetSort(s)) \/ (\E route \in {"library"} \cup Slug : Navigate(route))
    \/ Mounts \/ Restarts \/ Render \/ (\E r \in asks : PageArrives(r) \/ PageFails(r))
    \/ Observes \/ Scroll \/ SentinelFires
    \/ RowsArrive \/ RowsFail \/ ContinueArrives \/ BackFromPlayer

-----------------------------------------------------------------------------
(* Properties *)

\* The grid shows the pages of one listing, each once and in order, whatever
\* answers of earlier sorts and genres come late.  The exception is a sentinel
\* that fires between an answer and its render, which asks for a page twice.
GridInOrder ==
    ~raced /\ Wanted = pager.view =>
        \A i \in 1 .. Len(pager.items) : pager.items[i] = [key |-> pager.view.key, page |-> i]

\* The guard against a second request is up exactly while this generation has
\* one: a stale answer never lifts it, and no failure leaves it up for ever.
InFlightTrue == pager.inFlight <=> \E r \in asks : ~r.aborted

\* With no timer running, the debounced text, which QueryEffect hands to the page,
\* is what the box says: a burst of keystrokes ends with the last of them.
QueryFollows ==
    search.timer = NoTimer => search.debounced = search.input

\* Grid, guard and debounced text are those of what the viewer asked for last.
BrowseIsTrue == GridInOrder /\ InFlightTrue /\ QueryFollows

\* A grid whose sentinel stays in view goes on until the whole listing is
\* loaded: no page is the last one because an observer had nothing to report.
GridFills ==
    sentinel.seen.on /\ sentinel.inView
        ~> ~pager.now.more \/ ~sentinel.inView \/ ~sentinel.seen.on
=============================================================================
