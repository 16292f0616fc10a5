------------------------------ MODULE TitlePage ------------------------------
(***************************************************************************)
(* The web client's title pages: useDetail over the API client's ETag      *)
(* cache, the dialogs of the movie page, and the trailer behind its hero.  *)
(*                                                                         *)
(* A page is one component for all ids of its route: following a link from *)
(* movie to movie changes its parameter and keeps its state.  The effect   *)
(* that fetches is a step after the render; requests are served and        *)
(* answered in steps of their own.  A version number stands for what the   *)
(* server knows of a title, and for the ETag of a body that says so.       *)
(***************************************************************************)
EXTENDS Integers, FiniteSets

CONSTANTS
    Film,           \* movies, each with a backdrop and a trailer
    Plain,          \* series and people: no dialogs, no trailer
    MaxWrites,      \* bound: pins and refreshes
    MaxSteps,       \* bound: links followed, dialogs opened and closed
    MaxTitleFaults, \* bound: requests that fail, trailers that cannot play
    Nothing         \* no entry, no answer, no title

ASSUME TitleAssumption ==
    /\ MaxWrites \in Nat /\ MaxSteps \in Nat /\ MaxTitleFaults \in Nat
    /\ Nothing \notin Film \cup Plain

VARIABLES
    page,       \* the parameter, nonce, what the effect ran for, useDetail's state, dialogs
    server,     \* by title: its version
    cache,      \* the API client's bodies, by title
    gets,       \* detail requests
    writes,     \* pins and refreshes in flight
    dialog,     \* MatchDialog: mounted, candidates loaded, busyId
    trailer,    \* BackdropTrailer: its state, players alive, callbacks of earlier effects
    untold,     \* history: the titles with a write their page is not told of, until it asks again
    spent       \* bound: steps and faults so far

titleVars == <<page, server, cache, gets, writes, dialog, trailer, untold, spent>>

AnyTitle == Film \cup Plain
Version == 0 .. MaxWrites
Body == [title : AnyTitle, version : Version]
Get == [title : AnyTitle, entry : Body \cup {Nothing}, reply : Version \cup {Nothing}, aborted : BOOLEAN]
Write == [n : 1 .. MaxWrites, title : Film, pin : BOOLEAN, owned : BOOLEAN, paged : BOOLEAN, done : BOOLEAN]
TrailerState == {"off", "delay", "loading", "built", "playing", "done", "unavailable"}

\* Page, cache, requests and dialogs are well formed; a page that is ready has a body,
\* though a 304 carries none (getJson).
TitleTypeOK ==
    /\ page \in [title : AnyTitle, nonce : 0 .. MaxWrites, ran : (AnyTitle \cup {Nothing}) \X (0 .. MaxWrites),
                 status : {"loading", "ready", "error"}, data : Body \cup {Nothing},
                 match : BOOLEAN, info : BOOLEAN]
    /\ page.status = "ready" => page.data \in Body
    /\ server \in [AnyTitle -> Version]
    /\ cache \in [AnyTitle -> Body \cup {Nothing}]
    /\ gets \subseteq Get /\ writes \subseteq Write
    /\ dialog \in [open : BOOLEAN, candidates : BOOLEAN, busy : BOOLEAN]
    /\ trailer \in [st : TrailerState, players : Int, stale : Nat]
    /\ untold \subseteq AnyTitle
    /\ spent \in [steps : 0 .. MaxSteps, writes : 0 .. MaxWrites, faults : 0 .. MaxTitleFaults]

TitleStep == spent.steps < MaxSteps /\ spent' = [spent EXCEPT !.steps = @ + 1]
TitleFault == spent.faults < MaxTitleFaults /\ spent' = [spent EXCEPT !.faults = @ + 1]

-----------------------------------------------------------------------------
(* The trailer behind the hero *)

Built == {"built", "playing", "done"}
NoTrailer == [st |-> "off", players |-> 0, stale |-> 0]
\* The effect's cleanup: the timer is cleared, the player destroyed, and a
\* callback that waits for YouTube's script is cancelled.
TornDown(t) ==
    [st |-> "off", players |-> IF t.st \in Built THEN t.players - 1 ELSE t.players,
     stale |-> IF t.st = "loading" THEN t.stale + 1 ELSE t.stale]
Rebuilt(t) == IF t.st = "unavailable" THEN t ELSE [TornDown(t) EXCEPT !.st = "delay"]
\* Every render of the page hands the trailer a new onUnavailable, which runs
\* its effect again.
Rerendered == trailer' = IF trailer.st = "off" THEN trailer ELSE Rebuilt(trailer)

DelayEnds ==
    /\ trailer.st = "delay" /\ trailer' = [trailer EXCEPT !.st = "loading"]
    /\ UNCHANGED <<page, server, cache, gets, writes, dialog, untold, spent>>
ApiLands ==
    /\ trailer.st = "loading" /\ trailer' = [trailer EXCEPT !.st = "built", !.players = @ + 1]
    /\ UNCHANGED <<page, server, cache, gets, writes, dialog, untold, spent>>
\* FAULTY: the cancelled flag is not looked at.
PlayersAfterStale(t) == t.players + 1
PlayersAfterCancelled(t) == t.players
StaleApiLands ==
    /\ trailer.stale > 0
    /\ trailer' = [trailer EXCEPT !.stale = @ - 1, !.players = PlayersAfterCancelled(trailer)]
    /\ UNCHANGED <<page, server, cache, gets, writes, dialog, untold, spent>>
TrailerMoves ==
    /\ trailer.st \in {"built", "playing"}
    /\ trailer' = [trailer EXCEPT !.st = IF @ = "built" THEN "playing" ELSE "done"]
    /\ UNCHANGED <<page, server, cache, gets, writes, dialog, untold, spent>>
\* It cannot be embedded: the layer is retired while this title is shown.
TrailerFails ==
    /\ TitleFault /\ trailer.st \in {"built", "playing"}
    /\ trailer' = [TornDown(trailer) EXCEPT !.st = "unavailable"]
    /\ UNCHANGED <<page, server, cache, gets, writes, dialog, untold>>

-----------------------------------------------------------------------------
(* useDetail and the ETag cache *)

NoDialog == [open |-> FALSE, candidates |-> FALSE, busy |-> FALSE]
Disowned == {[w EXCEPT !.owned = FALSE] : w \in writes}
FreshPage(t) == [title |-> t, nonce |-> 0, ran |-> <<Nothing, 0>>, status |-> "loading",
                 data |-> Nothing, match |-> FALSE, info |-> FALSE]
FetchDue == page.ran # <<page.title, page.nonce>>

Asked(t) == [title |-> t, entry |-> cache[t], reply |-> Nothing, aborted |-> FALSE]
\* The effect: abort, "loading" (everything below the page unmounts), and ask.
FetchEffect ==
    /\ FetchDue
    /\ page' = [page EXCEPT !.ran = <<page.title, page.nonce>>, !.status = "loading", !.data = Nothing]
    /\ gets' = {[g EXCEPT !.aborted = TRUE] : g \in gets} \cup {Asked(page.title)}
    /\ dialog' = NoDialog /\ writes' = Disowned
    /\ trailer' = TornDown(trailer)
    /\ untold' = {t \in untold : t = page.title => \E w \in writes : w.title = t}
    /\ UNCHANGED <<server, cache, spent>>

GetServed(g) ==
    /\ g.reply = Nothing
    /\ gets' = (gets \ {g}) \cup {[g EXCEPT !.reply = server[g.title]]}
    /\ UNCHANGED <<page, server, cache, writes, dialog, trailer, untold, spent>>

NotModified(g) == g.entry # Nothing /\ g.entry.version = g.reply
\* FAULTY: a 304 is answered from what the cache holds by then.
ReplayedNow(g) == IF NotModified(g) THEN cache[g.title] ELSE [title |-> g.title, version |-> g.reply]
\* The body: a 304 replays the very entry whose tag was sent.
Replayed(g) == IF NotModified(g) THEN g.entry ELSE [title |-> g.title, version |-> g.reply]

\* FAULTY: an answer that was superseded is shown.
HeededAlways(g) == TRUE
\* An aborted request is not heard of any more.
Heeded(g) == ~g.aborted

GetArrives(g) ==
    /\ g.reply # Nothing /\ gets' = gets \ {g}
    /\ cache' = IF NotModified(g) THEN cache ELSE [cache EXCEPT ![g.title] = Replayed(g)]
    /\ IF Heeded(g)
       THEN /\ page' = [page EXCEPT !.status = "ready", !.data = Replayed(g)]
            /\ dialog' = [NoDialog EXCEPT !.open = page.match]
            /\ trailer' = IF g.title \in Film THEN Rebuilt(trailer) ELSE trailer
       ELSE UNCHANGED <<page, dialog, trailer>>
    /\ UNCHANGED <<server, writes, untold, spent>>
GetFails(g) ==
    /\ TitleFault /\ ~g.aborted /\ gets' = gets \ {g}
    /\ page' = [page EXCEPT !.status = "error"]
    /\ UNCHANGED <<server, cache, writes, dialog, trailer, untold>>

\* A link to another title: the same page for films, else a page of its own.
SamePage(t) == t \in Film /\ page.title \in Film
Follow(t) ==
    /\ TitleStep /\ t # page.title /\ SamePage(t)
    /\ page' = [page EXCEPT !.title = t]
    /\ Rerendered
    /\ UNCHANGED <<server, cache, gets, writes, dialog, untold>>
Open(t) ==
    /\ TitleStep /\ ~(SamePage(t) /\ t # page.title)
    /\ page' = FreshPage(t) /\ gets' = {} /\ dialog' = NoDialog
    /\ writes' = {[w EXCEPT !.owned = FALSE, !.paged = FALSE] : w \in writes}
    /\ untold' = untold \cup {w.title : w \in writes}
    /\ trailer' = TornDown(trailer)
    /\ UNCHANGED <<server, cache>>

-----------------------------------------------------------------------------
(* The dialogs *)

Ready == page.status = "ready" /\ page.data.title \in Film
ToggleInfo ==
    /\ TitleStep /\ Ready /\ page' = [page EXCEPT !.info = ~@] /\ Rerendered
    /\ UNCHANGED <<server, cache, gets, writes, dialog, untold>>
OpenMatch ==
    /\ TitleStep /\ Ready /\ ~page.match /\ page' = [page EXCEPT !.match = TRUE] /\ Rerendered
    /\ dialog' = [NoDialog EXCEPT !.open = TRUE]
    /\ UNCHANGED <<server, cache, gets, writes, untold>>
CloseMatch ==
    /\ TitleStep /\ dialog.open /\ page' = [page EXCEPT !.match = FALSE] /\ Rerendered
    /\ dialog' = NoDialog /\ writes' = Disowned
    /\ UNCHANGED <<server, cache, gets, untold>>
CandidatesArrive ==
    /\ dialog.open /\ ~dialog.candidates /\ dialog' = [dialog EXCEPT !.candidates = TRUE]
    /\ UNCHANGED <<page, server, cache, gets, writes, trailer, untold, spent>>

\* FAULTY: a dialog that is busy takes another click.
MayPinBusy == dialog.open /\ dialog.candidates
\* A candidate is pinned only when nothing is under way.
MayPin == dialog.open /\ dialog.candidates /\ ~dialog.busy
MayRefresh == dialog.open /\ ~dialog.busy

Sends(pin) ==
    /\ spent.writes < MaxWrites /\ spent' = [spent EXCEPT !.writes = @ + 1]
    /\ writes' = writes \cup {[n |-> spent.writes + 1, title |-> page.data.title, pin |-> pin, owned |-> TRUE, paged |-> TRUE, done |-> FALSE]}
    /\ dialog' = [dialog EXCEPT !.busy = TRUE]
    /\ UNCHANGED <<page, server, cache, gets, trailer, untold>>
Pin == MayPin /\ Sends(TRUE)
Refresh == MayRefresh /\ Sends(FALSE)

WriteServed(w) ==
    /\ ~w.done /\ server' = [server EXCEPT ![w.title] = @ + 1]
    /\ writes' = (writes \ {w}) \cup {[w EXCEPT !.done = TRUE]}
    /\ UNCHANGED <<page, cache, gets, dialog, trailer, untold, spent>>

\* FAULTY: the page closes its dialog and does not fetch again.
MatchedQuietly(p, w) == [p EXCEPT !.match = @ /\ ~w.pin]
\* onMatched and, for a pin, onClose: of the page that sent it, whatever it shows now.
Matched(p, w) == [p EXCEPT !.nonce = @ + 1, !.match = @ /\ ~w.pin]

WriteAnswered(w) ==
    /\ w.done /\ cache' = [t \in AnyTitle |-> Nothing]
    /\ page' = IF w.paged THEN Matched(page, w) ELSE page
    /\ writes' = IF page'.match THEN writes \ {w}
                 ELSE {[x EXCEPT !.owned = FALSE] : x \in writes \ {w}}
    /\ dialog' = IF ~page'.match THEN NoDialog ELSE [dialog EXCEPT !.busy = @ /\ ~w.owned]
    /\ IF w.paged THEN Rerendered ELSE UNCHANGED trailer
    /\ UNCHANGED <<server, gets, untold, spent>>
\* The request is refused or lost, or its answer is lost, the write done: the dialog,
\* if it is still there, shows why; no page is told, and no cached body dropped.
WriteFails(w) ==
    /\ TitleFault /\ writes' = writes \ {w}
    /\ dialog' = [dialog EXCEPT !.busy = @ /\ ~w.owned]
    /\ untold' = IF w.done THEN untold \cup {w.title} ELSE untold
    /\ UNCHANGED <<page, server, cache, gets, trailer>>

-----------------------------------------------------------------------------
TitleInit ==
    /\ page \in {FreshPage(t) : t \in AnyTitle}
    /\ server = [t \in AnyTitle |-> 0] /\ cache = [t \in AnyTitle |-> Nothing]
    /\ gets = {} /\ writes = {} /\ dialog = NoDialog /\ trailer = NoTrailer
    /\ untold = {} /\ spent = [steps |-> 0, writes |-> 0, faults |-> 0]

TitleNext ==
    \/ FetchEffect \/ (\E g \in gets : GetServed(g) \/ GetArrives(g) \/ GetFails(g))
    \/ (\E t \in AnyTitle : Follow(t) \/ Open(t))
    \/ ToggleInfo \/ OpenMatch \/ CloseMatch \/ CandidatesArrive \/ Pin \/ Refresh
    \/ (\E w \in writes : WriteServed(w) \/ WriteAnswered(w) \/ WriteFails(w))
    \/ DelayEnds \/ ApiLands \/ StaleApiLands \/ TrailerMoves \/ TrailerFails

-----------------------------------------------------------------------------
(* Properties *)

\* A page whose effect has run shows the title of its address, whatever
\* answers for titles visited before come late.
ShowsItsTitle == ~FetchDue /\ page.status = "ready" => page.data.title = page.title

\* With nothing in flight the page shows its title as the server knows it: a pin or a
\* refresh is seen although its answer may come after a link was followed,
\* and no cached body stands in its way.  The exception is a title whose write the
\* server has done and whose page is not told: the page was left and opened again
\* while the write was in flight, or the answer was lost.  It ends when that
\* page asks again with no write of its title under way.
PinShows ==
    ~FetchDue /\ gets = {} /\ writes = {} /\ page.status = "ready" /\ page.title \notin untold =>
        page.data = [title |-> page.title, version |-> server[page.title]]

\* A match dialog has at most one write of its own in flight, and its buttons
\* are disabled exactly while it has: the state survives neither the answer
\* nor the dialog.
OneWritePerDialog ==
    /\ dialog.busy <=> \E w \in writes : w.owned
    /\ Cardinality({w \in writes : w.owned}) <= 1

\* There is one YouTube player, or none: no navigation and no render leaves
\* one behind that plays on unseen.
OneTrailer == trailer.players = IF trailer.st \in Built THEN 1 ELSE 0

\* What a page may have one of is never there twice.
NothingDoubled == OneWritePerDialog /\ OneTrailer
=============================================================================
