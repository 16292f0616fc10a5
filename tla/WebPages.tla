------------------------------ MODULE WebPages ------------------------------
(***************************************************************************)
(* The web client's pages other than the stream itself, as the router      *)
(* composes them: one page is mounted at a time, and what a page keeps is  *)
(* gone with it.  A behaviour stays in one part of the client; the part is *)
(* chosen at first.  What the parts share outlives a page in the server or *)
(* in local storage, and each module carries its own view of those.        *)
(***************************************************************************)
EXTENDS LibraryBrowse, TitlePage, AdminPages, PlayerChrome

VARIABLE area   \* the part of the client this behaviour is about
webVars == <<area, browseVars, titleVars, adminVars, chromeVars>>
Area == {"browse", "titles", "settings", "player"}

\* Where a part is not the one at work, its first state is any one of its own.
Elsewhere ==
    /\ area # "titles" => page.title = CHOOSE t \in AnyTitle : TRUE
    /\ area # "settings" => at = "libraries" /\ \A id \in LibId : Now.libs[id] # Gone
    /\ area # "player" => player.film = CHOOSE film \in Playable : TRUE

Init ==
    /\ area \in Area
    /\ BrowseInit /\ TitleInit /\ AdminInit /\ ChromeInit /\ Elsewhere

In(a) == area = a /\ UNCHANGED area
Browses(A) == In("browse") /\ A /\ UNCHANGED <<titleVars, adminVars, chromeVars>>

Next ==
    \/ Browses(BrowseNext)
    \/ In("titles") /\ TitleNext /\ UNCHANGED <<browseVars, adminVars, chromeVars>>
    \/ In("settings") /\ AdminNext /\ UNCHANGED <<browseVars, titleVars, chromeVars>>
    \/ In("player") /\ ChromeNext /\ UNCHANGED <<browseVars, titleVars, adminVars>>

\* The grid's renders, effects, timers and callbacks run; its requests are
\* answered.
Fairness ==
    /\ WF_webVars(Browses(DebounceFires)) /\ WF_webVars(Browses(QueryEffect))
    /\ WF_webVars(Browses(Mounts)) /\ WF_webVars(Browses(Restarts)) /\ WF_webVars(Browses(Render))
    /\ WF_webVars(Browses(\E r \in asks : PageArrives(r)))
    /\ WF_webVars(Browses(Observes)) /\ WF_webVars(Browses(SentinelFires))

Spec == Init /\ [][Next]_webVars /\ Fairness

-----------------------------------------------------------------------------
(* Properties *)

\* Every part of the web client is well formed, a part that is not at work included.
PagesTypeOK == BrowseTypeOK /\ TitleTypeOK /\ AdminTypeOK /\ ChromeTypeOK
=============================================================================
