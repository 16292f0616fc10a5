------------------------------ MODULE TvClient ------------------------------
(***************************************************************************)
(* The TV client (apps/tv): the app around its player, and the posters of  *)
(* its home screen, which stays mounted under the routes pushed onto it.   *)
(* The two share no state but the navigator's, which HoverPreviews sees as *)
(* `active`.  A behaviour stays in one of them, chosen at first.           *)
(***************************************************************************)
EXTENDS TvApp, HoverPreviews

VARIABLE area   \* the part of the client this behaviour is about
tvVars == <<area, vars, hoverVars>>

InApp(A) == area = "app" /\ A /\ UNCHANGED <<area, hoverVars>>
InHome(A) == area = "home" /\ A /\ UNCHANGED <<area, vars>>

TvInit == area \in {"app", "home"} /\ Init /\ HoverInit
TvNext == InApp(Next) \/ InHome(HoverNext)

\* Renders, effects and timers of the app run, and requests are answered; on the
\* home screen time passes, gates open, requests are answered, mounted videos load.
TvFairness ==
    /\ WF_tvVars(InApp(Render)) /\ WF_tvVars(InApp(HookRuns))
    /\ WF_tvVars(InApp(Mounted /\ SeekCommits))
    /\ WF_tvVars(InApp(LibraryPage)) /\ WF_tvVars(InApp(StreamResolves))
    /\ WF_tvVars(InHome(Tick))
    /\ WF_tvVars(InHome(\E t \in Tile : GateOpens(t) \/ VideoLoads(t)))
    /\ WF_tvVars(InHome(\E r \in requests : RequestAnswered(r) \/ RequestFails(r)))

TvSpec == TvInit /\ [][TvNext]_tvVars /\ TvFairness
=============================================================================
