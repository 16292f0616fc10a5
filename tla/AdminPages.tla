----------------------------- MODULE AdminPages -----------------------------
(***************************************************************************)
(* The web client's settings: the library list with an editor per library, *)
(* and the status page with its passes and the titles to be fixed.         *)
(*                                                                         *)
(* Every write is followed by a new GET of the list.  Requests are served  *)
(* one at a time, in any order, and answered in any order.  What a GET     *)
(* found is written as the number of the server's state it saw.            *)
(***************************************************************************)
EXTENDS Integers, Sequences, FiniteSets

CONSTANTS
    LibName,         \* names typed into the boxes
    Folder,          \* folders typed into the boxes
    Title,           \* movies without a match
    MaxLibs,         \* bound: libraries
    MaxAdminWrites,  \* bound: writes
    MaxAdminSteps,   \* bound: names typed, dialogs opened, pages visited, refreshes
    MaxAdminFaults,  \* bound: requests and answers that are lost
    Gone             \* no library, no title

NoName == ""         \* a name of blanks; no argument

ASSUME AdminAssumption ==
    /\ MaxLibs \in Nat \ {0} /\ MaxAdminWrites \in Nat
    /\ MaxAdminSteps \in Nat /\ MaxAdminFaults \in Nat
    /\ LibName # {} /\ NoName \notin LibName
    /\ Gone \notin Title \cup 1 .. MaxLibs /\ Title \cap 1 .. MaxLibs = {}

VARIABLES
    past,       \* the server's states; the last one is the current one
    at,         \* the page that is mounted
    view,       \* what it shows: by part, the number of a state, 0 before the first answer
    reads,      \* GETs of this page: by part, what they found, 0 before that
    sent,       \* writes in flight
    editors,    \* by library: LibraryEditor's name box and busy flag
    panel,      \* the create form and the status page
    excused,    \* history: why the page may show less than the server has
    used        \* bound: steps and faults so far

adminVars == <<past, at, view, reads, sent, editors, panel, excused, used>>

LibId == 1 .. MaxLibs
Typed == LibName \cup {NoName}
Lib == [name : LibName, folders : SUBSET Folder]
Server == [libs : [LibId -> Lib \cup {Gone}], unmatched : SUBSET Title]
Now == past[Len(past)]
Kind == {"create", "rename", "add", "remove", "scan", "delete", "backfill", "enrich", "pin"}
Sent == [n : 1 .. MaxAdminWrites, kind : Kind, id : LibId \cup Title \cup {Gone},
         arg : Typed \cup Folder, owned : BOOLEAN, paged : BOOLEAN, reply : {"none", "ok", "refused"}]

\* The server's history, what the settings pages show of it, and their requests are
\* well formed; a library never gets a blank name (LibraryEditor's rename).
AdminTypeOK ==
    /\ past \in Seq(Server) /\ Len(past) \in 1 .. MaxAdminWrites + 1
    /\ at \in {"libraries", "status"}
    /\ view \in [{"list", "counts"} -> 0 .. MaxAdminWrites + 1]
    /\ reads \in Seq([{"list", "counts"} -> 0 .. MaxAdminWrites + 1])
    /\ sent \subseteq Sent
    /\ editors \in [LibId -> [box : Typed, edited : BOOLEAN, busy : BOOLEAN]]
    /\ panel \in [creating : BOOLEAN, backfilling : BOOLEAN, busy : BOOLEAN, timers : Nat,
                  fix : Title \cup {Gone}, fixBusy : BOOLEAN]
    /\ excused \subseteq {"lost", "left", "outrun", "overtaken", "reused"}
    /\ used \in [steps : 0 .. MaxAdminSteps, writes : 0 .. MaxAdminWrites, faults : 0 .. MaxAdminFaults]

AdminStep == used.steps < MaxAdminSteps /\ used' = [used EXCEPT !.steps = @ + 1]
AdminFault == used.faults < MaxAdminFaults /\ used' = [used EXCEPT !.faults = @ + 1]

-----------------------------------------------------------------------------
(* What the page shows *)

Loaded == view["list"] > 0
Shown == past[view["list"]]
Blank == [box |-> NoName, edited |-> FALSE, busy |-> FALSE]
FreshPanel == [creating |-> FALSE, backfilling |-> FALSE, busy |-> FALSE, timers |-> 0,
               fix |-> Gone, fixBusy |-> FALSE]
Mounted == {id \in LibId : at = "libraries" /\ Loaded /\ Shown.libs[id] # Gone}
Unanswered == [part \in {"list", "counts"} |-> 0]

Opened(page) ==
    /\ at' = page /\ view' = Unanswered /\ reads' = <<Unanswered>>
    /\ editors' = [id \in LibId |-> Blank] /\ panel' = FreshPanel
\* The other settings page: this one's answers are not heard of any more.
Visit(page) ==
    /\ AdminStep /\ page # at /\ Opened(page)
    /\ sent' = {[w EXCEPT !.owned = FALSE, !.paged = FALSE] : w \in sent}
    /\ excused' = IF sent = {} THEN {} ELSE {"left"}
    /\ UNCHANGED past

-----------------------------------------------------------------------------
(* Reading *)

\* refresh: a new GET; the ones before it go on.
Refreshed == reads' = Append(reads, Unanswered)
RefreshClick ==
    /\ AdminStep /\ at = "status" /\ Loaded /\ Refreshed
    /\ UNCHANGED <<past, at, view, sent, editors, panel, excused>>
TimerFires ==
    /\ panel.timers > 0 /\ panel' = [panel EXCEPT !.timers = @ - 1] /\ Refreshed
    /\ UNCHANGED <<past, at, view, sent, editors, excused, used>>

\* The library list is one GET, the status page waits for several.
PartsOf(page) == IF page = "status" THEN {"list", "counts"} ELSE {"list"}
ReadServed(i, part) ==
    /\ part \in PartsOf(at) /\ reads[i][part] = 0
    /\ reads' = [reads EXCEPT ![i][part] = Len(past)]
    /\ UNCHANGED <<past, at, view, sent, editors, panel, excused, used>>

Without(s, i) == SubSeq(s, 1, i - 1) \o SubSeq(s, i + 1, Len(s))
Named(libs, id) == [Blank EXCEPT !.box = libs[id].name]
Position(libs, id) == Cardinality({j \in 1 .. id : libs[j] # Gone})
\* FAULTY: an editor stays with its place in the list.
KeptByPosition(old, new, id) ==
    LET same == {j \in LibId : old[j] # Gone /\ Position(old, j) = Position(new, id)}
    IN  IF new[id] = Gone THEN Blank ELSE IF same = {} THEN Named(new, id)
        ELSE editors[CHOOSE j \in same : TRUE]
\* An editor stays with the library's id; its box is filled when it mounts.
Kept(old, new, id) ==
    IF new[id] = Gone THEN Blank ELSE IF old[id] = Gone THEN Named(new, id) ELSE editors[id]

NoLibs == [id \in LibId |-> Gone]
ShownLibs == IF Loaded THEN Shown.libs ELSE NoLibs
ReadArrives(i) ==
    LET got == reads[i]
        new == past[got["list"]].libs
    IN  /\ \A part \in PartsOf(at) : got[part] > 0
        /\ reads' = Without(reads, i) /\ view' = got
        /\ editors' = IF at = "status" THEN editors ELSE [id \in LibId |-> Kept(ShownLibs, new, id)]
        /\ sent' = IF at = "status" THEN sent
                   ELSE {[w EXCEPT !.owned = @ /\ (w.kind = "create" \/ w.id = Gone \/ new[w.id] # Gone)] : w \in sent}
        /\ excused' = IF \A part \in PartsOf(at) : got[part] = Len(past) THEN excused \ {"lost", "outrun"}
                      ELSE IF \E part \in PartsOf(at) : got[part] < view[part] THEN excused \cup {"outrun", "overtaken"}
                      ELSE excused
        /\ UNCHANGED <<past, at, panel, used>>
\* An error shows only while there is nothing else to show; nobody asks again.
ReadFails(i) ==
    /\ AdminFault /\ reads' = Without(reads, i) /\ excused' = excused \cup {"lost"}
    /\ UNCHANGED <<past, at, view, sent, editors, panel>>

-----------------------------------------------------------------------------
(* Writing *)

Submits(kind, id, arg) ==
    /\ used.writes < MaxAdminWrites /\ used' = [used EXCEPT !.writes = @ + 1]
    /\ sent' = sent \cup {[n |-> used.writes + 1, kind |-> kind, id |-> id, arg |-> arg,
                           owned |-> TRUE, paged |-> TRUE, reply |-> "none"]}
    /\ UNCHANGED <<past, at, view, reads, excused>>
\* LibraryEditor.run: nothing while a write of this editor is under way.
Runs(id, kind, arg) ==
    /\ id \in Mounted /\ ~editors[id].busy /\ Submits(kind, id, arg)
    /\ editors' = [editors EXCEPT ![id].busy = TRUE] /\ UNCHANGED panel

TypeName(id, name) ==
    /\ AdminStep /\ id \in Mounted /\ name # editors[id].box
    /\ editors' = [editors EXCEPT ![id].box = name, ![id].edited = TRUE]
    /\ UNCHANGED <<past, at, view, reads, sent, panel, excused>>
\* FAULTY: a name of blanks is sent.
MayRenameBlank(id) == editors[id].box # Shown.libs[id].name
\* Enter, or leaving the box.
MayRename(id) == editors[id].box # NoName /\ editors[id].box # Shown.libs[id].name
Rename(id) == id \in Mounted /\ MayRename(id) /\ Runs(id, "rename", editors[id].box)
AddFolder(id) == \E f \in Folder : Runs(id, "add", f)
RemoveFolder(id) == id \in Mounted /\ \E f \in Shown.libs[id].folders : Runs(id, "remove", f)
Scan(id) == Runs(id, "scan", NoName)
Delete(id) == Runs(id, "delete", NoName)

Create ==
    /\ at = "libraries" /\ Loaded /\ ~panel.creating
    /\ \E name \in LibName : Submits("create", Gone, name)
    /\ panel' = [panel EXCEPT !.creating = TRUE] /\ UNCHANGED editors
Backfill ==
    /\ at = "libraries" /\ Loaded /\ ~panel.backfilling /\ Submits("backfill", Gone, NoName)
    /\ panel' = [panel EXCEPT !.backfilling = TRUE] /\ UNCHANGED editors
RunPass(kind) ==
    /\ at = "status" /\ Loaded /\ ~panel.busy /\ Submits(kind, Gone, NoName)
    /\ panel' = [panel EXCEPT !.busy = TRUE] /\ UNCHANGED editors
FixMatch(t) ==
    /\ AdminStep /\ at = "status" /\ Loaded /\ panel.fix = Gone /\ t \in Shown.unmatched
    /\ panel' = [panel EXCEPT !.fix = t]
    /\ UNCHANGED <<past, at, view, reads, sent, editors, excused>>
DialogClosed(p) == [p EXCEPT !.fix = Gone, !.fixBusy = FALSE]
DialogDisowned(ws) == {[w EXCEPT !.owned = @ /\ w.kind # "pin"] : w \in ws}
CloseFix ==
    /\ AdminStep /\ panel.fix # Gone /\ panel' = DialogClosed(panel) /\ sent' = DialogDisowned(sent)
    /\ UNCHANGED <<past, at, view, reads, editors, excused>>
PinFix ==
    /\ panel.fix # Gone /\ ~panel.fixBusy /\ Submits("pin", panel.fix, NoName)
    /\ panel' = [panel EXCEPT !.fixBusy = TRUE] /\ UNCHANGED editors

\* SQLite gives a library the number after the highest in use.
NextId(libs) == 1 + Cardinality({j \in LibId : \E k \in j .. MaxLibs : libs[k] # Gone})
Renamed(lib, w) == IF w.kind = "rename" THEN [lib EXCEPT !.name = w.arg]
                   ELSE IF w.kind = "add" THEN [lib EXCEPT !.folders = @ \cup {w.arg}]
                   ELSE IF w.kind = "remove" THEN [lib EXCEPT !.folders = @ \ {w.arg}]
                   ELSE IF w.kind = "delete" THEN Gone ELSE lib
Effect(s, w) ==
    IF w.kind = "create" THEN [s EXCEPT !.libs[NextId(s.libs)] = [name |-> w.arg, folders |-> Folder]]
    ELSE IF w.kind = "pin" THEN [s EXCEPT !.unmatched = @ \ {w.id}]
    ELSE IF w.id = Gone THEN s ELSE [s EXCEPT !.libs[w.id] = Renamed(@, w)]
Refuses(w) ==
    \/ w.kind = "create" /\ NextId(Now.libs) > MaxLibs      \* bound: one library too many
    \/ w.id \in LibId /\ Now.libs[w.id] = Gone
EditServed(w) ==
    /\ w.reply = "none"
    /\ sent' = (sent \ {w}) \cup {[w EXCEPT !.reply = IF Refuses(w) THEN "refused" ELSE "ok"]}
    /\ past' = IF Refuses(w) \/ Effect(Now, w) = Now THEN past ELSE Append(past, Effect(Now, w))
    /\ excused' = IF w.kind = "create" /\ ~Refuses(w) /\ \E j \in 1 .. Len(past) : past[j].libs[NextId(Now.libs)] # Gone
                  THEN excused \cup {"reused"} ELSE excused
    /\ UNCHANGED <<at, view, reads, editors, panel, used>>

\* FAULTY: the flag is lifted by success alone.
LiftedOnOk(w, ok) == w.owned /\ ok
\* finally: the flag of whoever sent the write is lifted, whatever came of it.
Lifted(w, ok) == w.owned
Settles(w, ok) ==
    /\ editors' = IF w.id \in LibId /\ Lifted(w, ok) THEN [editors EXCEPT ![w.id].busy = FALSE] ELSE editors
    /\ panel' =
         LET p == [panel EXCEPT !.creating = @ /\ ~(w.paged /\ w.kind = "create"),
                                !.backfilling = @ /\ ~(w.paged /\ w.kind = "backfill" /\ at = "libraries"),
                                !.busy = @ /\ ~(w.paged /\ w.kind \in {"backfill", "enrich"} /\ at = "status"),
                                !.timers = IF ok /\ w.paged /\ w.kind \in {"backfill", "enrich"} /\ at = "status"
                                           THEN @ + 1 ELSE @,
                                !.fixBusy = @ /\ ~(w.owned /\ w.kind = "pin")]
         IN  IF ok /\ w.paged /\ w.kind = "pin" THEN DialogClosed(p) ELSE p

\* FAULTY: the list is not asked for again.
RefreshesNever(w) == FALSE
RefreshesAfter(w) == w.paged /\ w.kind \notin {"backfill", "enrich"}
EditAnswered(w) ==
    /\ w.reply = "ok" /\ Settles(w, TRUE)
    /\ sent' = IF w.kind = "pin" /\ w.paged THEN DialogDisowned(sent \ {w}) ELSE sent \ {w}
    /\ IF RefreshesAfter(w) THEN Refreshed ELSE UNCHANGED reads
    /\ UNCHANGED <<past, at, view, excused, used>>
EditRefused(w) ==
    /\ w.reply = "refused" /\ Settles(w, FALSE) /\ sent' = sent \ {w}
    /\ UNCHANGED <<past, at, view, reads, excused, used>>
\* The request or its answer is lost: an error, and no refresh.
EditLost(w) ==
    /\ AdminFault /\ w.reply # "refused" /\ Settles(w, FALSE) /\ sent' = sent \ {w}
    /\ excused' = IF w.reply = "ok" THEN excused \cup {"lost"} ELSE excused
    /\ UNCHANGED <<past, at, view, reads>>

-----------------------------------------------------------------------------
AdminInit ==
    /\ past \in {<<[libs |-> [id \in LibId |-> IF id > k THEN Gone
                                             ELSE [name |-> CHOOSE name \in LibName : TRUE, folders |-> Folder]],
                    unmatched |-> Title]>> : k \in LibId}
    /\ at \in {"libraries", "status"} /\ view = Unanswered /\ reads = <<Unanswered>>
    /\ editors = [id \in LibId |-> Blank] /\ panel = FreshPanel /\ sent = {}
    /\ excused = {} /\ used = [steps |-> 0, writes |-> 0, faults |-> 0]

AdminNext ==
    \/ (\E page \in {"libraries", "status"} : Visit(page)) \/ RefreshClick \/ TimerFires
    \/ (\E i \in 1 .. Len(reads) :
          (\E part \in {"list", "counts"} : ReadServed(i, part)) \/ ReadArrives(i) \/ ReadFails(i))
    \/ (\E id \in LibId :
          \/ (\E name \in Typed : TypeName(id, name)) \/ Rename(id)
          \/ AddFolder(id) \/ RemoveFolder(id) \/ Scan(id) \/ Delete(id))
    \/ Create \/ Backfill \/ (\E kind \in {"enrich", "backfill"} : RunPass(kind))
    \/ (\E t \in Title : FixMatch(t)) \/ CloseFix \/ PinFix
    \/ (\E w \in sent : EditServed(w) \/ EditAnswered(w) \/ EditRefused(w) \/ EditLost(w))

-----------------------------------------------------------------------------
(* Properties *)

\* With nothing in flight the page shows what the server has, whatever was
\* written from it by how many editors at once.  It may show less when a
\* request was lost, when an older answer came after a newer one, and when the
\* page was left before a write was answered.
Content(n) == IF at = "status" THEN past[n].unmatched ELSE past[n].libs
ListIsServers ==
    Loaded /\ reads = <<>> /\ sent = {} /\ panel.timers = 0 /\ excused \cap {"lost", "left", "outrun"} = {} =>
        \A part \in PartsOf(at) : Content(view[part]) = Content(Len(past))

\* A box nobody typed in holds the name of the library shown beside it, so
\* that leaving the box renames nothing.  The exceptions are a library that
\* was given the number of a deleted one, a page that was opened before a
\* rename of its last visit was served, and one where an older answer came
\* after a newer one: a library it takes away and brings back keeps, in a box
\* filled anew, the name it had then.
BoxIsTrue ==
    excused \cap {"reused", "left", "overtaken"} = {} =>
        \A id \in Mounted : ~editors[id].edited => editors[id].box = Shown.libs[id].name

\* Buttons are disabled exactly while what they started is under way: no flag
\* outlives its write, and no write of an editor that went away, or of a page
\* that was left, lifts the flag of another.
BusyIsTrue ==
    /\ \A id \in Mounted : editors[id].busy <=> \E w \in sent : w.owned /\ w.id = id
    /\ panel.creating <=> \E w \in sent : w.paged /\ w.kind = "create"
    /\ panel.busy <=> at = "status" /\ \E w \in sent : w.paged /\ w.kind \in {"enrich", "backfill"}
    /\ panel.fixBusy <=> \E w \in sent : w.owned /\ w.kind = "pin"

\* Name boxes and buttons are those of the libraries shown beside them.
EditorsAreTrue == BoxIsTrue /\ BusyIsTrue
=============================================================================
