-------------------------- MODULE WebStream_proofs --------------------------
(***************************************************************************)
(* Proofs about WebStream, for any tracks, any length of film and any      *)
(* number of switches, retries and errors: types, the live hls.js          *)
(* instances, the toast and the position behind it, the request behind a   *)
(* loading screen, what may be played directly, and the captions drawn.    *)
(***************************************************************************)
EXTENDS WebStream, TLAPS

RanDeps == [audio : Audio \cup {Default}, burn : Burn, forced : BOOLEAN, attempt : 0 .. MaxFaults]
TypeInv ==
    /\ StreamTypeOK /\ ran \in RanDeps
    /\ capsRan \in [sub : Burn, id : Decision \cup {None}]

\* The bounds are numbers, and null is apart from the data.
LEMMA StreamFacts ==
    /\ Length \in Nat /\ MaxRecoveries \in Nat /\ MaxFaults \in Nat
    /\ Place \subseteq Nat /\ 0 \in Place
    /\ None \notin Place /\ None \notin Sub /\ None \notin {"direct", "hls", "set", "importing", "failed"}
    /\ None \notin Decision
    /\ None \notin Request /\ None \notin Key /\ None \notin Source /\ Default \notin Audio
  BY StreamAssumption, NoneAssumption DEF Place, Mode

\* What the resolve effect asks with is typed, whatever it last ran with.
LEMMA KeyTypes ==
    ASSUME TypeInv
    PROVE  /\ Deps \in RanDeps /\ KeyOf(Deps) \in Key
           /\ \A key \in Key : QueryOf(key) \in Query
           /\ Props.caption \in Burn
  <1>1. page \in Page /\ retry \in Retry
    BY DEF TypeInv, StreamTypeOK
  <1>2. Props.audioTrack = page.audio /\ Props.burnIn = page.burnIn
        /\ Props.caption = IF page.burnIn # None THEN None ELSE page.selected
    BY DEF Props
  <1>3. /\ Deps.audio = page.audio /\ Deps.burn = page.burnIn
        /\ Deps.forced = retry.forced /\ Deps.attempt = retry.attempt
    BY <1>2 DEF Deps
  <1>4. Deps \in RanDeps
    BY <1>1, <1>2 DEF Deps, RanDeps, Page, Retry
  <1>5. Forced(Deps) \in BOOLEAN
    BY <1>4 DEF Forced, RanDeps
  <1>6. KeyOf(Deps) \in Key
    BY <1>4, <1>5 DEF KeyOf, Key, RanDeps
  <1>7. \A key \in Key : QueryOf(key) \in Query
    BY DEF QueryOf, Query, Key
  <1>8. Props.caption \in Burn
    BY <1>1, <1>2 DEF Page, Burn
  <1> QED
    BY <1>4, <1>6, <1>7, <1>8

\* The positions and ids the next steps start from.
LEMMA NowTypes ==
    ASSUME TypeInv
    PROVE  /\ Now \in Place /\ Captured \in Place \cup {None}
           /\ DecisionId \in Decision \cup {None} /\ SourceId \in Decision \cup {None}
           /\ Now > 0 => Captured = Now
           /\ ~(Now > 0) => Captured = resumeTo
  <1>1. /\ player \in Player /\ source \in Source \cup {None} /\ resumeTo \in Place \cup {None}
    BY DEF TypeInv, StreamTypeOK
  <1>2. Now \in Place
    BY <1>1, StreamFacts DEF Now, Source
  <1> QED
    BY <1>1, <1>2 DEF Captured, DecisionId, SourceId, Player, Source

\* A request starts with its key, or the key in flight or resolved absorbs it.
LEMMA RequestedTypes ==
    ASSUME NEW p \in Player, NEW key \in Key, NEW sw \in BOOLEAN, QueryOf(key) \in Query
    PROVE  /\ Requested(p, key, sw) \in Player
           /\ p.key = key => Requested(p, key, sw) = p
           /\ p.key # key => LET q == Requested(p, key, sw)
                             IN /\ q.phase = "loading" /\ q.decision = None /\ q.key = key
                                /\ q.request # None /\ q.request.query = QueryOf(key)
                                /\ q.request.switching = sw
           /\ Aborted(p) \in Player
           /\ p.request = None => Aborted(p) = p
           /\ p.request # None => Aborted(p).key = None
           /\ Aborted(p).request = None /\ Aborted(p).phase = p.phase /\ Aborted(p).decision = p.decision
  <1> DEFINE r == [query |-> QueryOf(key), switching |-> sw]
  <1>1. r \in Request /\ r # None /\ r.query = QueryOf(key) /\ r.switching = sw
    <2>1. r \in Request
      BY DEF Request
    <2> QED
      BY <2>1, StreamFacts
  <1>2. p.key = key => Requested(p, key, sw) = p
    BY DEF Requested
  <1>3. ASSUME p.key # key
        PROVE  LET q == Requested(p, key, sw)
               IN /\ q \in Player /\ q.phase = "loading" /\ q.decision = None /\ q.key = key /\ q.request = r
    <2>1. Requested(p, key, sw) = [p EXCEPT !.key = key, !.request = r, !.phase = "loading", !.decision = None]
      BY <1>3 DEF Requested
    <2> HIDE DEF r
    <2> QED
      BY <1>1, <2>1 DEF Player
  <1>4. /\ Aborted(p) \in Player
        /\ p.request # None => Aborted(p).key = None
        /\ Aborted(p).request = None /\ Aborted(p).phase = p.phase /\ Aborted(p).decision = p.decision
    BY DEF Aborted, Player
  <1>5. ASSUME p.request = None PROVE Aborted(p) = p
    <2>1. Aborted(p) = [p EXCEPT !.request = None, !.key = p.key]
      BY <1>5 DEF Aborted
    <2> QED
      BY <1>5, <2>1 DEF Player
  <1> HIDE DEF r
  <1> QED
    BY <1>1, <1>2, <1>3, <1>4, <1>5

\* Initially the player has asked for its first decision.
LEMMA StreamInit ==
    ASSUME Init
    PROVE  /\ TypeInv /\ player.phase = "loading" /\ player.request # None /\ player.decision = None
           /\ player.key = FirstKey /\ player.request.query = QueryOf(FirstKey)
  <1> DEFINE p0 == [phase |-> "loading", decision |-> None, request |-> None, key |-> None]
  <1>1. FirstKey \in Key /\ FirstKey # None
    <2>1. FirstKey \in Key
      BY StreamFacts DEF FirstKey, Key, Burn
    <2> QED
      BY <2>1, StreamFacts
  <1>2. QueryOf(FirstKey) \in Query
    BY <1>1 DEF QueryOf, Query, Key
  <1>3. p0 \in Player /\ p0.key # FirstKey
    BY <1>1 DEF Player
  <1>4. /\ Mounted \in Player /\ Mounted.request # None /\ Mounted.phase = "loading" /\ Mounted.decision = None
        /\ Mounted.key = FirstKey /\ Mounted.request.query = QueryOf(FirstKey)
    BY <1>1, <1>2, <1>3, RequestedTypes, ZenonT(60) DEF Mounted
  <1>5. Aborted(Mounted) \in Player /\ Aborted(Mounted).key = None /\ Aborted(Mounted).key # FirstKey
    BY <1>1, <1>2, <1>4, RequestedTypes
  <1>6. LET p == Requested(Aborted(Mounted), FirstKey, FALSE)
        IN /\ p \in Player /\ p.request # None /\ p.phase = "loading" /\ p.decision = None
           /\ p.key = FirstKey /\ p.request.query = QueryOf(FirstKey)
    BY <1>1, <1>2, <1>5, RequestedTypes, ZenonT(60)
  <1>7. /\ player \in Player /\ player.request # None /\ player.phase = "loading" /\ player.decision = None
        /\ player.key = FirstKey /\ player.request.query = QueryOf(FirstKey)
    BY <1>4, <1>6 DEF Init
  <1>8. StreamTypeOK
    <2>1. page \in Page
      BY DEF Init, Page, Burn
    <2>2. retry \in Retry
      BY StreamFacts DEF Init, Retry
    <2>3. /\ source = None /\ making = {} /\ alive = {} /\ imports = 0 /\ instances = 0
          /\ resumeTo = None /\ switching = FALSE /\ place = 0
      BY DEF Init
    <2>4. making \in SUBSET [sub : Sub, current : BOOLEAN] /\ alive \subseteq Sub
      BY <2>3
    <2>5. resumeTo \in Place \cup {None} /\ switching \in BOOLEAN /\ source \in Source \cup {None} /\ place \in Place
      BY <2>3, StreamFacts
    <2> QED
      BY <1>7, <2>1, <2>2, <2>3, <2>4, <2>5 DEF StreamTypeOK
  <1>9. ran \in RanDeps /\ capsRan \in [sub : Burn, id : Decision \cup {None}]
    BY StreamFacts DEF Init, FirstDeps, RanDeps, Burn
  <1> QED
    BY <1>7, <1>8, <1>9 DEF TypeInv

-----------------------------------------------------------------------------
(* Types *)

\* A rendered change of the page.
LEMMA RenderTypes ==
    ASSUME TypeInv, NEW p \in Page, Render(p)
    PROVE  /\ page' \in Page /\ resumeTo' \in Place \cup {None} /\ place' \in Place
           /\ UNCHANGED <<player, ran, retry, switching, element>>
  <1>1. resumeTo \in Place \cup {None} /\ place \in Place
    BY DEF TypeInv, StreamTypeOK
  <1> QED
    BY <1>1, NowTypes DEF Render

\* The page's part of every choice.
LEMMA ChoiceTypes ==
    ASSUME TypeInv
    PROVE  /\ \A a \in Audio : [page EXCEPT !.audio = a] \in Page
           /\ \A s \in Burn : [page EXCEPT !.selected = s, !.burnIn = None] \in Page
           /\ \A a \in Audio \cup {Default}, s \in Burn :
                 [page EXCEPT !.loaded = TRUE, !.audio = a, !.selected = s] \in Page
           /\ \A s \in Sub : [page EXCEPT !.burnIn = IF s \in Embedded THEN s ELSE @] \in Page
  <1>1. page \in Page
    BY DEF TypeInv, StreamTypeOK
  <1>2. ASSUME NEW s \in Sub
        PROVE  [page EXCEPT !.burnIn = IF s \in Embedded THEN s ELSE @] \in Page
    <2>1. (IF s \in Embedded THEN s ELSE page.burnIn) \in Burn
      BY <1>1 DEF Page, Burn
    <2> DEFINE b == IF s \in Embedded THEN s ELSE page.burnIn
    <2>2. [page EXCEPT !.burnIn = b] \in Page
      <3> HIDE DEF b
      <3> SUFFICES b \in Burn
        BY <1>1 DEF Page
      <3> QED
        BY <2>1 DEF b
    <2> QED
      BY <2>2
  <1>3. \A a \in Audio : [page EXCEPT !.audio = a] \in Page
    BY <1>1 DEF Page
  <1>4. \A s \in Burn : [page EXCEPT !.selected = s, !.burnIn = None] \in Page
    BY <1>1 DEF Page, Burn
  <1>5. \A a \in Audio \cup {Default}, s \in Burn :
           [page EXCEPT !.loaded = TRUE, !.audio = a, !.selected = s] \in Page
    BY <1>1 DEF Page
  <1> QED
    BY <1>2, <1>3, <1>4, <1>5

\* The steps of the source: what becomes of the element and its instances.
LEMMA SourceTypes ==
    ASSUME TypeInv
    PROVE  /\ \A d \in Decision, target \in Place \cup {None} :
                 /\ Attached(d, target) \in Source /\ Attached(d, target).id = d
                 /\ Attached(d, target).stage \in {"set", "importing"}
                 /\ ~Attached(d, target).loaded /\ Attached(d, target).at = 0
                 /\ Attached(d, target).listener = target
  <1> SUFFICES ASSUME NEW d \in Decision, NEW target \in Place \cup {None}
               PROVE  /\ Attached(d, target) \in Source /\ Attached(d, target).id = d
                      /\ Attached(d, target).stage \in {"set", "importing"}
                      /\ ~Attached(d, target).loaded /\ Attached(d, target).at = 0
                      /\ Attached(d, target).listener = target
    OBVIOUS
  <1>1. 0 \in Place /\ 0 \in 0 .. MaxRecoveries
    BY StreamFacts
  <1> QED
    BY <1>1 DEF Attached, Source

\* Every step keeps the types.
LEMMA TypesStep == TypeInv /\ [Next]_vars => TypeInv'
  <1> SUFFICES ASSUME TypeInv, [Next]_vars PROVE TypeInv'
    OBVIOUS
  <1> USE DEF stream, element, captions
  <1>1. /\ page \in Page /\ player \in Player /\ retry \in Retry
        /\ resumeTo \in Place \cup {None} /\ switching \in BOOLEAN
        /\ source \in Source \cup {None} /\ imports \in Nat /\ instances \in Int
        /\ making \in SUBSET [sub : Sub, current : BOOLEAN] /\ alive \subseteq Sub
        /\ place \in Place /\ ran \in RanDeps
        /\ capsRan \in [sub : Burn, id : Decision \cup {None}]
    BY DEF TypeInv, StreamTypeOK
  <1> DEFINE Goal == TypeInv'
  <1>2. SUFFICES Goal
    OBVIOUS
  <1>3. CASE UNCHANGED vars
    BY <1>3 DEF TypeInv, StreamTypeOK, vars
  <1>4. CASE ResolveEffect
    <2> DEFINE p == Requested(Aborted(player), KeyOf(Deps), resumeTo # None)
    <2>1. /\ ran' = Deps /\ player' = p /\ switching' = (switching \/ (p.request # None /\ resumeTo # None))
          /\ UNCHANGED <<page, retry, resumeTo, element, captions, place, budget>>
      BY <1>4 DEF ResolveEffect
    <2>2. p \in Player
      <3>1. (resumeTo # None) \in BOOLEAN /\ Deps \in RanDeps /\ KeyOf(Deps) \in Key /\ QueryOf(KeyOf(Deps)) \in Query
        BY KeyTypes
      <3> HIDE DEF RanDeps
      <3>2. Aborted(player) \in Player
        BY <1>1, <3>1, RequestedTypes
      <3> QED
        BY <3>1, <3>2, RequestedTypes
    <2> HIDE DEF p
    <2>3. ran' \in RanDeps /\ switching' \in BOOLEAN
      BY <1>1, <2>1, KeyTypes
    <2> QED
      BY <1>1, <2>1, <2>2, <2>3 DEF TypeInv, StreamTypeOK
  <1>5. CASE AttachEffect
    <2>1. DecisionId \in Decision \cup {None}
      BY NowTypes
    <2>2. source' \in Source \cup {None} /\ imports' \in Nat /\ instances' \in Int /\ resumeTo' = resumeTo
      BY <1>1, <1>5, <2>1, SourceTypes DEF AttachEffect, TargetAfterTeardown
    <2>3. UNCHANGED <<page, player, ran, retry, switching, captions, place, budget>>
      BY <1>5 DEF AttachEffect
    <2> QED
      BY <1>1, <2>2, <2>3 DEF TypeInv, StreamTypeOK
  <1>6. CASE CaptionsEffect
    <2>1. capsRan' = CapsDeps /\ alive' = {} /\ UNCHANGED <<page, stream, element, place, budget>>
          /\ making' = {[m EXCEPT !.current = FALSE] : m \in making}
                       \cup [sub : {Props.caption} \cap ClientRendered, current : {TRUE}]
      BY <1>6 DEF CaptionsEffect
    <2>2. capsRan' \in [sub : Burn, id : Decision \cup {None}]
      BY <2>1, NowTypes, KeyTypes DEF CapsDeps
    <2>3. making' \in SUBSET [sub : Sub, current : BOOLEAN]
      <3>1. \A m \in making : [m EXCEPT !.current = FALSE] \in [sub : Sub, current : BOOLEAN]
        BY <1>1
      <3>2. [sub : {Props.caption} \cap ClientRendered, current : {TRUE}] \subseteq [sub : Sub, current : BOOLEAN]
        BY StreamAssumption
      <3>3. {[m EXCEPT !.current = FALSE] : m \in making} \subseteq [sub : Sub, current : BOOLEAN]
        BY <3>1
      <3> QED
        BY <2>1, <3>2, <3>3
    <2> QED
      BY <1>1, <2>1, <2>2, <2>3 DEF TypeInv, StreamTypeOK
  <1>7. CASE Answer
    <2>1. PICK d \in Decisions(player.request.query) :
             /\ player' = [player EXCEPT !.phase = "ready", !.request = None, !.decision = d]
             /\ page' = [page EXCEPT !.baseMode = BaseModeAfter(d)]
      BY <1>7 DEF Answer
    <2>2. player.request \in Request
      BY <1>1, <1>7 DEF Answer, Answerable, Player
    <2>3. d \in Decision
      BY <2>2 DEF Decisions, Decision, Request, Query, Mode
    <2>4. BaseModeAfter(d) \in Mode \cup {None}
      BY <1>1, <2>3 DEF BaseModeAfter, Decision, Page
    <2>5. player' \in Player /\ page' \in Page
      BY <1>1, <2>1, <2>3, <2>4 DEF Player, Page
    <2>6. UNCHANGED <<ran, retry, resumeTo, switching, element, captions, place, budget>>
      BY <1>7 DEF Answer
    <2> QED
      BY <1>1, <2>5, <2>6 DEF TypeInv, StreamTypeOK
  <1>8. CASE RequestFails
    <2>1. player' \in Player /\ switching' \in BOOLEAN
      BY <1>1, <1>8 DEF RequestFails, Player
    <2>2. UNCHANGED <<page, ran, retry, resumeTo, element, captions, place>>
      BY <1>8 DEF RequestFails
    <2> QED
      BY <1>1, <2>1, <2>2 DEF TypeInv, StreamTypeOK
  <1>9. CASE PressRetry
    <2>1. retry' \in Retry
      BY <1>1, <1>9, StreamFacts DEF PressRetry, Retry
    <2>2. UNCHANGED <<page, player, ran, resumeTo, switching, element, captions, place, budget>>
      BY <1>9 DEF PressRetry
    <2> QED
      BY <1>1, <2>1, <2>2 DEF TypeInv, StreamTypeOK
  <1>10. CASE ImportLands \/ ImportFails
    <2>1. source \in Source
      BY <1>1, <1>10, StreamFacts DEF ImportLands, ImportFails, Stage
    <2>2. source' \in Source /\ player' \in Player /\ instances' \in Int
      <3>1. /\ [source EXCEPT !.stage = "hls"] \in Source /\ [source EXCEPT !.stage = "set"] \in Source
            /\ [source EXCEPT !.stage = "failed"] \in Source
            /\ [player EXCEPT !.phase = "error", !.decision = None] \in Player
        BY <1>1, <2>1 DEF Source, Player
      <3> QED
        BY <1>1, <1>10, <3>1 DEF ImportLands, ImportFails, stream
    <2>3. UNCHANGED <<page, ran, retry, resumeTo, switching, imports, captions, place>>
      BY <1>10 DEF ImportLands, ImportFails, stream
    <2> QED
      BY <1>1, <2>2, <2>3 DEF TypeInv, StreamTypeOK
  <1>11. CASE StaleImportLands
    BY <1>1, <1>11 DEF StaleImportLands, InstancesAfterCancelled, TypeInv, StreamTypeOK
  <1>12. CASE MetadataLoads
    <2>1. source \in Source
      BY <1>1, <1>12 DEF MetadataLoads
    <2>2. source' \in Source /\ resumeTo' \in Place \cup {None} /\ switching' \in BOOLEAN
      <3> DEFINE at == IF source.listener = None THEN 0 ELSE source.listener
      <3>1. at \in Place
        BY <2>1, StreamFacts DEF Source
      <3>2. source' = [source EXCEPT !.loaded = TRUE, !.listener = None, !.at = at]
        BY <1>12 DEF MetadataLoads
      <3> HIDE DEF at
      <3> QED
        BY <1>1, <1>12, <2>1, <3>1, <3>2 DEF MetadataLoads, Source
    <2>3. UNCHANGED <<page, player, ran, retry, imports, instances, captions, place, budget>>
      BY <1>12 DEF MetadataLoads
    <2> QED
      BY <1>1, <2>2, <2>3 DEF TypeInv, StreamTypeOK
  <1>13. CASE TimePasses
    <2>1. source \in Source /\ source.at < Length /\ source' = [source EXCEPT !.at = source.at + 1]
      BY <1>1, <1>13 DEF TimePasses
    <2>2. source.at + 1 \in Place
      BY <2>1, StreamFacts DEF Source, Place
    <2>3. source' \in Source
      BY <2>1, <2>2 DEF Source
    <2>4. UNCHANGED <<page, stream, imports, instances, captions, place, budget>>
      BY <1>13 DEF TimePasses
    <2> QED
      BY <1>1, <2>3, <2>4 DEF TypeInv, StreamTypeOK
  <1>14. CASE HlsFatal
    <2>1. source \in Source
      BY <1>1, <1>14, StreamFacts DEF HlsFatal, Stage
    <2>2. source' \in Source /\ player' \in Player
      <3>1. CASE source.recoveries < MaxRecoveries /\ source' = [source EXCEPT !.recoveries = @ + 1] /\ UNCHANGED player
        <4>1. source.recoveries + 1 \in 0 .. MaxRecoveries
          BY <2>1, <3>1, StreamFacts DEF Source
        <4> QED
          BY <1>1, <2>1, <3>1, <4>1 DEF Source
      <3>2. CASE GivesUp /\ UNCHANGED source
        BY <1>1, <2>1, <3>2 DEF GivesUp, Player
      <3> QED
        BY <1>14, <3>1, <3>2 DEF HlsFatal
    <2>3. UNCHANGED <<page, ran, retry, resumeTo, switching, imports, instances, captions, place>>
      BY <1>14 DEF HlsFatal
    <2> QED
      BY <1>1, <2>2, <2>3 DEF TypeInv, StreamTypeOK
  <1>15. CASE ElementError
    <2>1. player' \in Player /\ retry' \in Retry
      BY <1>1, <1>15 DEF ElementError, GivesUp, Player, Retry
    <2>2. UNCHANGED <<page, ran, resumeTo, switching, element, captions, place>>
      BY <1>15 DEF ElementError
    <2> QED
      BY <1>1, <2>1, <2>2 DEF TypeInv, StreamTypeOK
  <1>16. CASE FilesArrive \/ (\E a \in Audio : SelectAudio(a)) \/ (\E s \in Burn : SelectSubtitle(s))
    <2>1. \E p \in Page : Render(p)
      BY <1>16, ChoiceTypes DEF FilesArrive, SelectAudio, SelectSubtitle
    <2>2. UNCHANGED captions
      BY <1>16 DEF FilesArrive, SelectAudio, SelectSubtitle
    <2>3. /\ page' \in Page /\ resumeTo' \in Place \cup {None} /\ place' \in Place
          /\ UNCHANGED <<player, ran, retry, switching, element>>
      BY <2>1, RenderTypes
    <2> QED
      BY <1>1, <2>2, <2>3 DEF TypeInv, StreamTypeOK
  <1>17. CASE \E m \in making : RendererFails(m)
    <2>1. PICK m \in making : RendererFails(m)
      BY <1>17
    <2>2. m.sub \in Sub /\ BurnIn(m.sub) /\ making' = making \ {m} /\ UNCHANGED <<capsRan, alive>>
      BY <1>1, <2>1 DEF RendererFails
    <2>3. /\ page' \in Page /\ resumeTo' \in Place \cup {None} /\ place' \in Place
          /\ UNCHANGED <<player, ran, retry, switching, element>>
      BY <2>2, ChoiceTypes, RenderTypes DEF BurnIn
    <2> QED
      BY <1>1, <2>2, <2>3 DEF TypeInv, StreamTypeOK
  <1>18. CASE \E s \in alive : RendererDies(s)
    <2>1. PICK s \in alive : RendererDies(s)
      BY <1>18
    <2>2. s \in Sub /\ BurnIn(s) /\ alive' = alive \ {s} /\ UNCHANGED <<capsRan, making>>
      BY <1>1, <2>1 DEF RendererDies
    <2>3. /\ page' \in Page /\ resumeTo' \in Place \cup {None} /\ place' \in Place
          /\ UNCHANGED <<player, ran, retry, switching, element>>
      BY <2>2, ChoiceTypes, RenderTypes DEF BurnIn
    <2> QED
      BY <1>1, <2>2, <2>3 DEF TypeInv, StreamTypeOK
  <1>19. CASE \E m \in making : RendererMade(m)
    <2>1. PICK m \in making : RendererMade(m)
      BY <1>19
    <2>2. alive' \subseteq Sub /\ making' = making \ {m} /\ UNCHANGED <<page, stream, element, capsRan, place, budget>>
      BY <1>1, <2>1 DEF RendererMade, Arrives
    <2> QED
      BY <1>1, <2>2 DEF TypeInv, StreamTypeOK
  <1> HIDE DEF Goal
  <1> QED
    BY <1>3, <1>4, <1>5, <1>6, <1>7, <1>8, <1>9, <1>10, <1>11, <1>12, <1>13, <1>14, <1>15,
       <1>16, <1>17, <1>18, <1>19 DEF Next, Arriving

-----------------------------------------------------------------------------
(* Instances of hls.js *)

\* The steps that touch the element or its instances.
LEMMA ElementSteps ==
    [Next]_vars => \/ AttachEffect \/ ImportLands \/ ImportFails \/ StaleImportLands \/ MetadataLoads
                   \/ TimePasses \/ HlsFatal \/ UNCHANGED element
  <1> USE DEF stream, element, captions
  <1>1. UNCHANGED vars => UNCHANGED element
    BY DEF vars
  <1>2. ResolveEffect \/ CaptionsEffect \/ Answer \/ RequestFails \/ PressRetry \/ ElementError => UNCHANGED element
    BY DEF ResolveEffect, CaptionsEffect, Answer, RequestFails, PressRetry, ElementError
  <1>3. FilesArrive \/ (\E a \in Audio : SelectAudio(a)) \/ (\E s \in Burn : SelectSubtitle(s)) => UNCHANGED element
    BY DEF FilesArrive, SelectAudio, SelectSubtitle, Render
  <1>4. (\E m \in making : RendererMade(m) \/ RendererFails(m)) \/ (\E s \in alive : RendererDies(s)) => UNCHANGED element
    BY DEF RendererMade, RendererFails, RendererDies, BurnIn, Render
  <1> QED
    BY <1>1, <1>2, <1>3, <1>4 DEF Next, Arriving

\* What a step of the attached source leaves of it: its type, its id, its stage.
LEMMA SourceKeeps ==
    ASSUME TypeInv, source \in Source, MetadataLoads \/ TimePasses \/ HlsFatal
    PROVE  source' \in Source /\ source'.id = source.id /\ source'.stage = source.stage /\ instances' = instances
  <1>1. CASE MetadataLoads
    <2> DEFINE at == IF source.listener = None THEN 0 ELSE source.listener
    <2>1. at \in Place
      BY StreamFacts DEF Source
    <2>2. source' = [source EXCEPT !.loaded = TRUE, !.listener = None, !.at = at] /\ instances' = instances
      BY <1>1 DEF MetadataLoads
    <2> HIDE DEF at
    <2> QED
      BY <2>1, <2>2 DEF Source
  <1>2. CASE TimePasses
    <2>1. source' = [source EXCEPT !.at = source.at + 1] /\ instances' = instances /\ source.at < Length
      BY <1>2 DEF TimePasses
    <2>2. source.at + 1 \in Place
      BY <2>1, StreamFacts DEF Source, Place
    <2> QED
      BY <2>1, <2>2 DEF Source
  <1>3. CASE HlsFatal
    <2>1. instances' = instances /\ \/ source' = source
                                    \/ /\ source.recoveries < MaxRecoveries
                                       /\ source' = [source EXCEPT !.recoveries = source.recoveries + 1]
      BY <1>3 DEF HlsFatal
    <2>2. CASE source.recoveries < MaxRecoveries /\ source' = [source EXCEPT !.recoveries = source.recoveries + 1]
      <3>1. source.recoveries + 1 \in 0 .. MaxRecoveries
        BY <2>2, StreamFacts DEF Source
      <3> QED
        BY <2>1, <2>2, <3>1 DEF Source
    <2> QED
      BY <2>1, <2>2
  <1> QED
    BY <1>1, <1>2, <1>3

LEMMA InstanceStep == TypeInv /\ OneInstance /\ [Next]_vars => OneInstance'
  <1> SUFFICES ASSUME TypeInv, OneInstance, [Next]_vars PROVE OneInstance'
    OBVIOUS
  <1>1. source \in Source \cup {None} /\ instances \in Int
    BY DEF TypeInv, StreamTypeOK
  <1> DEFINE Goal == OneInstance'
  <1>2. SUFFICES Goal
    OBVIOUS
  <1>3. CASE UNCHANGED element
    BY <1>3 DEF element, OneInstance, Stage
  <1>4. CASE AttachEffect
    <2>1. Stage' # "hls"
      <3>1. CASE DecisionId = None
        BY <1>4, <3>1, StreamFacts DEF AttachEffect, Stage
      <3>2. CASE DecisionId # None
        <4>1. DecisionId \in Decision /\ resumeTo \in Place \cup {None}
          BY <3>2, NowTypes DEF TypeInv, StreamTypeOK
        <4>2. source' = Attached(DecisionId, resumeTo)
          BY <1>4, <3>2 DEF AttachEffect, TargetAfterTeardown
        <4> QED
          BY <4>1, <4>2, SourceTypes, StreamFacts DEF Stage
      <3> QED
        BY <3>1, <3>2
    <2>2. instances' = IF Stage = "hls" THEN instances - 1 ELSE instances
      BY <1>4 DEF AttachEffect
    <2> QED
      BY <1>1, <2>1, <2>2 DEF OneInstance
  <1>5. CASE ImportLands
    <2>1. Stage = "importing" /\ source \in Source
      BY <1>1, <1>5, StreamFacts DEF ImportLands, Stage
    <2>2. /\ [source EXCEPT !.stage = "hls"] \in Source /\ [source EXCEPT !.stage = "hls"].stage = "hls"
          /\ [source EXCEPT !.stage = "set"] \in Source /\ [source EXCEPT !.stage = "set"].stage = "set"
      BY <2>1 DEF Source
    <2>3. \/ source' = [source EXCEPT !.stage = "hls"] /\ instances' = instances + 1
          \/ source' = [source EXCEPT !.stage = "set"] /\ instances' = instances
      BY <1>5 DEF ImportLands
    <2>4. \/ Stage' = "hls" /\ instances' = instances + 1
          \/ Stage' = "set" /\ instances' = instances
      BY <2>2, <2>3, StreamFacts DEF Stage
    <2> QED
      BY <2>1, <2>4 DEF OneInstance
  <1>6. CASE StaleImportLands
    BY <1>6 DEF StaleImportLands, InstancesAfterCancelled, OneInstance, Stage
  <1>61. CASE ImportFails
    <2>1. Stage = "importing" /\ source \in Source
      BY <1>1, <1>61, StreamFacts DEF ImportFails, Stage
    <2>2. source' \in Source /\ source'.stage = "failed" /\ instances' = instances
      BY <1>61, <2>1 DEF ImportFails, Source
    <2>3. Stage' = "failed"
      BY <2>2, StreamFacts DEF Stage
    <2> QED
      BY <2>1, <2>2, <2>3 DEF OneInstance
  <1>7. CASE MetadataLoads \/ TimePasses \/ HlsFatal
    <2>1. source \in Source
      BY <1>1, <1>7, StreamFacts DEF MetadataLoads, TimePasses, HlsFatal, Stage
    <2>2. source' \in Source /\ source'.stage = source.stage /\ instances' = instances
      BY <1>7, <2>1, SourceKeeps
    <2>3. Stage' = Stage
      BY <2>1, <2>2, StreamFacts DEF Stage
    <2> QED
      BY <2>2, <2>3 DEF OneInstance
  <1> HIDE DEF Goal
  <1> QED
    BY <1>3, <1>4, <1>5, <1>6, <1>61, <1>7, ElementSteps

-----------------------------------------------------------------------------
(* Captions *)

\* Whatever draws, or will draw on arrival, is the caption of the last effect.
CaptionInv ==
    /\ alive \subseteq {capsRan.sub}
    /\ \A m \in making : m.current => m.sub = capsRan.sub

LEMMA CaptionSteps ==
    [Next]_vars => \/ CaptionsEffect \/ (\E m \in making : RendererMade(m) \/ RendererFails(m))
                   \/ (\E s \in alive : RendererDies(s)) \/ UNCHANGED captions
  <1> USE DEF stream, element
  <1>1. UNCHANGED vars => UNCHANGED captions
    BY DEF vars
  <1>2. ResolveEffect \/ AttachEffect \/ PressRetry \/ TimePasses \/ HlsFatal \/ ElementError => UNCHANGED captions
    BY DEF ResolveEffect, AttachEffect, PressRetry, TimePasses, HlsFatal, ElementError
  <1>3. Arriving => UNCHANGED captions
    BY DEF Arriving, Answer, RequestFails, ImportLands, ImportFails, StaleImportLands, MetadataLoads
  <1>4. FilesArrive \/ (\E a \in Audio : SelectAudio(a)) \/ (\E s \in Burn : SelectSubtitle(s)) => UNCHANGED captions
    BY DEF FilesArrive, SelectAudio, SelectSubtitle
  <1> QED
    BY <1>1, <1>2, <1>3, <1>4 DEF Next

LEMMA CaptionStep == TypeInv /\ CaptionInv /\ [Next]_vars => CaptionInv'
  <1> SUFFICES ASSUME TypeInv, CaptionInv, [Next]_vars PROVE CaptionInv'
    OBVIOUS
  <1>1. making \in SUBSET [sub : Sub, current : BOOLEAN]
    BY DEF TypeInv, StreamTypeOK
  <1> DEFINE Goal == CaptionInv'
  <1>2. SUFFICES Goal
    OBVIOUS
  <1>3. CASE UNCHANGED captions
    BY <1>3 DEF captions, CaptionInv
  <1>4. CASE CaptionsEffect
    <2>1. capsRan'.sub = Props.caption /\ alive' = {}
      BY <1>4 DEF CaptionsEffect, CapsDeps
    <2>2. ASSUME NEW m \in making', m.current PROVE m.sub = Props.caption
      <3>1. CASE m \in [sub : {Props.caption} \cap ClientRendered, current : {TRUE}]
        BY <3>1
      <3>2. CASE \E n \in making : m = [n EXCEPT !.current = FALSE]
        BY <1>1, <2>2, <3>2
      <3> QED
        BY <1>4, <3>1, <3>2 DEF CaptionsEffect
    <2> QED
      BY <2>1, <2>2 DEF CaptionInv
  <1>5. CASE \E m \in making : RendererMade(m)
    <2>1. PICK m \in making : RendererMade(m)
      BY <1>5
    <2>2. /\ alive' = (IF m.current THEN alive \cup {m.sub} ELSE alive)
          /\ making' = making \ {m} /\ capsRan' = capsRan
      BY <2>1 DEF RendererMade, Arrives
    <2> QED
      BY <2>2 DEF CaptionInv
  <1>6. CASE (\E m \in making : RendererFails(m)) \/ (\E s \in alive : RendererDies(s))
    <2>1. making' \subseteq making /\ alive' \subseteq alive /\ capsRan' = capsRan
      BY <1>6 DEF RendererFails, RendererDies
    <2> QED
      BY <2>1 DEF CaptionInv
  <1> HIDE DEF Goal
  <1> QED
    BY <1>3, <1>4, <1>5, <1>6, CaptionSteps

-----------------------------------------------------------------------------
(* The position behind a switch *)

\* The toast has a target; the target is the viewer's place; and a source that
\* is to seek on load seeks there, having played nothing yet.
PlaceInv ==
    /\ switching => resumeTo # None
    /\ resumeTo # None => resumeTo = place
    /\ source # None => /\ ~source.loaded => source.at = 0
                        /\ source.listener # None => ~source.loaded /\ source.listener = resumeTo

LEMMA PlaceSteps ==
    [Next]_vars =>
        \/ ResolveEffect \/ AttachEffect \/ ImportLands \/ ImportFails \/ MetadataLoads \/ TimePasses \/ HlsFatal \/ RequestFails
        \/ (\E p : Render(p)) \/ UNCHANGED <<resumeTo, switching, source, place>>
  <1> USE DEF stream, element
  <1> DEFINE Quiet == UNCHANGED <<resumeTo, switching, source, place>>
  <1>1. UNCHANGED vars => Quiet
    BY DEF vars
  <1>2. PressRetry \/ ElementError \/ Answer \/ StaleImportLands \/ CaptionsEffect => Quiet
    BY DEF PressRetry, ElementError, Answer, StaleImportLands, CaptionsEffect
  <1>3. FilesArrive \/ (\E a \in Audio : SelectAudio(a)) \/ (\E s \in Burn : SelectSubtitle(s)) => \E p : Render(p)
    BY DEF FilesArrive, SelectAudio, SelectSubtitle
  <1>4. (\E m \in making : RendererFails(m)) \/ (\E s \in alive : RendererDies(s)) => \E p : Render(p)
    BY DEF RendererFails, RendererDies, BurnIn
  <1>5. (\E m \in making : RendererMade(m)) => Quiet
    BY DEF RendererMade
  <1> HIDE DEF Quiet
  <1>6. [Next]_vars =>
           \/ ResolveEffect \/ AttachEffect \/ ImportLands \/ ImportFails \/ MetadataLoads \/ TimePasses \/ HlsFatal \/ RequestFails
           \/ (\E p : Render(p)) \/ Quiet
    BY <1>1, <1>2, <1>3, <1>4, <1>5 DEF Next, Arriving
  <1> QED
    BY <1>6 DEF Quiet

LEMMA PlaceStep == TypeInv /\ PlaceInv /\ [Next]_vars => PlaceInv'
  <1> SUFFICES ASSUME TypeInv, PlaceInv, [Next]_vars PROVE PlaceInv'
    OBVIOUS
  <1> USE DEF stream, element
  <1>1. /\ source \in Source \cup {None} /\ resumeTo \in Place \cup {None} /\ switching \in BOOLEAN
        /\ place \in Place
    BY DEF TypeInv, StreamTypeOK
  <1> DEFINE Goal == PlaceInv'
  <1>2. SUFFICES Goal
    OBVIOUS
  <1>3. CASE UNCHANGED <<resumeTo, switching, source, place>>
    BY <1>3 DEF PlaceInv
  <1>4. CASE ResolveEffect
    <2>1. UNCHANGED <<resumeTo, source, place>> /\ (switching' => switching \/ resumeTo # None)
      BY <1>4 DEF ResolveEffect
    <2> QED
      BY <2>1 DEF PlaceInv
  <1>5. CASE RequestFails
    <2>1. UNCHANGED <<resumeTo, source, place>> /\ (switching' => switching)
      BY <1>5 DEF RequestFails
    <2> QED
      BY <2>1 DEF PlaceInv
  <1>6. CASE AttachEffect
    <2>1. UNCHANGED <<resumeTo, switching, place>>
          /\ source' = IF DecisionId = None THEN None ELSE Attached(DecisionId, resumeTo)
      BY <1>6 DEF AttachEffect, TargetAfterTeardown
    <2>2. CASE DecisionId = None
      BY <2>1, <2>2 DEF PlaceInv
    <2>3. CASE DecisionId # None
      <3>1. /\ Attached(DecisionId, resumeTo).at = 0 /\ ~Attached(DecisionId, resumeTo).loaded
            /\ Attached(DecisionId, resumeTo).listener = resumeTo
        BY <1>1, <2>3, NowTypes, SourceTypes
      <3> QED
        BY <2>1, <2>3, <3>1 DEF PlaceInv
    <2> QED
      BY <2>2, <2>3
  <1>7. CASE ImportLands \/ ImportFails
    <2>1. source \in Source /\ UNCHANGED <<resumeTo, switching, place>>
      BY <1>1, <1>7, StreamFacts DEF ImportLands, ImportFails, Stage, stream
    <2>2. \E stage \in {"hls", "set", "failed"} : source' = [source EXCEPT !.stage = stage]
      BY <1>7 DEF ImportLands, ImportFails
    <2>3. source'.loaded = source.loaded /\ source'.at = source.at /\ source'.listener = source.listener
      BY <2>1, <2>2 DEF Source
    <2> QED
      BY <2>1, <2>3, StreamFacts DEF PlaceInv
  <1>8. CASE MetadataLoads
    <2>1. source \in Source /\ UNCHANGED place
      BY <1>1, <1>8 DEF MetadataLoads
    <2> DEFINE at == IF source.listener = None THEN 0 ELSE source.listener
    <2>2. source' = [source EXCEPT !.loaded = TRUE, !.listener = None, !.at = at]
      BY <1>8 DEF MetadataLoads
    <2>3. source'.loaded = TRUE /\ source'.listener = None
      BY <2>1, <2>2 DEF Source
    <2>4. CASE source.listener = None
      <3>1. resumeTo' = resumeTo /\ (switching' => switching)
        BY <1>8, <2>4 DEF MetadataLoads
      <3> QED
        BY <2>1, <2>3, <3>1 DEF PlaceInv
    <2>5. CASE source.listener # None
      <3>1. resumeTo' = None /\ ~switching'
        BY <1>8, <2>5 DEF MetadataLoads
      <3> QED
        BY <2>1, <2>3, <3>1 DEF PlaceInv
    <2> QED
      BY <2>4, <2>5
  <1>9. CASE TimePasses
    <2>1. source \in Source /\ source.loaded /\ source' = [source EXCEPT !.at = source.at + 1]
          /\ UNCHANGED <<resumeTo, switching, place>>
      BY <1>1, <1>9 DEF TimePasses
    <2>2. source'.loaded /\ source'.listener = source.listener
      BY <2>1 DEF Source
    <2> QED
      BY <2>1, <2>2, StreamFacts DEF PlaceInv
  <1>10. CASE HlsFatal
    <2>1. source \in Source /\ UNCHANGED <<resumeTo, switching, place>>
      BY <1>1, <1>10, StreamFacts DEF HlsFatal, Stage
    <2>2. source' = source \/ source' = [source EXCEPT !.recoveries = @ + 1]
      BY <1>10 DEF HlsFatal
    <2>3. source'.loaded = source.loaded /\ source'.at = source.at /\ source'.listener = source.listener
      BY <2>1, <2>2 DEF Source
    <2> QED
      BY <2>1, <2>3, StreamFacts DEF PlaceInv
  <1>11. CASE \E p : Render(p)
    <2>1. UNCHANGED <<switching, source>>
      BY <1>11 DEF Render
    <2>2. CASE UNCHANGED <<resumeTo, place>>
      BY <2>1, <2>2 DEF PlaceInv
    <2>3. CASE resumeTo' = Captured /\ place' = (IF Now > 0 THEN Now ELSE place)
      <3>1. CASE Now > 0
        <4>1. resumeTo' = Now /\ place' = Now /\ Now # None
          BY <2>3, <3>1, NowTypes, StreamFacts
        <4>2. source # None => source.loaded
          BY <3>1 DEF Now, PlaceInv
        <4> QED
          BY <2>1, <4>1, <4>2 DEF PlaceInv
      <3>2. CASE ~(Now > 0)
        BY <2>1, <2>3, <3>2, NowTypes DEF PlaceInv
      <3> QED
        BY <3>1, <3>2
    <2> QED
      BY <1>11, <2>2, <2>3 DEF Render
  <1> HIDE DEF Goal
  <1> QED
    BY <1>3, <1>4, <1>5, <1>6, <1>7, <1>8, <1>9, <1>10, <1>11, PlaceSteps

-----------------------------------------------------------------------------
(* The request behind a loading screen *)

\* The key in flight or resolved tells what was asked; a player that loads
\* without a request fell back from a direct stream, and its effect is due.
LoadInv ==
    /\ retry.forced = retry.fellBack
    /\ ran.attempt <= retry.attempt
    /\ ran.attempt = retry.attempt /\ ran.forced => retry.forced
    /\ player.key # None => player.key.attempt <= retry.attempt
    /\ player.request # None => /\ player.key # None /\ player.request.query = QueryOf(player.key)
                                /\ player.phase # "ready"
    /\ player.phase = "ready" /\ player.decision.mode = "direct" /\ player.key # None => ~player.key.force
    /\ player.phase = "loading" /\ player.request = None =>
          /\ retry.forced /\ (ran.attempt < retry.attempt \/ ~ran.forced)
          /\ player.key # None => ~player.key.force \/ player.key.attempt < retry.attempt

LEMMA LoadSteps ==
    [Next]_vars =>
        \/ ResolveEffect \/ Answer \/ RequestFails \/ PressRetry \/ ElementError
        \/ GivesUp /\ UNCHANGED <<ran, retry>>
        \/ UNCHANGED <<player, ran, retry>>
  <1> USE DEF stream, element
  <1> DEFINE Quiet == UNCHANGED <<player, ran, retry>>
             Fails == GivesUp /\ UNCHANGED <<ran, retry>>
  <1>1. UNCHANGED vars => Quiet
    BY DEF vars
  <1>2. AttachEffect \/ ImportFails \/ StaleImportLands \/ MetadataLoads \/ TimePasses \/ CaptionsEffect => Quiet
    BY DEF AttachEffect, ImportFails, StaleImportLands, MetadataLoads, TimePasses, CaptionsEffect
  <1>3. ImportLands \/ HlsFatal => Quiet \/ Fails
    BY DEF ImportLands, HlsFatal, GivesUp
  <1>4. FilesArrive \/ (\E a \in Audio : SelectAudio(a)) \/ (\E s \in Burn : SelectSubtitle(s)) => Quiet
    BY DEF FilesArrive, SelectAudio, SelectSubtitle, Render
  <1>5. (\E m \in making : RendererMade(m) \/ RendererFails(m)) \/ (\E s \in alive : RendererDies(s)) => Quiet
    BY DEF RendererMade, RendererFails, RendererDies, BurnIn, Render
  <1> HIDE DEF Quiet, Fails
  <1>6. [Next]_vars => ResolveEffect \/ Answer \/ RequestFails \/ PressRetry \/ ElementError \/ Fails \/ Quiet
    BY <1>1, <1>2, <1>3, <1>4, <1>5 DEF Next, Arriving
  <1> QED
    BY <1>6 DEF Quiet, Fails

LEMMA LoadStep == TypeInv /\ LoadInv /\ [Next]_vars => LoadInv'
  <1> SUFFICES ASSUME TypeInv, LoadInv, [Next]_vars PROVE LoadInv'
    OBVIOUS
  <1>1. /\ page \in Page /\ player \in Player /\ retry \in Retry /\ ran \in RanDeps
    BY DEF TypeInv, StreamTypeOK
  <1>0. retry.attempt \in Nat /\ ran.attempt \in Nat /\ (player.key # None => player.key \in Key /\ player.key.attempt \in Nat)
    BY <1>1, StreamFacts DEF Retry, RanDeps, Player, Key
  <1> DEFINE Goal == LoadInv'
  <1>2. SUFFICES Goal
    OBVIOUS
  <1>3. CASE UNCHANGED <<player, ran, retry>>
    BY <1>3 DEF LoadInv, QueryOf
  <1>4. CASE GivesUp /\ UNCHANGED <<ran, retry>>
    <2>1. player' = [player EXCEPT !.phase = "error", !.decision = None]
      BY <1>4 DEF GivesUp
    <2>2. player'.phase = "error" /\ player'.request = player.request /\ player'.key = player.key
      BY <1>1, <2>1 DEF Player
    <2> QED
      BY <1>4, <2>2 DEF LoadInv, QueryOf
  <1>5. CASE Answer
    <2>1. PICK d \in Decisions(player.request.query) :
             player' = [player EXCEPT !.phase = "ready", !.request = None, !.decision = d]
      BY <1>5 DEF Answer
    <2>2. player.request # None /\ UNCHANGED <<ran, retry>>
      BY <1>5 DEF Answer, Answerable
    <2>3. player'.phase = "ready" /\ player'.request = None /\ player'.decision = d /\ player'.key = player.key
      BY <1>1, <2>1 DEF Player
    <2>4. player.key # None /\ player.request.query.forceTranscode = player.key.force
      BY <2>2 DEF LoadInv, QueryOf
    <2>5. d.mode = "direct" => ~player.key.force
      BY <2>1, <2>4 DEF Decisions
    <2> QED
      BY <2>2, <2>3, <2>5 DEF LoadInv
  <1>6. CASE RequestFails
    <2>1. player' = [player EXCEPT !.phase = "error", !.decision = None, !.request = None, !.key = None]
          /\ UNCHANGED <<ran, retry>>
      BY <1>6 DEF RequestFails
    <2>2. player'.phase = "error" /\ player'.request = None /\ player'.key = None
      BY <1>1, <2>1 DEF Player
    <2> QED
      BY <2>1, <2>2 DEF LoadInv
  <1>7. CASE PressRetry
    <2>1. /\ retry' = [forced |-> FALSE, fellBack |-> FALSE, attempt |-> retry.attempt + 1]
          /\ player.phase = "error" /\ UNCHANGED <<player, ran>>
      BY <1>7 DEF PressRetry
    <2>2. retry'.forced = FALSE /\ retry'.fellBack = FALSE /\ retry'.attempt = retry.attempt + 1
      BY <2>1
    <2> QED
      BY <1>0, <2>1, <2>2 DEF LoadInv, QueryOf
  <1>8. CASE ElementError
    <2>1. CASE GivesUp /\ UNCHANGED retry
      BY <1>4, <1>8, <2>1 DEF ElementError
    <2>2. CASE /\ player.phase = "ready" /\ player.decision.mode = "direct" /\ ~retry.fellBack
               /\ retry' = [retry EXCEPT !.fellBack = TRUE, !.forced = TRUE]
               /\ player' = [player EXCEPT !.phase = "loading", !.decision = None]
      <3>1. player'.phase = "loading" /\ player'.request = player.request /\ player'.key = player.key
        BY <1>1, <2>2 DEF Player
      <3>2. retry'.forced = TRUE /\ retry'.fellBack = TRUE /\ retry'.attempt = retry.attempt
        BY <1>1, <2>2 DEF Retry
      <3>3. player.request = None /\ (player.key # None => ~player.key.force) /\ ran' = ran
        BY <1>8, <2>2 DEF LoadInv, ElementError
      <3>4. ran.attempt < retry.attempt \/ ~ran.forced
        BY <1>0, <2>2 DEF LoadInv
      <3> QED
        BY <3>1, <3>2, <3>3, <3>4 DEF LoadInv
    <2> QED
      BY <1>8, <2>1, <2>2 DEF ElementError
  <1>9. CASE ResolveEffect
    <2> DEFINE key == KeyOf(Deps)
               sw == resumeTo # None
               p == Requested(Aborted(player), key, sw)
    <2>1. player' = p /\ ran' = Deps /\ retry' = retry
      BY <1>9 DEF ResolveEffect
    <2>2. /\ Deps.forced = retry.forced /\ Deps.attempt = retry.attempt
          /\ key.attempt = retry.attempt /\ (retry.forced => key.force)
      BY DEF Deps, KeyOf, Forced
    <2>3. key \in Key /\ key # None /\ QueryOf(key) \in Query /\ sw \in BOOLEAN
      BY KeyTypes, StreamFacts
    <2>4. Aborted(player) \in Player
      BY <1>1, <2>3, RequestedTypes
    <2> HIDE DEF key, sw
    <2>5. CASE Aborted(player).key = key
      <3>1. player.request = None /\ p = player
        <4>1. player.request = None
          BY <1>1, <2>3, <2>5, RequestedTypes
        <4>2. Aborted(player) = player
          BY <1>1, <2>3, <4>1, RequestedTypes
        <4> QED
          BY <2>3, <2>4, <2>5, <4>1, <4>2, RequestedTypes
      <3>2. player.key = key
        BY <1>1, <2>3, <2>5, <3>1, RequestedTypes
      <3>3. player.phase # "loading"
        BY <1>0, <2>2, <2>3, <3>1, <3>2 DEF LoadInv
      <3> HIDE DEF p
      <3> QED
        BY <1>0, <2>1, <2>2, <3>1, <3>3 DEF LoadInv
    <2>6. CASE Aborted(player).key # key
      <3>1. p.phase = "loading" /\ p.key = key /\ p.request # None /\ p.request.query = QueryOf(key)
        BY <2>3, <2>4, <2>6, RequestedTypes
      <3> HIDE DEF p
      <3> QED
        BY <1>0, <2>1, <2>2, <2>3, <3>1 DEF LoadInv
    <2> QED
      BY <2>5, <2>6
  <1> HIDE DEF Goal
  <1> QED
    BY <1>3, <1>4, <1>5, <1>6, <1>7, <1>8, <1>9, LoadSteps

-----------------------------------------------------------------------------
(* What is played directly *)

DirectOK(d) ==
    d.mode = "direct" => /\ d.burn = None
                         /\ d.audio # Default => page.audio # Default /\ page.baseMode = "hls"

\* A track other than the default one stays chosen, and freezes the base mode;
\* what was asked without force, and what is played directly, rests on that.
ChoiceInv ==
    /\ ~page.loaded => page.audio = Default
    /\ player.key # None => /\ player.key.audio # Default => page.audio # Default
                            /\ ~player.key.force => player.key.burn = None
                            /\ ~player.key.force /\ player.key.audio # Default => page.baseMode = "hls"
    /\ player.phase = "ready" => DirectOK(player.decision)
    /\ source # None => DirectOK(source.id)

\* A chosen track stays chosen, and the base mode with it.
PageKept == page.audio # Default => page'.audio # Default /\ page'.baseMode = page.baseMode

LEMMA PageStays ==
    ASSUME TypeInv, ChoiceInv, [Next]_vars
    PROVE  PageKept /\ (~page'.loaded => page'.audio = Default)
  <1> USE DEF stream, element
  <1> DEFINE Goal == PageKept /\ (~page'.loaded => page'.audio = Default)
  <1>1. SUFFICES Goal
    OBVIOUS
  <1>2. page \in Page /\ (~page.loaded => page.audio = Default)
    BY DEF TypeInv, StreamTypeOK, ChoiceInv
  <1>3. CASE UNCHANGED page
    BY <1>2, <1>3 DEF PageKept
  <1>4. CASE Answer
    <2>1. PICK d : page' = [page EXCEPT !.baseMode = BaseModeAfter(d)]
      BY <1>4 DEF Answer
    <2>2. /\ page'.audio = page.audio /\ page'.loaded = page.loaded /\ page'.baseMode = BaseModeAfter(d)
      BY <1>2, <2>1 DEF Page
    <2> QED
      BY <1>2, <2>2 DEF PageKept, BaseModeAfter
  <1>5. CASE \E a \in Audio : SelectAudio(a)
    <2>1. PICK a \in Audio : page.loaded /\ page' = [page EXCEPT !.audio = a]
      BY <1>5 DEF SelectAudio, Render
    <2>2. page'.audio = a /\ page'.baseMode = page.baseMode /\ page'.loaded = page.loaded
      BY <1>2, <2>1 DEF Page
    <2> QED
      BY <1>2, <2>1, <2>2, StreamFacts DEF PageKept
  <1>6. CASE \E s \in Burn : SelectSubtitle(s)
    <2>1. PICK s : page' = [page EXCEPT !.selected = s, !.burnIn = None]
      BY <1>6 DEF SelectSubtitle, Render
    <2>2. page'.audio = page.audio /\ page'.baseMode = page.baseMode /\ page'.loaded = page.loaded
      BY <1>2, <2>1 DEF Page
    <2> QED
      BY <1>2, <2>2 DEF PageKept
  <1>7. CASE FilesArrive
    <2>1. PICK a, s : ~page.loaded /\ page' = [page EXCEPT !.loaded = TRUE, !.audio = a, !.selected = s]
      BY <1>7 DEF FilesArrive, Render
    <2>2. page'.loaded = TRUE
      BY <1>2, <2>1 DEF Page
    <2> QED
      BY <1>2, <2>1, <2>2 DEF PageKept
  <1>8. CASE (\E m \in making : RendererFails(m)) \/ (\E s \in alive : RendererDies(s))
    <2>1. PICK s : page' = [page EXCEPT !.burnIn = IF s \in Embedded THEN s ELSE @]
      BY <1>8 DEF RendererFails, RendererDies, BurnIn, Render
    <2>2. page'.audio = page.audio /\ page'.baseMode = page.baseMode /\ page'.loaded = page.loaded
      BY <1>2, <2>1 DEF Page
    <2> QED
      BY <1>2, <2>2 DEF PageKept
  <1> HIDE DEF Goal
  <1>9. UNCHANGED vars => UNCHANGED page
    BY DEF vars
  <1>10. ResolveEffect \/ AttachEffect \/ CaptionsEffect \/ RequestFails \/ ImportLands \/ ImportFails
         \/ StaleImportLands \/ MetadataLoads \/ PressRetry \/ TimePasses \/ HlsFatal \/ ElementError
         \/ (\E m \in making : RendererMade(m)) => UNCHANGED page
    BY DEF ResolveEffect, AttachEffect, CaptionsEffect, RequestFails, ImportLands, ImportFails,
           StaleImportLands, MetadataLoads, PressRetry, TimePasses, HlsFatal, ElementError, RendererMade
  <1> QED
    BY <1>3, <1>4, <1>5, <1>6, <1>7, <1>8, <1>9, <1>10 DEF Next, Arriving

\* Under such a change, what may be played directly may be so still.
DirectAfter(d) ==
    d.mode = "direct" => /\ d.burn = None
                         /\ d.audio # Default => page'.audio # Default /\ page'.baseMode = "hls"
LEMMA DirectStays == \A d : PageKept /\ DirectOK(d) => DirectAfter(d)
  BY DEF PageKept, DirectOK, DirectAfter

\* The keys the resolve effect asks with.
LEMMA ResolvedKey ==
    ASSUME TypeInv, ResolveEffect
    PROVE  /\ player'.key = KeyOf(Deps)
           /\ player'.phase = "ready" => player.phase = "ready" /\ player'.decision = player.decision
           /\ UNCHANGED <<page, source>>
  <1> DEFINE key == KeyOf(Deps)
             sw == resumeTo # None
             p == Requested(Aborted(player), key, sw)
  <1>1. player' = p /\ UNCHANGED <<page, source>>
    BY DEF ResolveEffect, element
  <1>2. player \in Player /\ key \in Key /\ QueryOf(key) \in Query /\ sw \in BOOLEAN
    BY KeyTypes DEF TypeInv, StreamTypeOK
  <1> HIDE DEF key, sw
  <1>3. Aborted(player) \in Player /\ Aborted(player).phase = player.phase /\ Aborted(player).decision = player.decision
    BY <1>2, RequestedTypes
  <1>4. CASE Aborted(player).key = key
    <2>1. p = Aborted(player)
      BY <1>2, <1>3, <1>4, RequestedTypes
    <2> QED
      BY <1>1, <1>3, <1>4, <2>1 DEF key
  <1>5. CASE Aborted(player).key # key
    <2>1. p.phase = "loading" /\ p.key = key
      BY <1>2, <1>3, <1>5, RequestedTypes
    <2> QED
      BY <1>1, <2>1 DEF key
  <1> QED
    BY <1>4, <1>5

LEMMA ChoiceStep == TypeInv /\ LoadInv /\ ChoiceInv /\ [Next]_vars => ChoiceInv'
  <1> SUFFICES ASSUME TypeInv, LoadInv, ChoiceInv, [Next]_vars PROVE ChoiceInv'
    OBVIOUS
  <1> USE DEF stream, element
  <1>1. /\ page \in Page /\ player \in Player /\ retry \in Retry /\ source \in Source \cup {None}
    BY DEF TypeInv, StreamTypeOK
  <1>2. PageKept /\ (~page'.loaded => page'.audio = Default)
    BY PageStays
  <1> DEFINE KeyOK(k) == k # None => /\ k.audio # Default => page'.audio # Default
                                     /\ ~k.force => k.burn = None
                                     /\ ~k.force /\ k.audio # Default => page'.baseMode = "hls"
             KeyGoal == KeyOK(player'.key)
             DecisionGoal == player'.phase = "ready" => DirectAfter(player'.decision)
             SourceGoal == source' # None => DirectAfter(source'.id)
  <1>3. KeyOK(player.key) /\ KeyOK(None)
    BY <1>2 DEF ChoiceInv, PageKept
  <1>4. player.phase = "ready" => DirectAfter(player.decision)
    BY <1>2, DirectStays DEF ChoiceInv
  <1>5. source # None => DirectAfter(source.id)
    BY <1>2, DirectStays DEF ChoiceInv
  <1>6. KeyGoal /\ DecisionGoal
    <2> HIDE DEF KeyOK
    <2> DEFINE Goal == KeyGoal /\ DecisionGoal
    <2>1. SUFFICES Goal
      OBVIOUS
    <2>2. CASE UNCHANGED player
      BY <1>3, <1>4, <2>2
    <2>3. CASE GivesUp
      <3>1. player'.phase = "error" /\ player'.key = player.key
        BY <1>1, <2>3 DEF GivesUp, Player
      <3> QED
        BY <1>3, <3>1
    <2>4. CASE RequestFails
      <3>1. player'.phase = "error" /\ player'.key = None
        BY <1>1, <2>4 DEF RequestFails, Player
      <3> QED
        BY <1>3, <3>1
    <2>5. CASE ElementError
      <3>1. player' = [player EXCEPT !.phase = "loading", !.decision = None] \/ GivesUp
        BY <2>5 DEF ElementError
      <3>2. CASE player' = [player EXCEPT !.phase = "loading", !.decision = None]
        <4>1. player'.phase = "loading" /\ player'.key = player.key
          BY <1>1, <3>2 DEF Player
        <4> QED
          BY <1>3, <4>1
      <3> QED
        BY <2>3, <3>1, <3>2
    <2>6. CASE Answer
      <3>1. PICK d \in Decisions(player.request.query) :
               player' = [player EXCEPT !.phase = "ready", !.request = None, !.decision = d]
        BY <2>6 DEF Answer
      <3>2. player'.decision = d /\ player'.key = player.key
        BY <1>1, <3>1 DEF Player
      <3>3. player.key # None /\ player.request.query = QueryOf(player.key)
        BY <2>6 DEF LoadInv, Answer, Answerable
      <3>4. d.audio = player.key.audio /\ d.burn = player.key.burn /\ (d.mode = "direct" => ~player.key.force)
        BY <3>1, <3>3 DEF Decisions, QueryOf
      <3>5. DirectAfter(d)
        BY <1>3, <3>3, <3>4 DEF DirectAfter, KeyOK
      <3> QED
        BY <1>3, <3>2, <3>5
    <2>7. CASE ResolveEffect
      <3>1. UNCHANGED page
        BY <2>7, ResolvedKey
      <3>2. KeyOK(KeyOf(Deps))
        <4>1. KeyOf(Deps).audio = page.audio /\ KeyOf(Deps).burn = page.burnIn /\ KeyOf(Deps).force = Forced(Deps)
          BY DEF KeyOf, Deps, Props
        <4>2. ~Forced(Deps) => page.burnIn = None /\ (page.audio # Default => page.baseMode = "hls")
          BY DEF Forced, Deps, Props
        <4> QED
          BY <3>1, <4>1, <4>2 DEF KeyOK
      <3>3. /\ player'.key = KeyOf(Deps)
            /\ player'.phase = "ready" => player.phase = "ready" /\ player'.decision = player.decision
        BY <2>7, ResolvedKey
      <3> QED
        BY <1>4, <3>2, <3>3
    <2> HIDE DEF Goal, KeyGoal, DecisionGoal
    <2> QED
      BY <2>2, <2>3, <2>4, <2>5, <2>6, <2>7, LoadSteps DEF PressRetry
  <1>7. SourceGoal
    <2> DEFINE Goal == SourceGoal
    <2>1. SUFFICES Goal
      OBVIOUS
    <2>2. CASE UNCHANGED element
      BY <1>5, <2>2
    <2>3. CASE AttachEffect
      <3>1. source' = IF DecisionId = None THEN None ELSE Attached(DecisionId, resumeTo)
        BY <2>3 DEF AttachEffect, TargetAfterTeardown
      <3>2. CASE DecisionId # None
        <4>1. DecisionId \in Decision /\ resumeTo \in Place \cup {None}
          BY <3>2, NowTypes DEF TypeInv, StreamTypeOK
        <4>2. source'.id = player.decision /\ player.phase = "ready"
          BY <3>1, <3>2, <4>1, SourceTypes DEF DecisionId
        <4> QED
          BY <1>4, <4>2
      <3> QED
        BY <3>1, <3>2
    <2>4. CASE ImportLands \/ ImportFails
      <3>1. source \in Source /\ source # None
        BY <1>1, <2>4, StreamFacts DEF ImportLands, ImportFails, Stage
      <3>2. source'.id = source.id
        BY <2>4, <3>1 DEF ImportLands, ImportFails, Source
      <3> QED
        BY <1>5, <3>1, <3>2
    <2>5. CASE StaleImportLands
      BY <1>5, <2>5 DEF StaleImportLands
    <2>6. CASE MetadataLoads \/ TimePasses \/ HlsFatal
      <3>1. source \in Source /\ source # None
        BY <1>1, <2>6, StreamFacts DEF MetadataLoads, TimePasses, HlsFatal, Stage
      <3>2. source'.id = source.id
        BY <2>6, <3>1, SourceKeeps
      <3> QED
        BY <1>5, <3>1, <3>2
    <2> HIDE DEF Goal
    <2> QED
      BY <2>2, <2>3, <2>4, <2>5, <2>6, ElementSteps
  <1>8. DirectOK(player.decision)' = DirectAfter(player'.decision) /\ DirectOK(source.id)' = DirectAfter(source'.id)
    BY DEF DirectOK, DirectAfter
  <1> QED
    BY <1>2, <1>6, <1>7, <1>8 DEF ChoiceInv

-----------------------------------------------------------------------------
(* The invariant, and what follows from it *)

StreamInv == TypeInv /\ OneInstance /\ CaptionInv /\ PlaceInv /\ LoadInv /\ ChoiceInv

LEMMA StreamInvInit == Init => StreamInv
  <1> SUFFICES ASSUME Init PROVE StreamInv
    OBVIOUS
  <1>1. /\ TypeInv /\ player.phase = "loading" /\ player.request # None /\ player.key = FirstKey
        /\ player.request.query = QueryOf(FirstKey)
    BY StreamInit
  <1>2. FirstKey # None
    <2>1. FirstKey \in Key
      BY StreamFacts DEF FirstKey, Key, Burn
    <2> QED
      BY <2>1, StreamFacts
  <1>3. OneInstance /\ CaptionInv /\ PlaceInv
    BY StreamFacts DEF Init, OneInstance, Stage, CaptionInv, PlaceInv
  <1>4. LoadInv
    <2>1. retry.forced = FALSE /\ retry.fellBack = FALSE /\ retry.attempt = 0 /\ ran.attempt = 0 /\ ran.forced = FALSE
      BY DEF Init, FirstDeps
    <2>2. player.key.attempt = 0 /\ player.key # None /\ player.phase # "ready"
      BY <1>1, <1>2 DEF FirstKey
    <2>3. retry.forced = retry.fellBack
      BY <2>1, Zenon
    <2>5. ~ran.forced
      BY <2>1
    <2>6. ran.attempt <= retry.attempt /\ player.key.attempt <= retry.attempt
      BY <2>1, <2>2
    <2>4. player.request.query = QueryOf(player.key) /\ ~(player.phase = "loading" /\ player.request = None)
      BY <1>1
    <2> HIDE DEF QueryOf
    <2> QED
      BY <2>2, <2>3, <2>4, <2>5, <2>6 DEF LoadInv
  <1>5. ChoiceInv
    <2>1. FirstKey.audio = Default /\ FirstKey.burn = None /\ page.audio = Default /\ source = None
      BY DEF Init, FirstKey
    <2> QED
      BY <1>1, <2>1 DEF ChoiceInv
  <1> QED
    BY <1>1, <1>3, <1>4, <1>5 DEF StreamInv

LEMMA StreamInvStep == StreamInv /\ [Next]_vars => StreamInv'
  BY TypesStep, InstanceStep, CaptionStep, PlaceStep, LoadStep, ChoiceStep DEF StreamInv

LEMMA StreamInvariant == Spec => []StreamInv
  BY StreamInvInit, StreamInvStep, PTL DEF Spec

\* The player's state stays of its types.
THEOREM StreamTypeCorrect == Spec => []StreamTypeOK
  <1>1. StreamInv => StreamTypeOK
    BY DEF StreamInv, TypeInv
  <1> QED
    BY <1>1, StreamInvariant, PTL

\* There is never a second live hls.js, and none without its source
\* (VideoPlayer's attach effect and its cancelled flag).
THEOREM OneInstanceEver == Spec => []OneInstance
  <1>1. StreamInv => OneInstance
    BY DEF StreamInv
  <1> QED
    BY <1>1, StreamInvariant, PTL

\* The "Switching audio" toast always has a position to return to
\* (resumeToRef, VideoPlayer).
THEOREM ToastAlwaysHasTarget == Spec => []ToastHasTarget
  <1>1. StreamInv => ToastHasTarget
    BY DEF StreamInv, PlaceInv, ToastHasTarget
  <1> QED
    BY <1>1, StreamInvariant, PTL

\* A loading screen whose effect has run always waits for an answer
\* (decisionKeyRef, VideoPlayer's resolve effect).
THEOREM LoadingAlwaysAsks == Spec => []LoadingHasRequest
  <1>1. TypeInv /\ LoadInv => LoadingHasRequest
    <2> SUFFICES ASSUME TypeInv, LoadInv, player.phase = "loading", Deps = ran, player.request = None PROVE FALSE
      BY DEF LoadingHasRequest
    <2>1. ran.forced = retry.forced /\ ran.attempt = retry.attempt /\ ran.attempt \in Nat
      BY StreamFacts DEF Deps, TypeInv, RanDeps
    <2>2. ran.attempt < retry.attempt
      BY <2>1 DEF LoadInv
    <2> QED
      BY <2>1, <2>2
  <1>2. StreamInv => TypeInv /\ LoadInv
    BY DEF StreamInv
  <1> QED
    BY <1>1, <1>2, StreamInvariant, PTL

\* A chosen track or a burned-in caption is never played directly
\* (VideoPlayer's force, PlayerPage's baseMode).
THEOREM ChoicesAreTranscoded == Spec => []ChoiceIsTranscoded
  <1>1. StreamInv => ChoiceIsTranscoded
    BY DEF StreamInv, ChoiceInv, DirectOK, ChoiceIsTranscoded
  <1> QED
    BY <1>1, StreamInvariant, PTL

\* Only the selected caption is drawn once the captions effect has run.
THEOREM NoCaptionStrays == Spec => []NoStrayCaption
  <1>1. StreamInv => NoStrayCaption
    BY DEF StreamInv, CaptionInv, NoStrayCaption, CapsDeps
  <1> QED
    BY <1>1, StreamInvariant, PTL

\* A switch ends at the position the viewer had when it began
\* (VideoPlayer's captureResume and resume listener).
THEOREM SwitchesKeepTheirPlace == Spec => SwitchKeepsPlace
  <1>1. ASSUME StreamInv, [Next]_vars, switching, ~switching', player.phase = "ready", source # None
        PROVE  source'.at = place
    <2> USE DEF stream, element
    <2>1. source \in Source /\ player.request = None
      BY <1>1 DEF StreamInv, TypeInv, StreamTypeOK, LoadInv
    <2>2. MetadataLoads
      <3>1. ~RequestFails
        BY <2>1 DEF RequestFails, Answerable
      <3>2. ResolveEffect \/ AttachEffect \/ ImportLands \/ ImportFails \/ TimePasses \/ HlsFatal \/ (\E p : Render(p)) => (switching => switching')
        BY DEF ResolveEffect, AttachEffect, ImportLands, ImportFails, TimePasses, HlsFatal, Render
      <3> QED
        BY <1>1, <3>1, <3>2, PlaceSteps
    <2>3. source.listener # None
      BY <1>1, <2>2 DEF MetadataLoads
    <2>4. source' = [source EXCEPT !.loaded = TRUE, !.listener = None, !.at = source.listener]
      BY <2>2, <2>3 DEF MetadataLoads
    <2>5. source'.at = source.listener
      BY <2>1, <2>4 DEF Source
    <2> QED
      BY <1>1, <2>3, <2>5 DEF StreamInv, PlaceInv
  <1>2. StreamInv /\ [Next]_vars =>
           [switching /\ ~switching' /\ player.phase = "ready" /\ source # None => source'.at = place]_vars
    BY <1>1
  <1> QED
    BY <1>2, StreamInvariant, PTL DEF Spec, SwitchKeepsPlace

\* Together: no hls.js instance, caption or toast outlives the source or the
\* choice it was made for (the teardowns of VideoPlayer's effects).
THEOREM NothingEverOutlives == Spec => []NothingOutlives
  BY OneInstanceEver, NoCaptionStrays, ToastAlwaysHasTarget, PTL DEF NothingOutlives
=============================================================================
