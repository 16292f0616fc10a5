--------------------------- MODULE WebPages_proofs ---------------------------
(***************************************************************************)
(* Proofs about WebPages, for any titles, genres, pages, libraries, tracks *)
(* and any number of clicks, writes and faults.  In this order: the search *)
(* box and the grid; the trailer; what a title page shows; volume, caption *)
(* offset, Escape and the choices carried from film to film; the match     *)
(* dialog, its pins and the versions they make; the settings, that is      *)
(* their types, their list, their flags and their name boxes; and the      *)
(* size of what the grid asks for and keeps.                               *)
(***************************************************************************)
EXTENDS WebPages, TLAPS, SequenceTheorems, FiniteSetTheorems, WellFoundedInduction

\* A step of the client is one of the part it is about, or none of that part.
LEMMA PartsStep ==
    [Next]_webVars =>
        /\ BrowseNext \/ UNCHANGED browseVars
        /\ TitleNext \/ UNCHANGED titleVars
        /\ AdminNext \/ UNCHANGED adminVars
        /\ ChromeNext \/ UNCHANGED chromeVars
  BY DEF Next, webVars, Browses, In

-----------------------------------------------------------------------------
(* The search box and the grid *)

SearchInv ==
    /\ search \in [open : BOOLEAN, input : Text, timer : Text \cup {NoTimer}, debounced : Text]
    /\ search.timer # NoTimer => search.timer = search.input
    /\ QueryFollows

AnyKey == Sort \cup Slug
ItemOf == [key : AnyKey, page : Nat]
AskOf == [key : AnyKey, page : Nat, initial : BOOLEAN, aborted : BOOLEAN]
RefsOf == [cursor : Nat, more : BOOLEAN]
PagerOf == [view : View, items : Seq(ItemOf), now : RefsOf, refs : RefsOf, inFlight : BOOLEAN,
            initial : BOOLEAN, more : BOOLEAN, error : BOOLEAN]
PagerType ==
    /\ browse \in [route : {"library"} \cup Slug, query : Text \ {"blank"}, sort : Sort]
    /\ pager \in PagerOf /\ asks \subseteq AskOf

Live(r) == ~r.aborted
\* One request at most counts; while the flag is down there is none.
FlightInv ==
    /\ InFlightTrue
    /\ \A r, q \in asks : Live(r) /\ Live(q) => r = q

\* Once the effects have run, the grid is a prefix of its listing, the cursor
\* is behind it, and the request that counts asks for what follows.
PrefixOf(key, items) == \A i \in 1 .. Len(items) : items[i] = [key |-> key, page |-> i]
Follows(r, key, items) == r.key = key /\ r.page = IF r.initial THEN 1 ELSE Len(items) + 1
OrderInv ==
    ~raced /\ EffectsRan =>
        /\ PrefixOf(pager.view.key, pager.items)
        /\ pager.now.more => pager.now.cursor = Len(pager.items) + 1
        /\ \A r \in asks : Live(r) => Follows(r, pager.view.key, pager.items)

LEMMA SearchStep == SearchInv /\ [Next]_webVars => SearchInv'
  <1> SUFFICES ASSUME SearchInv, [Next]_webVars PROVE SearchInv'
    OBVIOUS
  <1> DEFINE Goal == SearchInv'
  <1>1. SUFFICES Goal
    OBVIOUS
  <1> DEFINE SearchOK(s) == /\ s \in [open : BOOLEAN, input : Text, timer : Text \cup {NoTimer}, debounced : Text]
                            /\ s.timer # NoTimer => s.timer = s.input
                            /\ s.timer = NoTimer => s.debounced = s.input
  <1>2. SearchOK(search) /\ (SearchOK(search') => Goal)
    BY DEF SearchInv, QueryFollows
  <1>3. NoTimer \notin Text
    BY DEF NoTimer, Text
  <1>4. ASSUME NEW t \in Text PROVE SearchOK(Rearmed(search, t))
    <2>1. CASE t = search.input
      BY <1>2, <2>1 DEF Rearmed
    <2>2. CASE t # search.input
      BY <1>2, <1>3, <2>2 DEF Rearmed
    <2> QED
      BY <2>1, <2>2
  <1>5. CASE UNCHANGED search
    BY <1>2, <1>5
  <1>6. CASE \E t \in Text : Type(t)
    BY <1>2, <1>4, <1>6 DEF Type
  <1>7. CASE Escape
    <2>1. search' = [Rearmed(search, "empty") EXCEPT !.open = FALSE]
      BY <1>7 DEF Escape
    <2>2. SearchOK(Rearmed(search, "empty"))
      BY <1>4 DEF Text
    <2> QED
      BY <1>2, <2>1, <2>2
  <1>8. CASE ToggleSearch
    BY <1>2, <1>8 DEF ToggleSearch
  <1>9. CASE DebounceFires
    BY <1>2, <1>3, <1>9 DEF DebounceFires
  <1>10. CASE BackFromPlayer
    BY <1>2, <1>3, <1>10 DEF BackFromPlayer, Text
  <1> HIDE DEF Goal
  <1>11. BrowseNext => \/ UNCHANGED search \/ (\E t \in Text : Type(t)) \/ Escape \/ ToggleSearch
                       \/ DebounceFires \/ BackFromPlayer
    BY DEF BrowseNext, QueryEffect, SetSort, Navigate, Mounts, Restarts, Render, PageArrives, PageFails,
           Observes, Scroll, SentinelFires, RowsArrive, RowsFail, ContinueArrives
  <1>12. UNCHANGED browseVars => UNCHANGED search
    BY DEF browseVars
  <1> QED
    BY <1>5, <1>6, <1>7, <1>8, <1>9, <1>10, <1>11, <1>12, PartsStep

\* What a view is, and what a page is asked for with.
LEMMA BrowseFacts ==
    ASSUME PagerType
    PROVE  /\ Wanted \in View /\ FirstPage(Wanted) \in AskOf /\ Live(FirstPage(Wanted))
           /\ FromStart \in RefsOf /\ Pages \in Nat \ {0}
           /\ \A v \in View : v.key \in AnyKey
           /\ Serving \in AnyKey
  <1>1. browse.route \in {"library"} \cup Slug /\ browse.query \in Text \ {"blank"} /\ browse.sort \in Sort
    BY DEF PagerType
  <1>2. Wanted \in View
    BY <1>1 DEF Wanted, View, Sort
  <1>3. \A v \in View : v.key \in AnyKey
    BY DEF View, AnyKey
  <1>4. FirstPage(Wanted) \in AskOf /\ Live(FirstPage(Wanted))
    BY <1>2, <1>3 DEF FirstPage, AskOf, Live
  <1>5. FromStart \in RefsOf
    BY DEF FromStart, RefsOf
  <1>6. Serving \in AnyKey
    BY <1>2, <1>3 DEF Serving, PagerType, PagerOf
  <1> QED
    BY <1>2, <1>3, <1>4, <1>5, <1>6, BrowseAssumption

\* The parts of a pager that has just started, or started again.
StartsWith(p, v) == p \in PagerOf /\ p.view = v /\ p.items = <<>> /\ p.now = FromStart /\ p.inFlight
LEMMA StartTypes ==
    ASSUME PagerType, NEW v \in View
    PROVE  StartsWith(Started(v), v) /\ StartsWith(Restarted(pager, v), v)
  <1>1. FromStart \in RefsOf /\ <<>> \in Seq(ItemOf)
    BY BrowseFacts
  <1>2. StartsWith(Started(v), v)
    <2> HIDE DEF FromStart, RefsOf, ItemOf
    <2> QED
      BY <1>1 DEF Started, StartsWith, PagerOf
  <1>3. StartsWith(Restarted(pager, v), v)
    BY <1>1 DEF Restarted, PagerType, StartsWith, PagerOf
  <1> QED
    BY <1>2, <1>3

\* What an answer carries: a page of the listing, or nothing of an unknown one.
LEMMA GotTypes ==
    ASSUME NEW r \in AskOf
    PROVE  /\ Got(r) \in Seq(ItemOf)
           /\ r.key \in Slug \ Listed => Got(r) = <<>>
           /\ r.key \notin Slug \ Listed => Got(r) = <<[key |-> r.key, page |-> r.page]>>
  <1> DEFINE item == [key |-> r.key, page |-> r.page]
  <1>1. item \in ItemOf
    BY DEF AskOf, ItemOf
  <1>2. /\ r.key \in Slug \ Listed => Got(r) = <<>>
        /\ r.key \notin Slug \ Listed => Got(r) = <<item>>
    BY DEF Got
  <1> HIDE DEF item
  <1>3. <<item>> \in Seq(ItemOf) /\ <<>> \in Seq(ItemOf)
    BY <1>1
  <1>4. Got(r) \in Seq(ItemOf)
    BY <1>2, <1>3
  <1> QED
    BY <1>2, <1>4 DEF item

\* The end of a request changes flags only.
LEMMA SettledTypes ==
    ASSUME NEW p \in PagerOf, NEW r \in AskOf
    PROVE  /\ Settled(p, r) \in PagerOf /\ Settled(p, r).view = p.view
           /\ Settled(p, r).items = p.items /\ Settled(p, r).now = p.now
           /\ Settled(p, r).inFlight = (p.inFlight /\ r.aborted)
  <1> DEFINE f == p.inFlight /\ r.aborted
             i == p.initial /\ ~r.initial
             m == p.more /\ r.initial
  <1>1. f \in BOOLEAN /\ i \in BOOLEAN /\ m \in BOOLEAN
    OBVIOUS
  <1>2. Settled(p, r) = [p EXCEPT !.inFlight = f, !.initial = i, !.more = m]
    BY DEF Settled
  <1> HIDE DEF f, i, m
  <1>3. /\ Settled(p, r) \in PagerOf /\ Settled(p, r).view = p.view
        /\ Settled(p, r).items = p.items /\ Settled(p, r).now = p.now
        /\ Settled(p, r).inFlight = f
    BY <1>1, <1>2 DEF PagerOf
  <1> QED
    BY <1>3 DEF f

\* The page of a request that counts is appended, and the cursor moves behind it.
LEMMA AppendedTypes ==
    ASSUME NEW p \in PagerOf, NEW r \in AskOf
    PROVE  /\ Appended(p, r) \in PagerOf /\ Appended(p, r).view = p.view /\ Appended(p, r).inFlight = p.inFlight
           /\ Appended(p, r).items = IF r.initial THEN Got(r) ELSE p.items \o Got(r)
           /\ Appended(p, r).now.cursor = r.page + 1
           /\ Appended(p, r).now.more => r.key \notin Slug \ Listed
  <1> DEFINE items == IF r.initial THEN Got(r) ELSE p.items \o Got(r)
             now == [cursor |-> r.page + 1, more |-> r.page < Pages /\ r.key \notin Slug \ Listed]
  <1>1. items \in Seq(ItemOf)
    <2>1. p.items \in Seq(ItemOf)
      BY DEF PagerOf
    <2> HIDE DEF ItemOf
    <2> QED
      BY <2>1, GotTypes, ConcatProperties
  <1>2. now \in RefsOf /\ now.cursor = r.page + 1 /\ (now.more => r.key \notin Slug \ Listed)
    <2>1. r.page + 1 \in Nat
      BY DEF AskOf
    <2>2. (r.page < Pages /\ r.key \notin Slug \ Listed) \in BOOLEAN
      OBVIOUS
    <2> QED
      BY <2>1, <2>2 DEF RefsOf
  <1>3. Appended(p, r) = [p EXCEPT !.items = items, !.now = now, !.error = FALSE]
    BY DEF Appended
  <1> HIDE DEF items, now, RefsOf, ItemOf
  <1>4. /\ Appended(p, r) \in PagerOf /\ Appended(p, r).view = p.view /\ Appended(p, r).inFlight = p.inFlight
        /\ Appended(p, r).items = items /\ Appended(p, r).now = now
    BY <1>1, <1>2, <1>3 DEF PagerOf
  <1> QED
    BY <1>2, <1>4 DEF items

\* A pager that saw its page fail asks for no more.
LEMMA FailedTypes ==
    ASSUME NEW p \in PagerOf
    PROVE  LET q == [p EXCEPT !.error = TRUE, !.now.more = FALSE]
           IN q \in PagerOf /\ q.view = p.view /\ q.items = p.items /\ q.inFlight = p.inFlight /\ ~q.now.more
  <1> DEFINE now == [p.now EXCEPT !.more = FALSE]
             q == [p EXCEPT !.error = TRUE, !.now = now]
  <1>1. now \in RefsOf /\ ~now.more
    BY DEF PagerOf, RefsOf
  <1>2. [p EXCEPT !.error = TRUE, !.now.more = FALSE] = q
    BY DEF PagerOf
  <1> HIDE DEF now, RefsOf
  <1>3. q \in PagerOf /\ q.view = p.view /\ q.items = p.items /\ q.now = now /\ q.inFlight = p.inFlight
    BY <1>1 DEF PagerOf
  <1> HIDE DEF q
  <1> QED
    BY <1>1, <1>2, <1>3

GridInv == PagerType /\ FlightInv /\ OrderInv

\* A grid that starts: nothing loaded, and the first page asked for.
LEMMA StartKeeps ==
    ASSUME NEW v \in View, Wanted' = v, StartsWith(pager', v),
           browse' \in [route : {"library"} \cup Slug, query : Text \ {"blank"}, sort : Sort],
           asks' \subseteq AskOf, \A r \in asks' : Live(r) => r = FirstPage(v), FirstPage(v) \in asks'
    PROVE  GridInv'
  <1>1. PagerType'
    BY DEF PagerType, StartsWith
  <1>2. Live(FirstPage(v)) /\ FirstPage(v).key = v.key /\ FirstPage(v).page = 1 /\ FirstPage(v).initial
    BY DEF Live, FirstPage
  <1>3. FlightInv'
    <2>1. InFlightTrue'
      BY <1>2 DEF InFlightTrue, StartsWith, Live
    <2> QED
      BY <2>1 DEF FlightInv, Live
  <1>4. OrderInv'
    <2>1. PrefixOf(pager.view.key, pager.items)' /\ pager'.now.cursor = Len(pager'.items) + 1
      BY DEF PrefixOf, StartsWith, FromStart
    <2>2. \A r \in asks' : Live(r)' => Follows(r, pager.view.key, pager.items)'
      BY <1>2 DEF Follows, Live, StartsWith
    <2> QED
      BY <2>1, <2>2 DEF OrderInv
  <1> QED
    BY <1>1, <1>3, <1>4 DEF GridInv

\* What the grid's invariant does not read may change; so may the route, the
\* query and the sort once the effects have run.
LEMMA GridQuiet ==
    ASSUME GridInv, UNCHANGED <<asks, raced>>, EffectsRan \/ UNCHANGED browse,
           browse' \in [route : {"library"} \cup Slug, query : Text \ {"blank"}, sort : Sort],
           pager' \in PagerOf, pager'.view = pager.view, pager'.items = pager.items,
           pager'.now = pager.now, pager'.inFlight = pager.inFlight
    PROVE  GridInv'
  <1>1. PagerType'
    BY DEF GridInv, PagerType
  <1>2. FlightInv'
    BY DEF GridInv, FlightInv, InFlightTrue, Live
  <1>3. OrderInv'
    <2> SUFFICES ASSUME ~raced', EffectsRan'
                 PROVE  /\ PrefixOf(pager.view.key, pager.items)'
                        /\ pager'.now.more => pager'.now.cursor = Len(pager'.items) + 1
                        /\ \A r \in asks' : Live(r)' => Follows(r, pager.view.key, pager.items)'
      BY DEF OrderInv
    <2>1. EffectsRan
      BY DEF EffectsRan, Wanted
    <2> QED
      BY <2>1 DEF GridInv, OrderInv, PrefixOf, Follows, Live
  <1> QED
    BY <1>1, <1>2, <1>3 DEF GridInv

LEMMA AnswerKeeps ==
    ASSUME GridInv, NEW r \in asks, PageArrives(r) \/ PageFails(r)
    PROVE  GridInv'
  <1>1. /\ pager \in PagerOf /\ asks \subseteq AskOf /\ r \in AskOf /\ r.aborted \in BOOLEAN
    BY DEF GridInv, PagerType, AskOf
  <1>2. asks' = asks \ {r} /\ UNCHANGED <<browse, raced>>
    BY DEF PageArrives, PageFails
  <1>3. CASE PageArrives(r) /\ r.aborted
    <2>1. pager' = Settled(pager, r)
      BY <1>3 DEF PageArrives, Taken
    <2>2. /\ pager' \in PagerOf /\ pager'.view = pager.view /\ pager'.items = pager.items
          /\ pager'.now = pager.now /\ pager'.inFlight = (pager.inFlight /\ r.aborted)
      BY <1>1, <2>1, SettledTypes
    <2>3. pager'.inFlight = pager.inFlight
      BY <1>1, <1>3, <2>2 DEF PagerOf
    <2>4. PagerType'
      BY <1>1, <1>2, <2>2 DEF GridInv, PagerType
    <2>5. FlightInv'
      BY <1>2, <1>3, <2>3 DEF GridInv, FlightInv, InFlightTrue, Live
    <2>6. OrderInv'
      BY <1>2, <2>2 DEF GridInv, OrderInv, EffectsRan, Wanted, PrefixOf, Follows, Live
    <2> QED
      BY <2>4, <2>5, <2>6 DEF GridInv
  <1>4. CASE ~r.aborted
    <2>1. \A q \in asks' : ~Live(q)
      BY <1>2, <1>4 DEF GridInv, FlightInv, Live
    <2>2. /\ pager' \in PagerOf /\ pager'.view = pager.view /\ ~pager'.inFlight
          /\ \/ ~pager'.now.more /\ pager'.items = pager.items
             \/ /\ pager'.items = IF r.initial THEN Got(r) ELSE pager.items \o Got(r)
                /\ pager'.now.cursor = r.page + 1
                /\ pager'.now.more => r.key \notin Slug \ Listed
      <3>1. CASE PageArrives(r)
        <4>1. pager' = Settled(Appended(pager, r), r)
          BY <1>4, <3>1 DEF PageArrives, Taken
        <4>2. Appended(pager, r) \in PagerOf
          BY <1>1, AppendedTypes
        <4>3. /\ pager' \in PagerOf /\ pager'.view = Appended(pager, r).view
              /\ pager'.items = Appended(pager, r).items /\ pager'.now = Appended(pager, r).now
              /\ pager'.inFlight = (Appended(pager, r).inFlight /\ r.aborted)
          BY <1>1, <4>1, <4>2, SettledTypes
        <4>4. ~pager'.inFlight
          BY <1>4, <4>3
        <4> QED
          BY <1>1, <4>3, <4>4, AppendedTypes
      <3>2. CASE PageFails(r)
        <4> DEFINE q == [pager EXCEPT !.error = TRUE, !.now.more = FALSE]
        <4>1. pager' = Settled(q, r)
          BY <3>2 DEF PageFails
        <4>2. q \in PagerOf /\ q.view = pager.view /\ q.items = pager.items /\ q.inFlight = pager.inFlight /\ ~q.now.more
          BY <1>1, FailedTypes
        <4> HIDE DEF q
        <4>3. /\ pager' \in PagerOf /\ pager'.view = q.view /\ pager'.items = q.items /\ pager'.now = q.now
              /\ pager'.inFlight = (q.inFlight /\ r.aborted)
          BY <1>1, <4>1, <4>2, SettledTypes
        <4>4. ~pager'.inFlight
          BY <1>4, <4>3
        <4> QED
          BY <4>2, <4>3, <4>4
      <3> QED
        BY <3>1, <3>2
    <2>3. PagerType'
      BY <1>1, <1>2, <2>2 DEF GridInv, PagerType
    <2>4. FlightInv'
      BY <2>1, <2>2 DEF FlightInv, InFlightTrue, Live
    <2>5. OrderInv'
      <3> SUFFICES ASSUME ~raced', EffectsRan'
                   PROVE  /\ PrefixOf(pager.view.key, pager.items)'
                          /\ pager'.now.more => pager'.now.cursor = Len(pager'.items) + 1
        BY <2>1 DEF OrderInv, Live
      <3>1. ~raced /\ EffectsRan
        BY <1>2, <2>2 DEF EffectsRan, Wanted
      <3> DEFINE key == pager.view.key
                 n == Len(pager.items)
      <3>2. PrefixOf(key, pager.items) /\ r.key = key /\ r.page = IF r.initial THEN 1 ELSE n + 1
        BY <1>4, <3>1 DEF GridInv, OrderInv, Follows, Live
      <3>3. CASE ~pager'.now.more /\ pager'.items = pager.items
        BY <2>2, <3>2, <3>3 DEF PrefixOf
      <3>4. CASE /\ pager'.items = IF r.initial THEN Got(r) ELSE pager.items \o Got(r)
                 /\ pager'.now.cursor = r.page + 1
                 /\ pager'.now.more => r.key \notin Slug \ Listed
        <4>1. pager.items \in Seq(ItemOf) /\ n \in Nat
          BY <1>1, LenProperties DEF PagerOf
        <4>2. CASE r.key \in Slug \ Listed
          <5>1. Got(r) = <<>> /\ ~pager'.now.more
            BY <1>1, <3>4, <4>2, GotTypes
          <5>2. pager'.items = <<>> \/ pager'.items = pager.items
            BY <3>4, <4>1, <5>1, ConcatEmptySeq
          <5> QED
            BY <2>2, <3>2, <5>1, <5>2 DEF PrefixOf
        <4>3. CASE r.key \notin Slug \ Listed
          <5> DEFINE item == [key |-> r.key, page |-> r.page]
          <5>1. Got(r) = <<item>> /\ Got(r) \in Seq(ItemOf)
            BY <1>1, <4>3, GotTypes
          <5>2. CASE r.initial
            BY <2>2, <3>2, <3>4, <5>1, <5>2 DEF PrefixOf
          <5>3. CASE ~r.initial
            <6>1. item = [key |-> key, page |-> n + 1]
              BY <3>2, <5>3
            <6> HIDE DEF item
            <6>2. /\ Len(pager'.items) = n + 1
                  /\ \A i \in 1 .. n + 1 : pager'.items[i] = IF i <= n THEN pager.items[i] ELSE Got(r)[i - n]
              <7>1. Len(Got(r)) = 1
                BY <5>1
              <7>2. pager'.items = pager.items \o Got(r)
                BY <3>4, <5>3
              <7> QED
                BY <4>1, <5>1, <7>1, <7>2, ConcatProperties
            <6>3. ASSUME NEW i \in 1 .. n + 1 PROVE pager'.items[i] = [key |-> key, page |-> i]
              <7>1. CASE i <= n
                BY <3>2, <4>1, <6>2, <7>1 DEF PrefixOf
              <7>2. CASE ~(i <= n)
                <8>1. i = n + 1 /\ i - n = 1
                  BY <4>1, <7>2
                <8>2. pager'.items[i] = Got(r)[1]
                  BY <6>2, <7>2, <8>1
                <8> QED
                  BY <5>1, <6>1, <8>1, <8>2
              <7> QED
                BY <7>1, <7>2
            <6>4. pager'.now.cursor = n + 1 + 1
              BY <3>2, <3>4, <5>3
            <6> QED
              BY <2>2, <6>2, <6>3, <6>4 DEF PrefixOf
          <5> QED
            BY <5>2, <5>3
        <4> QED
          BY <4>2, <4>3
      <3> QED
        BY <2>2, <3>3, <3>4
    <2> QED
      BY <2>3, <2>4, <2>5 DEF GridInv
  <1>5. PageFails(r) => ~r.aborted
    BY DEF PageFails
  <1> QED
    BY <1>3, <1>4, <1>5

\* The callback asks for the next page only while the flag is down.
LEMMA SentinelKeeps == GridInv /\ SentinelFires => GridInv'
  <1> SUFFICES ASSUME GridInv, SentinelFires PROVE GridInv'
    OBVIOUS
  <1>0. PagerType /\ pager \in PagerOf /\ asks \subseteq AskOf
    BY DEF GridInv, PagerType
  <1>1. CASE pager.inFlight \/ ~pager.refs.more
    <2>1. UNCHANGED <<pager, asks, raced, browse>>
      BY <1>1 DEF SentinelFires
    <2> QED
      BY <1>0, <2>1, GridQuiet DEF PagerType
  <1>2. CASE ~pager.inFlight /\ pager.refs.more
    <2> DEFINE new == [key |-> Serving, page |-> pager.refs.cursor, initial |-> FALSE, aborted |-> FALSE]
    <2>1. /\ pager' = [pager EXCEPT !.inFlight = TRUE, !.more = TRUE] /\ asks' = asks \cup {new}
          /\ raced' = (raced \/ pager.refs # pager.now) /\ UNCHANGED browse
      BY <1>2 DEF SentinelFires
    <2>2. /\ pager' \in PagerOf /\ pager'.inFlight /\ pager'.view = pager.view
          /\ pager'.items = pager.items /\ pager'.now = pager.now
      BY <1>0, <2>1 DEF PagerOf
    <2>3. new \in AskOf
      <3>1. Serving \in AnyKey /\ pager.refs.cursor \in Nat
        BY <1>0, BrowseFacts DEF PagerOf, RefsOf
      <3> QED
        BY <3>1 DEF AskOf
    <2>4. Live(new) /\ new.key = Serving /\ new.page = pager.refs.cursor /\ ~new.initial
      BY DEF Live
    <2> HIDE DEF new
    <2>5. \A r \in asks : ~Live(r)
      BY <1>2 DEF GridInv, FlightInv, InFlightTrue, Live
    <2>6. PagerType'
      BY <1>0, <2>1, <2>2, <2>3 DEF PagerType
    <2>7. FlightInv'
      BY <2>1, <2>2, <2>4, <2>5 DEF FlightInv, InFlightTrue, Live
    <2>8. OrderInv'
      <3> SUFFICES ASSUME ~raced', EffectsRan'
                   PROVE  /\ PrefixOf(pager.view.key, pager.items)'
                          /\ pager'.now.more => pager'.now.cursor = Len(pager'.items) + 1
                          /\ \A r \in asks' : Live(r)' => Follows(r, pager.view.key, pager.items)'
        BY DEF OrderInv
      <3>1. ~raced /\ EffectsRan /\ pager.refs = pager.now
        BY <2>1, <2>2 DEF EffectsRan, Wanted
      <3>2. Serving = pager.view.key
        BY <3>1 DEF Serving, EffectsRan
      <3>3. PrefixOf(pager.view.key, pager.items) /\ pager.now.cursor = Len(pager.items) + 1
        BY <1>2, <3>1 DEF GridInv, OrderInv
      <3>4. Follows(new, pager.view.key, pager.items)
        BY <2>4, <3>1, <3>2, <3>3 DEF Follows
      <3>5. PrefixOf(pager.view.key, pager.items)' /\ pager'.now.cursor = Len(pager'.items) + 1
        BY <2>2, <3>3 DEF PrefixOf
      <3>6. \A r \in asks' : Live(r) => Follows(r, pager.view.key, pager.items)'
        BY <2>1, <2>2, <2>5, <3>4 DEF Follows
      <3> QED
        BY <3>5, <3>6 DEF Live
    <2> QED
      BY <2>6, <2>7, <2>8 DEF GridInv
  <1> QED
    BY <1>1, <1>2

LEMMA GridStep == SearchInv /\ GridInv /\ [Next]_webVars => GridInv'
  <1> SUFFICES ASSUME SearchInv, GridInv, [Next]_webVars PROVE GridInv'
    OBVIOUS
  <1> DEFINE Goal == GridInv'
  <1>1. SUFFICES Goal
    OBVIOUS
  <1>2. PagerType /\ pager \in PagerOf /\ asks \subseteq AskOf
        /\ browse \in [route : {"library"} \cup Slug, query : Text \ {"blank"}, sort : Sort]
    BY DEF GridInv, PagerType
  <1>3. CASE UNCHANGED <<pager, asks, raced, browse>>
    BY <1>2, <1>3, GridQuiet
  <1>4. CASE Render
    <2>1. pager' = [pager EXCEPT !.refs = pager.now] /\ UNCHANGED <<asks, raced, browse>>
      BY <1>4 DEF Render
    <2>2. /\ pager' \in PagerOf /\ pager'.view = pager.view /\ pager'.items = pager.items
          /\ pager'.now = pager.now /\ pager'.inFlight = pager.inFlight
      BY <1>2, <2>1 DEF PagerOf
    <2> QED
      BY <1>2, <2>1, <2>2, GridQuiet
  <1>5. CASE QueryEffect \/ (\E s \in Sort : SetSort(s)) \/ (\E route \in {"library"} \cup Slug : Navigate(route))
    <2>1. EffectsRan /\ UNCHANGED <<pager, asks, raced>>
      BY <1>5 DEF QueryEffect, SetSort, Navigate
    <2>2. browse' \in [route : {"library"} \cup Slug, query : Text \ {"blank"}, sort : Sort]
      <3>2. CASE QueryEffect
        <4>1. search.debounced \in Text
          BY DEF SearchInv
        <4>2. Trimmed(search.debounced) \in Text \ {"blank"}
          BY <4>1 DEF Trimmed, Text
        <4>3. browse' = [browse EXCEPT !.query = Trimmed(search.debounced)]
          BY <3>2 DEF QueryEffect
        <4> QED
          BY <1>2, <4>2, <4>3
      <3>3. CASE \E s \in Sort : SetSort(s)
        BY <1>2, <3>3 DEF SetSort
      <3>4. CASE \E route \in {"library"} \cup Slug : Navigate(route)
        BY <1>2, <3>4 DEF Navigate
      <3> QED
        BY <1>5, <3>2, <3>3, <3>4
    <2> QED
      BY <1>2, <2>1, <2>2, GridQuiet
  <1>6. CASE Mounts
    <2>1. pager' = Started(Wanted) /\ asks' = {FirstPage(Wanted)} /\ UNCHANGED browse
      BY <1>6 DEF Mounts
    <2>2. Wanted \in View /\ FirstPage(Wanted) \in AskOf /\ Wanted' = Wanted
      BY <1>2, <2>1, BrowseFacts DEF Wanted
    <2> HIDE DEF Wanted
    <2>3. StartsWith(pager', Wanted)
      BY <1>2, <2>1, <2>2, StartTypes
    <2> QED
      BY <1>2, <2>1, <2>2, <2>3, StartKeeps
  <1>7. CASE Restarts
    <2>1. /\ pager' = Restarted(pager, Wanted) /\ UNCHANGED browse
          /\ asks' = {[r EXCEPT !.aborted = TRUE] : r \in asks} \cup {FirstPage(Wanted)}
      BY <1>7 DEF Restarts
    <2>2. Wanted \in View /\ FirstPage(Wanted) \in AskOf /\ Wanted' = Wanted
      BY <1>2, <2>1, BrowseFacts DEF Wanted
    <2>3. StartsWith(pager', Wanted)
      BY <1>2, <2>1, <2>2, StartTypes
    <2>4. \A r \in asks : [r EXCEPT !.aborted = TRUE] \in AskOf /\ ~Live([r EXCEPT !.aborted = TRUE])
      BY <1>2 DEF AskOf, Live
    <2>5. asks' \subseteq AskOf /\ (\A r \in asks' : Live(r) => r = FirstPage(Wanted)) /\ FirstPage(Wanted) \in asks'
      BY <2>1, <2>2, <2>4
    <2> QED
      BY <1>2, <2>1, <2>2, <2>3, <2>5, StartKeeps
  <1>8. CASE BackFromPlayer
    <2>1. /\ pager' = Started(Wanted') /\ asks' = {FirstPage(Wanted')}
          /\ browse' \in [route : {"library"} \cup Slug, query : Text \ {"blank"}, sort : Sort]
      BY <1>8 DEF BackFromPlayer, Text, Sort
    <2>2. Wanted' \in View
      BY <2>1 DEF Wanted, View, Sort
    <2>3. FirstPage(Wanted') \in AskOf
      BY <2>2 DEF FirstPage, AskOf, View, AnyKey
    <2>4. StartsWith(pager', Wanted')
      BY <1>2, <2>1, <2>2, StartTypes
    <2> QED
      BY <2>1, <2>2, <2>3, <2>4, StartKeeps
  <1>9. CASE SentinelFires
    BY <1>9, SentinelKeeps
  <1>10. CASE \E r \in asks : PageArrives(r) \/ PageFails(r)
    BY <1>10, AnswerKeeps
  <1> HIDE DEF Goal
  <1> DEFINE Quiet == UNCHANGED <<pager, asks, raced, browse>>
  <1>11. UNCHANGED browseVars \/ (\E t \in Text : Type(t)) \/ Escape \/ ToggleSearch \/ DebounceFires
         \/ Observes \/ Scroll \/ RowsArrive \/ RowsFail \/ ContinueArrives => Quiet
    BY DEF browseVars, Type, Escape, ToggleSearch, DebounceFires, Observes, Scroll, RowsArrive, RowsFail, ContinueArrives
  <1> HIDE DEF Quiet
  <1>12. Quiet => Goal
    BY <1>3 DEF Quiet
  <1> QED
    BY <1>4, <1>5, <1>6, <1>7, <1>8, <1>9, <1>10, <1>11, <1>12, PartsStep DEF BrowseNext

BrowseKept == SearchInv /\ GridInv

LEMMA BrowseStarts == Init => BrowseKept
  <1> SUFFICES ASSUME Init PROVE BrowseKept
    OBVIOUS
  <1>1. BrowseInit
    BY DEF Init
  <1>2. SearchInv
    BY <1>1 DEF BrowseInit, SearchInv, QueryFollows, Text, NoTimer
  <1>3. Home \in View /\ Wanted = Home
    BY <1>1 DEF BrowseInit, Home, View, Sort, Wanted
  <1>4. pager \in PagerOf /\ pager.view = Home /\ pager.items = <<>> /\ pager.now = FromStart /\ pager.inFlight
    <2>1. FromStart \in RefsOf /\ <<>> \in Seq(ItemOf) /\ pager = Started(Home)
      BY <1>1 DEF FromStart, RefsOf, BrowseInit
    <2> HIDE DEF FromStart, RefsOf, ItemOf, Home
    <2> QED
      BY <1>3, <2>1 DEF Started, PagerOf
  <1>5. asks = {FirstPage(Home)} /\ FirstPage(Home) \in AskOf
    BY <1>1, <1>3 DEF BrowseInit, FirstPage, AskOf, AnyKey, View
  <1>6. PagerType
    BY <1>1, <1>4, <1>5 DEF BrowseInit, PagerType, Text, Sort
  <1>7. FlightInv
    BY <1>4, <1>5 DEF FlightInv, InFlightTrue, Live, FirstPage
  <1>8. OrderInv
    <2>1. pager.now.cursor = 1 /\ Len(pager.items) = 0
      BY <1>4 DEF FromStart
    <2>2. \A r \in asks : Follows(r, pager.view.key, pager.items)
      BY <1>4, <1>5 DEF Follows, FirstPage
    <2> QED
      BY <2>1, <2>2 DEF OrderInv, PrefixOf
  <1> QED
    BY <1>2, <1>6, <1>7, <1>8 DEF BrowseKept, GridInv

LEMMA BrowseAlways == Spec => []BrowseKept
  <1>1. BrowseKept /\ [Next]_webVars => BrowseKept'
    BY SearchStep, GridStep DEF BrowseKept
  <1> QED
    BY <1>1, BrowseStarts, PTL DEF Spec

\* The text handed to the page is the last one of the box (useDebouncedValue, NavBar).
THEOREM QueryAlwaysFollows == Spec => []QueryFollows
  <1>1. BrowseKept => QueryFollows
    BY DEF BrowseKept, SearchInv
  <1> QED
    BY <1>1, BrowseAlways, PTL

\* The in-flight flag of the grid is true to its requests (inFlightRef, useLibraryPaging).
THEOREM InFlightAlwaysTrue == Spec => []InFlightTrue
  <1>1. BrowseKept => InFlightTrue
    BY DEF BrowseKept, GridInv, FlightInv
  <1> QED
    BY <1>1, BrowseAlways, PTL

\* The grid shows each page of one listing, once and in order (useLibraryPaging).
THEOREM GridStaysInOrder == Spec => []GridInOrder
  <1>1. BrowseKept => GridInOrder
    BY DEF BrowseKept, GridInv, OrderInv, PrefixOf, GridInOrder, EffectsRan
  <1> QED
    BY <1>1, BrowseAlways, PTL

-----------------------------------------------------------------------------
(* The trailer *)

TrailerInv == trailer \in [st : TrailerState, players : Int, stale : Nat] /\ OneTrailer

LEMMA TrailerSteps ==
    ASSUME TrailerInv
    PROVE  /\ TornDown(trailer) \in [st : TrailerState, players : Int, stale : Nat]
           /\ TornDown(trailer).st = "off" /\ TornDown(trailer).players = 0
           /\ trailer' = TornDown(trailer) => TrailerInv'
           /\ trailer' = Rebuilt(trailer) => TrailerInv'
           /\ Rerendered => TrailerInv'
           /\ UNCHANGED trailer => TrailerInv'
  <1>1. /\ trailer \in [st : TrailerState, players : Int, stale : Nat]
        /\ trailer.players = IF trailer.st \in Built THEN 1 ELSE 0
    BY DEF TrailerInv, OneTrailer
  <1>2. /\ TornDown(trailer) \in [st : TrailerState, players : Int, stale : Nat]
        /\ TornDown(trailer).st = "off" /\ TornDown(trailer).players = 0
    BY <1>1 DEF TornDown, TrailerState
  <1>3. trailer' = TornDown(trailer) => TrailerInv'
    BY <1>2 DEF TrailerInv, OneTrailer, Built
  <1>4. trailer' = Rebuilt(trailer) => TrailerInv'
    <2>1. CASE trailer.st = "unavailable"
      BY <1>1, <2>1 DEF Rebuilt, TrailerInv, OneTrailer
    <2>2. CASE trailer.st # "unavailable"
      <3>1. Rebuilt(trailer) = [TornDown(trailer) EXCEPT !.st = "delay"]
        BY <2>2 DEF Rebuilt
      <3> QED
        BY <1>2, <3>1 DEF TrailerInv, OneTrailer, Built, TrailerState
    <2> QED
      BY <2>1, <2>2
  <1>5. UNCHANGED trailer => TrailerInv'
    BY DEF TrailerInv, OneTrailer
  <1>6. Rerendered => TrailerInv'
    BY <1>4, <1>5 DEF Rerendered
  <1> QED
    BY <1>2, <1>3, <1>4, <1>5, <1>6

LEMMA TrailerStep == TrailerInv /\ [Next]_webVars => TrailerInv'
  <1> SUFFICES ASSUME TrailerInv, [Next]_webVars PROVE TrailerInv'
    OBVIOUS
  <1> DEFINE Goal == TrailerInv'
             Old == trailer' = TornDown(trailer) \/ trailer' = Rebuilt(trailer) \/ Rerendered \/ UNCHANGED trailer
  <1> SUFFICES Goal
    OBVIOUS
  <1>1. Old => Goal
    BY TrailerSteps
  <1>2. /\ trailer \in [st : TrailerState, players : Int, stale : Nat]
        /\ trailer.players = IF trailer.st \in Built THEN 1 ELSE 0
    BY DEF TrailerInv, OneTrailer
  <1>3. DelayEnds \/ ApiLands \/ StaleApiLands \/ TrailerMoves => Goal
    <2>1. DelayEnds => Goal
      BY <1>2 DEF DelayEnds, TrailerInv, OneTrailer, Built, TrailerState
    <2>2. ApiLands => Goal
      <3> SUFFICES ASSUME ApiLands PROVE Goal
        OBVIOUS
      <3> DEFINE n == trailer.players + 1
      <3>1. trailer' = [trailer EXCEPT !.st = "built", !.players = n]
        BY DEF ApiLands
      <3>4. n = 1
        <4>1. trailer.st = "loading"
          BY DEF ApiLands
        <4>2. trailer.players = 0
          BY <1>2, <4>1 DEF Built
        <4> QED
          BY <4>2
      <3> HIDE DEF n
      <3>2. trailer' = [st |-> "built", players |-> 1, stale |-> trailer.stale]
        BY <1>2, <3>1, <3>4
      <3>3. trailer.stale \in Nat
        BY <1>2
      <3> QED
        BY <3>2, <3>3 DEF TrailerInv, OneTrailer, Built, TrailerState
    <2>3. StaleApiLands => Goal
      <3> SUFFICES ASSUME StaleApiLands PROVE Goal
        OBVIOUS
      <3>1. /\ trailer' = [trailer EXCEPT !.stale = @ - 1, !.players = trailer.players]
            /\ trailer.stale > 0
        BY DEF StaleApiLands, PlayersAfterCancelled
      <3>2. trailer' = [st |-> trailer.st, players |-> trailer.players, stale |-> trailer.stale - 1]
        BY <1>2, <3>1
      <3>3. trailer.st \in TrailerState /\ trailer.players \in Int /\ trailer.stale - 1 \in Nat
        BY <1>2, <3>1
      <3> QED
        BY <1>2, <3>2, <3>3 DEF TrailerInv, OneTrailer
    <2>4. TrailerMoves => Goal
      BY <1>2 DEF TrailerMoves, TrailerInv, OneTrailer, Built, TrailerState
    <2> QED
      BY <2>1, <2>2, <2>3, <2>4
  <1>4. TrailerFails => Goal
    BY TrailerSteps DEF TrailerFails, TrailerInv, OneTrailer, Built, TrailerState
  <1>5. UNCHANGED titleVars => Old
    BY DEF titleVars
  <1>6. FetchEffect => Old
    BY DEF FetchEffect
  <1>7. ASSUME NEW g \in gets PROVE GetServed(g) \/ GetArrives(g) \/ GetFails(g) => Old
    BY DEF GetServed, GetArrives, GetFails
  <1>8. ASSUME NEW t \in AnyTitle PROVE Follow(t) \/ Open(t) => Old
    <2>1. Follow(t) => Old
      BY DEF Follow
    <2>2. Open(t) => Old
      BY ZenonT(30) DEF Open
    <2> QED
      BY <2>1, <2>2
  <1>9. ToggleInfo \/ OpenMatch \/ CloseMatch \/ CandidatesArrive \/ Pin \/ Refresh => Old
    BY DEF ToggleInfo, OpenMatch, CloseMatch, CandidatesArrive, Pin, Refresh, Sends
  <1>10. ASSUME NEW w \in writes PROVE WriteServed(w) \/ WriteAnswered(w) \/ WriteFails(w) => Old
    BY DEF WriteServed, WriteAnswered, WriteFails
  <1> HIDE DEF Goal, Old
  <1> QED
    BY <1>1, <1>3, <1>4, <1>5, <1>6, <1>7, <1>8, <1>9, <1>10, PartsStep DEF TitleNext

\* The title page has one YouTube player or none (BackdropTrailer).
THEOREM OneTrailerEver == Spec => []OneTrailer
  <1>1. Init => TrailerInv
    BY DEF Init, TitleInit, NoTrailer, TrailerInv, OneTrailer, Built, TrailerState
  <1>2. TrailerInv => OneTrailer
    BY DEF TrailerInv
  <1> QED
    BY <1>1, <1>2, TrailerStep, PTL DEF Spec

-----------------------------------------------------------------------------
(* The title page *)

BodyOf == [title : AnyTitle, version : Int]
PageOf == [title : AnyTitle, nonce : Int, ran : (AnyTitle \cup {Nothing}) \X Int,
           status : {"loading", "ready", "error"}, data : BodyOf \cup {Nothing},
           match : BOOLEAN, info : BOOLEAN]
EntryOf == BodyOf \cup {Nothing}
GetOf == [title : AnyTitle, entry : EntryOf, reply : Int \cup {Nothing}, aborted : BOOLEAN]

\* The data shown, the entries kept and the request that counts are of the
\* title the effect ran for.
AnswerOf(e, t) == e # Nothing => e.title = t
TitleInv ==
    /\ page \in PageOf
    /\ server \in [AnyTitle -> Int]
    /\ cache \in [AnyTitle -> EntryOf] /\ \A t \in AnyTitle : AnswerOf(cache[t], t)
    /\ gets \subseteq GetOf
    /\ \A g \in gets : AnswerOf(g.entry, g.title) /\ (~g.aborted => g.title = page.ran[1])
    /\ page.status = "ready" => page.data \in BodyOf /\ page.data.title = page.ran[1]

LEMMA TitleStarts == Init => TitleInv
  <1> SUFFICES ASSUME Init PROVE TitleInv
    OBVIOUS
  <1>1. TitleInit
    BY DEF Init
  <1>2. PICK t \in AnyTitle : page = FreshPage(t)
    BY <1>1 DEF TitleInit
  <1>3. page \in PageOf /\ page.status = "loading"
    BY <1>2 DEF FreshPage, PageOf
  <1>4. server \in [AnyTitle -> Int] /\ cache \in [AnyTitle -> EntryOf] /\ \A u \in AnyTitle : AnswerOf(cache[u], u)
    BY <1>1 DEF TitleInit, EntryOf, AnswerOf
  <1>5. gets = {}
    BY <1>1 DEF TitleInit
  <1> QED
    BY <1>3, <1>4, <1>5 DEF TitleInv

\* A page that is the same but for its title and its dialogs.
SameData(p, q) ==
    /\ p \in PageOf /\ p.ran = q.ran /\ p.data = q.data /\ p.status = q.status

LEMMA OthersKeepTitle ==
    ASSUME TitleInv, SameData(page', page), UNCHANGED cache, server' \in [AnyTitle -> Int], UNCHANGED gets
    PROVE  TitleInv'
  BY DEF TitleInv, SameData

LEMMA FetchKeepsTitle ==
    ASSUME TitleInv, FetchEffect
    PROVE  TitleInv'
  <1>1. page \in PageOf /\ cache \in [AnyTitle -> EntryOf] /\ gets \subseteq GetOf
    BY DEF TitleInv
  <1>2. /\ page' = [page EXCEPT !.ran = <<page.title, page.nonce>>, !.status = "loading", !.data = Nothing]
        /\ gets' = {[g EXCEPT !.aborted = TRUE] : g \in gets} \cup {Asked(page.title)}
        /\ UNCHANGED <<server, cache>>
    BY DEF FetchEffect
  <1>3. page' \in PageOf /\ page'.status = "loading" /\ page'.ran[1] = page.title
    <2>1. <<page.title, page.nonce>> \in (AnyTitle \cup {Nothing}) \X Int
      BY <1>1 DEF PageOf
    <2> QED
      BY <1>1, <1>2, <2>1 DEF PageOf
  <1>4. Asked(page.title) \in GetOf /\ AnswerOf(Asked(page.title).entry, Asked(page.title).title)
        /\ Asked(page.title).title = page.title
    <2>1. page.title \in AnyTitle
      BY <1>1 DEF PageOf
    <2>2. cache[page.title] \in EntryOf /\ AnswerOf(cache[page.title], page.title)
      BY <1>1, <2>1 DEF TitleInv
    <2> HIDE DEF EntryOf, AnswerOf
    <2> QED
      BY <2>1, <2>2 DEF Asked, GetOf
  <1>5. ASSUME NEW g \in gets
        PROVE  /\ [g EXCEPT !.aborted = TRUE] \in GetOf /\ [g EXCEPT !.aborted = TRUE].aborted
               /\ AnswerOf([g EXCEPT !.aborted = TRUE].entry, [g EXCEPT !.aborted = TRUE].title)
    <2>1. g \in GetOf /\ AnswerOf(g.entry, g.title)
      BY <1>1 DEF TitleInv
    <2> QED
      BY <2>1 DEF GetOf
  <1>6. \A g \in gets' : g \in GetOf /\ AnswerOf(g.entry, g.title) /\ (~g.aborted => g.title = page'.ran[1])
    BY <1>2, <1>3, <1>4, <1>5
  <1> QED
    BY <1>2, <1>3, <1>6 DEF TitleInv

LEMMA ServedKeepsTitle ==
    ASSUME TitleInv, NEW g \in gets, GetServed(g)
    PROVE  TitleInv'
  <1>1. /\ gets' = (gets \ {g}) \cup {[g EXCEPT !.reply = server[g.title]]}
        /\ UNCHANGED <<page, server, cache>>
    BY DEF GetServed
  <1>2. g \in GetOf /\ AnswerOf(g.entry, g.title) /\ (~g.aborted => g.title = page.ran[1])
    BY DEF TitleInv
  <1>3. server[g.title] \in Int
    BY <1>2 DEF TitleInv, GetOf
  <1> DEFINE h == [g EXCEPT !.reply = server[g.title]]
  <1>4. h \in GetOf /\ h.entry = g.entry /\ h.title = g.title /\ h.aborted = g.aborted
    BY <1>2, <1>3 DEF GetOf
  <1> HIDE DEF h
  <1>5. \A x \in gets' : x \in GetOf /\ AnswerOf(x.entry, x.title) /\ (~x.aborted => x.title = page'.ran[1])
    BY <1>1, <1>2, <1>4 DEF TitleInv, h
  <1> QED
    BY <1>1, <1>5 DEF TitleInv

\* What a request is answered with is a body of its title.
LEMMA ReplayedTitle ==
    ASSUME TitleInv, NEW g \in gets, g.reply # Nothing
    PROVE  Replayed(g) \in BodyOf /\ Replayed(g).title = g.title
  <1>1. g \in GetOf /\ AnswerOf(g.entry, g.title)
    BY DEF TitleInv
  <1>2. CASE NotModified(g)
    BY <1>1, <1>2 DEF NotModified, Replayed, GetOf, EntryOf, AnswerOf
  <1>3. CASE ~NotModified(g)
    BY <1>1, <1>3 DEF Replayed, GetOf, BodyOf
  <1> QED
    BY <1>2, <1>3

LEMMA ArrivesKeepsTitle ==
    ASSUME TitleInv, NEW g \in gets, GetArrives(g)
    PROVE  TitleInv'
  <1>1. Replayed(g) \in BodyOf /\ Replayed(g).title = g.title
    BY ReplayedTitle DEF GetArrives
  <1> DEFINE body == Replayed(g)
  <1>2. /\ gets' = gets \ {g} /\ UNCHANGED server
        /\ cache' = cache \/ cache' = [cache EXCEPT ![g.title] = body]
        /\ IF Heeded(g) THEN page' = [page EXCEPT !.status = "ready", !.data = body] ELSE UNCHANGED page
    BY DEF GetArrives
  <1>3. g \in GetOf /\ page \in PageOf /\ cache \in [AnyTitle -> EntryOf] /\ (~g.aborted => g.title = page.ran[1])
    BY DEF TitleInv
  <1> HIDE DEF body
  <1>4. body \in EntryOf /\ AnswerOf(body, g.title) /\ g.title \in AnyTitle
    BY <1>1, <1>3 DEF body, EntryOf, AnswerOf, GetOf
  <1>5. cache' \in [AnyTitle -> EntryOf] /\ \A t \in AnyTitle : AnswerOf(cache'[t], t)
    <2>1. \A t \in AnyTitle : AnswerOf(cache[t], t)
      BY DEF TitleInv
    <2> HIDE DEF EntryOf, AnswerOf
    <2> QED
      BY <1>2, <1>3, <1>4, <2>1
  <1>6. page' \in PageOf /\ page'.ran = page.ran
    <2>1. body \in BodyOf \cup {Nothing}
      BY <1>1 DEF body
    <2>2. [page EXCEPT !.status = "ready", !.data = body] \in PageOf
      <3> HIDE DEF AnyTitle
      <3> QED
        BY <1>3, <2>1 DEF PageOf
    <2>3. [page EXCEPT !.status = "ready", !.data = body].ran = page.ran
      BY <1>3 DEF PageOf
    <2> QED
      BY <1>2, <1>3, <2>2, <2>3
  <1>7. page'.status = "ready" => page'.data \in BodyOf /\ page'.data.title = page'.ran[1]
    <2>1. CASE Heeded(g)
      <3>1. page'.data = body /\ g.title = page.ran[1]
        BY <1>2, <1>3, <2>1 DEF PageOf, Heeded
      <3> QED
        BY <1>1, <1>6, <3>1 DEF body
    <2>2. CASE ~Heeded(g)
      BY <1>2, <2>2 DEF TitleInv
    <2> QED
      BY <2>1, <2>2
  <1> QED
    BY <1>2, <1>5, <1>6, <1>7 DEF TitleInv

LEMMA TitleStepKeeps == TitleInv /\ [Next]_webVars => TitleInv'
  <1> SUFFICES ASSUME TitleInv, [Next]_webVars PROVE TitleInv'
    OBVIOUS
  <1> DEFINE Goal == TitleInv'
             Rest == SameData(page', page) /\ UNCHANGED <<cache, gets>> /\ server' \in [AnyTitle -> Int]
  <1> SUFFICES Goal
    OBVIOUS
  <1>1. page \in PageOf /\ server \in [AnyTitle -> Int] /\ cache \in [AnyTitle -> EntryOf]
    BY DEF TitleInv
  <1>2. Rest => Goal
    BY OthersKeepTitle
  <1>3. FetchEffect => Goal
    BY FetchKeepsTitle
  <1>4. (\E g \in gets : GetServed(g)) => Goal
    BY ServedKeepsTitle
  <1>5. (\E g \in gets : GetArrives(g)) => Goal
    BY ArrivesKeepsTitle
  <1>6. (\E g \in gets : GetFails(g)) => Goal
    <2> SUFFICES ASSUME NEW g \in gets, GetFails(g) PROVE Goal
      OBVIOUS
    <2>1. /\ gets' = gets \ {g} /\ page' = [page EXCEPT !.status = "error"] /\ UNCHANGED <<server, cache>>
      BY DEF GetFails
    <2>2. page' \in PageOf /\ page'.ran = page.ran /\ page'.status = "error"
      BY <1>1, <2>1 DEF PageOf
    <2> QED
      BY <2>1, <2>2 DEF TitleInv
  <1>7. UNCHANGED titleVars => Rest
    BY <1>1 DEF titleVars, SameData
  <1>8. (\E t \in AnyTitle : Follow(t)) => Rest
    BY <1>1 DEF Follow, SameData, PageOf
  <1>9. (\E t \in AnyTitle : Open(t)) => Goal
    <2> SUFFICES ASSUME NEW t \in AnyTitle, Open(t) PROVE Goal
      OBVIOUS
    <2>1. page' = FreshPage(t) /\ gets' = {} /\ UNCHANGED <<server, cache>>
      BY ZenonT(30) DEF Open
    <2>2. page' \in PageOf /\ page'.status = "loading"
      BY <2>1 DEF FreshPage, PageOf
    <2> QED
      BY <2>1, <2>2 DEF TitleInv
  <1>10. ToggleInfo \/ OpenMatch \/ CloseMatch => Rest
    BY <1>1 DEF ToggleInfo, OpenMatch, CloseMatch, SameData, PageOf
  <1>11. CandidatesArrive \/ Pin \/ Refresh => Rest
    BY <1>1 DEF CandidatesArrive, Pin, Refresh, Sends, SameData
  <1>12. (\E w \in writes : WriteServed(w)) => Rest
    <2> SUFFICES ASSUME NEW w \in writes, WriteServed(w) PROVE Rest
      OBVIOUS
    <2>1. server' = [server EXCEPT ![w.title] = @ + 1] /\ UNCHANGED <<page, cache, gets>>
      BY DEF WriteServed
    <2>2. server' \in [AnyTitle -> Int]
      <3>1. \A t \in AnyTitle : server[t] \in Int /\ server[t] + 1 \in Int
        BY <1>1
      <3>2. CASE w.title \in AnyTitle
        <4> DEFINE n == server[w.title] + 1
        <4>1. n \in Int
          BY <3>1, <3>2
        <4>2. server' = [server EXCEPT ![w.title] = n]
          BY <2>1
        <4> HIDE DEF n
        <4> QED
          BY <1>1, <4>1, <4>2
      <3>3. CASE w.title \notin AnyTitle
        <4>1. server' = server
          BY <1>1, <2>1, <3>3
        <4> QED
          BY <1>1, <4>1
      <3> QED
        BY <3>2, <3>3
    <2> QED
      BY <1>1, <2>1, <2>2 DEF SameData
  <1>13. (\E w \in writes : WriteFails(w)) => Rest
    BY <1>1 DEF WriteFails, SameData
  <1>14. (\E w \in writes : WriteAnswered(w)) => Goal
    <2> SUFFICES ASSUME NEW w \in writes, WriteAnswered(w) PROVE Goal
      OBVIOUS
    <2>1. /\ cache' = [t \in AnyTitle |-> Nothing] /\ UNCHANGED <<server, gets>>
          /\ page' = page \/ page' = Matched(page, w)
      BY DEF WriteAnswered
    <2>2. SameData(page', page)
      <3>1. CASE page' = page
        BY <1>1, <3>1 DEF SameData
      <3>2. CASE page' = Matched(page, w)
        <4> DEFINE p == [page EXCEPT !.nonce = @ + 1]
                   m == page.match /\ ~w.pin
        <4>1. p \in PageOf /\ p.ran = page.ran /\ p.data = page.data /\ p.status = page.status
          BY <1>1 DEF PageOf
        <4>2. m \in BOOLEAN
          OBVIOUS
        <4>3. page' = [p EXCEPT !.match = m]
          BY <3>2 DEF Matched
        <4> HIDE DEF p, m
        <4>4. page' \in PageOf /\ page'.ran = p.ran /\ page'.data = p.data /\ page'.status = p.status
          BY <4>1, <4>2, <4>3 DEF PageOf
        <4> QED
          BY <4>1, <4>4 DEF SameData
      <3> QED
        BY <2>1, <3>1, <3>2
    <2>3. cache' \in [AnyTitle -> EntryOf] /\ \A t \in AnyTitle : AnswerOf(cache'[t], t)
      BY <2>1 DEF EntryOf, AnswerOf
    <2> QED
      BY <2>1, <2>2, <2>3 DEF TitleInv, SameData
  <1>15. DelayEnds \/ ApiLands \/ StaleApiLands \/ TrailerMoves \/ TrailerFails => Rest
    BY <1>1 DEF DelayEnds, ApiLands, StaleApiLands, TrailerMoves, TrailerFails, SameData
  <1> HIDE DEF Goal, Rest
  <1> QED
    BY <1>2, <1>3, <1>4, <1>5, <1>6, <1>7, <1>8, <1>9, <1>10, <1>11, <1>12, <1>13, <1>14, <1>15, PartsStep
       DEF TitleNext

\* Answers for titles visited before never show on a page (useDetail, getJson).
THEOREM PageShowsItsTitle == Spec => []ShowsItsTitle
  <1>1. TitleInv => ShowsItsTitle
    BY DEF TitleInv, ShowsItsTitle, FetchDue
  <1> QED
    BY <1>1, TitleStarts, TitleStepKeeps, PTL DEF Spec

-----------------------------------------------------------------------------
(* The player's surroundings *)

SoundOf == [shown : Volume, element : Volume, attached : BOOLEAN, restored : BOOLEAN, due : BOOLEAN, quiet : BOOLEAN]
SoundInv ==
    /\ DOMAIN stored = {"volume", "subtitle", "audio", "style"}
    /\ stored.volume \in Volume /\ sound \in SoundOf
    /\ ~sound.restored => sound.due
    /\ sound.restored => sound.shown = stored.volume
    /\ VolumeKept

LEMMA SoundStep == SoundInv /\ [Next]_webVars => SoundInv'
  <1> SUFFICES ASSUME SoundInv, [Next]_webVars PROVE SoundInv'
    OBVIOUS
  <1> DEFINE Goal == SoundInv'
             Quiet == UNCHANGED sound /\ DOMAIN stored' = DOMAIN stored /\ stored'.volume = stored.volume
  <1> SUFFICES Goal
    OBVIOUS
  <1>1. stored.volume \in Volume /\ sound \in SoundOf /\ DOMAIN stored = {"volume", "subtitle", "audio", "style"}
    BY DEF SoundInv
  <1>2. Quiet => Goal
    BY DEF SoundInv, VolumeKept
  <1>3. VideoAttaches => Goal
    BY <1>1 DEF VideoAttaches, SoundInv, SoundOf, VolumeKept
  <1>4. Restores => Goal
    BY <1>1 DEF Restores, SoundInv, SoundOf, VolumeKept
  <1>5. Applies => Goal
    BY <1>1 DEF Applies, SoundInv, SoundOf, VolumeKept
  <1>6. AutoplayMutes => Goal
    <2> SUFFICES ASSUME AutoplayMutes PROVE Goal
      OBVIOUS
    <2>1. sound.attached /\ sound' = [sound EXCEPT !.element.muted = TRUE, !.quiet = TRUE] /\ UNCHANGED stored
      BY DEF AutoplayMutes
    <2>2. [sound.element EXCEPT !.muted = TRUE] \in Volume
      BY <1>1 DEF SoundOf, Volume
    <2>3. sound' \in SoundOf
      <3> HIDE DEF Volume
      <3> QED
        BY <1>1, <2>1, <2>2 DEF SoundOf
    <2>4. sound'.shown = sound.shown /\ sound'.restored = sound.restored /\ sound'.due = sound.due /\ sound'.quiet
      BY <1>1, <2>1 DEF SoundOf
    <2> QED
      BY <2>1, <2>3, <2>4 DEF SoundInv, VolumeKept
  <1>7. ASSUME NEW v \in Volume, SetsVolume(v) PROVE Goal
    <2>1. /\ sound.restored /\ sound' = [sound EXCEPT !.shown = v, !.due = @ \/ v # sound.shown]
          /\ stored' = [stored EXCEPT !.volume = v]
      BY <1>7 DEF SetsVolume, Persisted
    <2>2. stored'.volume = v /\ DOMAIN stored' = DOMAIN stored
      BY <1>1, <2>1
    <2>3. sound' \in SoundOf /\ sound'.shown = v /\ sound'.restored
          /\ sound'.element = sound.element /\ sound'.attached = sound.attached /\ sound'.quiet = sound.quiet
      BY <1>1, <2>1 DEF SoundOf
    <2>4. sound'.due <=> sound.due \/ v # sound.shown
      BY <1>1, <2>1 DEF SoundOf
    <2> QED
      BY <1>1, <2>1, <2>2, <2>3, <2>4 DEF SoundInv, VolumeKept
  <1>8. (\E level \in 0 .. Levels : Slide(level)) \/ ToggleMute => Goal
    BY <1>1, <1>7 DEF Slide, ToggleMute, Volume, SoundOf
  <1>9. Leaves => Goal
    BY <1>1, ChromeAssumption DEF Leaves, FreshSound, FullVolume, SoundInv, SoundOf, VolumeKept, Volume
  <1>10. UNCHANGED chromeVars \/ FilesArrive \/ (\E step \in {-1, 1} : Nudge(step))
         \/ (\E menu \in Menu : ToggleMenu(menu)) \/ ClickOutside
         \/ OpenAppearance \/ CloseAppearance \/ Fullscreen => Quiet
    BY DEF chromeVars, FilesArrive, Nudge, ToggleMenu, ClickOutside, OpenAppearance, CloseAppearance, Fullscreen
  <1>11. (\E i \in 0 .. Len(SubTracks) : SelectSubtitle(i)) => Quiet
    BY <1>1 DEF SelectSubtitle
  <1>12. (\E i \in 1 .. Len(AudioTracks) : SelectAudio(i)) => Quiet
    BY <1>1 DEF SelectAudio
  <1>13. (\E style \in Style : ChangeAppearance(style)) => Quiet
    BY <1>1 DEF ChangeAppearance
  <1>14. GoBack => Goal
    BY <1>9 DEF GoBack
  <1>15. EscapeKey => Quiet \/ Leaves
    BY DEF EscapeKey
  <1> HIDE DEF Goal, Quiet
  <1> QED
    BY <1>2, <1>3, <1>4, <1>5, <1>6, <1>8, <1>9, <1>10, <1>11, <1>12, <1>13, <1>14, <1>15, PartsStep DEF ChromeNext

\* The film sounds as the viewer last set it, on whatever title (VolumeControl).
THEOREM VolumeIsKept == Spec => []VolumeKept
  <1>1. Init => SoundInv
    BY ChromeAssumption DEF Init, ChromeInit, FreshSound, FullVolume, SoundInv, SoundOf, VolumeKept, Volume
  <1>2. SoundInv => VolumeKept
    BY DEF SoundInv
  <1> QED
    BY <1>1, <1>2, SoundStep, PTL DEF Spec

\* Before the files have come nothing is chosen, shifted or opened.
CaptionInv ==
    /\ player \in [film : {player.film}, files : {player.files}, subtitle : {player.subtitle},
                   audio : {player.audio}, offset : Int, style : {player.style}]
    /\ panels \in [menus : SUBSET Menu, appearance : BOOLEAN, fullscreen : BOOLEAN]
    /\ clicks \in [made : Int, left : Int]
    /\ ~player.files => player.subtitle = 0 /\ player.offset = 0 /\ panels.menus = {}
    /\ OffsetOfCaption

LEMMA CaptionStep == CaptionInv /\ [Next]_webVars => CaptionInv'
  <1> SUFFICES ASSUME CaptionInv, [Next]_webVars PROVE CaptionInv'
    OBVIOUS
  <1> DEFINE Goal == CaptionInv'
             Here == clicks' \in [made : Int, left : Int] /\ clicks'.left = clicks.left /\ UNCHANGED shifted
             Quiet == UNCHANGED <<player, panels, shifted>> /\ (Click \/ UNCHANGED clicks)
  <1> SUFFICES Goal
    OBVIOUS
  <1>0. (Click \/ UNCHANGED clicks) /\ UNCHANGED shifted => Here
    BY DEF Click, CaptionInv
  <1>1. Quiet => Goal
    BY <1>0 DEF CaptionInv, OffsetOfCaption
  <1>2. UNCHANGED chromeVars \/ VideoAttaches \/ Restores \/ Applies \/ AutoplayMutes
        \/ (\E level \in 0 .. Levels : Slide(level)) \/ ToggleMute => Quiet
    BY DEF chromeVars, VideoAttaches, Restores, Applies, AutoplayMutes, Slide, ToggleMute, SetsVolume
  <1>3. FilesArrive => Goal
    BY <1>0 DEF FilesArrive, CaptionInv, OffsetOfCaption
  <1>4. (\E i \in 0 .. Len(SubTracks) : SelectSubtitle(i)) => Goal
    <2> SUFFICES ASSUME NEW i, SelectSubtitle(i) PROVE Goal
      OBVIOUS
    <2>1. /\ player' = [player EXCEPT !.subtitle = i, !.offset = 0]
          /\ panels' = [panels EXCEPT !.menus = @ \ {"subtitles"}] /\ "subtitles" \in panels.menus
      BY DEF SelectSubtitle, Chosen
    <2>2. /\ player' = [film |-> player.film, files |-> player.files, subtitle |-> i, audio |-> player.audio,
                        offset |-> 0, style |-> player.style]
          /\ player.files
      BY <2>1 DEF CaptionInv
    <2>3. panels' \in [menus : SUBSET Menu, appearance : BOOLEAN, fullscreen : BOOLEAN]
      BY <2>1 DEF CaptionInv
    <2>4. Here
      BY <1>0 DEF SelectSubtitle
    <2> QED
      BY <2>2, <2>3, <2>4 DEF CaptionInv, OffsetOfCaption
  <1>5. (\E i \in 1 .. Len(AudioTracks) : SelectAudio(i)) => Goal
    BY <1>0 DEF SelectAudio, CaptionInv, OffsetOfCaption
  <1>6. (\E step \in {-1, 1} : Nudge(step)) => Goal
    <2> SUFFICES ASSUME NEW step \in {-1, 1}, Nudge(step) PROVE Goal
      OBVIOUS
    <2>1. clicks' \in [made : Int, left : Int] /\ clicks'.left = clicks.left
      BY DEF Nudge, Click, CaptionInv
    <2>2. /\ player' = [player EXCEPT !.offset = @ + step] /\ shifted' = <<clicks.left, player.subtitle>>
          /\ player.subtitle # 0 /\ UNCHANGED panels
      BY DEF Nudge
    <2>3. player' \in [film : {player.film}, files : {player.files}, subtitle : {player.subtitle},
                       audio : {player.audio}, offset : Int, style : {player.style}]
      BY <2>2 DEF CaptionInv
    <2> QED
      BY <2>1, <2>2, <2>3 DEF CaptionInv, OffsetOfCaption
  <1>7. (\E menu \in Menu : ToggleMenu(menu)) => Goal
    <2> SUFFICES ASSUME NEW menu \in Menu, ToggleMenu(menu) PROVE Goal
      OBVIOUS
    <2>1. player.files /\ UNCHANGED player /\ Here
      BY <1>0 DEF ToggleMenu, Offered, Menu
    <2>2. panels' \in [menus : SUBSET Menu, appearance : BOOLEAN, fullscreen : BOOLEAN]
      BY DEF ToggleMenu, CaptionInv
    <2> QED
      BY <2>1, <2>2 DEF CaptionInv, OffsetOfCaption
  <1>8. ClickOutside \/ OpenAppearance \/ CloseAppearance \/ Fullscreen => Goal
    BY <1>0 DEF ClickOutside, OpenAppearance, CloseAppearance, Fullscreen, CaptionInv, OffsetOfCaption
  <1>9. (\E style \in Style : ChangeAppearance(style)) => Goal
    BY <1>0 DEF ChangeAppearance, CaptionInv, OffsetOfCaption
  <1>10. Leaves => Goal
    BY DEF Leaves, FreshPlayer, NoPanels, CaptionInv, OffsetOfCaption
  <1>11. GoBack => Goal
    BY <1>10 DEF GoBack
  <1>12. EscapeKey => Goal
    <2>1. EscapeKey /\ ~Leaves => /\ UNCHANGED player
                                  /\ panels' \in [menus : SUBSET Menu, appearance : BOOLEAN, fullscreen : BOOLEAN]
                                  /\ panels'.menus = {} /\ Here
      BY <1>0 DEF EscapeKey, CaptionInv
    <2> QED
      BY <1>10, <2>1 DEF CaptionInv, OffsetOfCaption
  <1> HIDE DEF Goal, Quiet, Here
  <1> QED
    BY <1>1, <1>2, <1>3, <1>4, <1>5, <1>6, <1>7, <1>8, <1>9, <1>10, <1>11, <1>12, PartsStep DEF ChromeNext

LEMMA CaptionAlways == Spec => []CaptionInv
  <1>1. Init => CaptionInv
    BY DEF Init, ChromeInit, NoPanels, CaptionInv, OffsetOfCaption
  <1> QED
    BY <1>1, CaptionStep, PTL DEF Spec

\* An offset that is not zero was set on the caption on screen, in this visit of the
\* page: none is left over from another caption or another title (selectSubtitle, PlayerPage).
THEOREM OffsetIsOfItsCaption == Spec => []OffsetOfCaption
  <1>1. CaptionInv => OffsetOfCaption
    BY DEF CaptionInv
  <1> QED
    BY <1>1, CaptionAlways, PTL

\* Escape closes a menu and leaves neither the film nor its fullscreen
\* (SubtitleMenu's listener, PlayerPage's key handler).
THEOREM EscapeClosesMenus == Spec => EscapeClosesMenu
  <1>1. Init => DOMAIN clicks = {"made", "left"}
    BY DEF Init, ChromeInit
  <1>2. DOMAIN clicks = {"made", "left"} /\ [Next]_webVars => (DOMAIN clicks = {"made", "left"})'
    <2> SUFFICES ASSUME DOMAIN clicks = {"made", "left"}, [Next]_webVars
                 PROVE  DOMAIN clicks' = {"made", "left"}
      OBVIOUS
    <2>1. Click \/ Leaves \/ UNCHANGED clicks => DOMAIN clicks' = {"made", "left"}
      BY DEF Click, Leaves
    <2>2. ChromeNext => Click \/ Leaves \/ UNCHANGED clicks
      BY DEF ChromeNext, FilesArrive, SelectSubtitle, SelectAudio, Nudge, ToggleMenu, ClickOutside, OpenAppearance,
         CloseAppearance, ChangeAppearance, GoBack, Fullscreen, EscapeKey, VideoAttaches, Restores, Applies,
         AutoplayMutes, Slide, ToggleMute, SetsVolume
    <2> QED
      BY <2>1, <2>2, PartsStep DEF chromeVars
  <1>3. CaptionInv /\ DOMAIN clicks = {"made", "left"} =>
          [EscapeKey /\ panels.menus # {} =>
             clicks'.left = clicks.left /\ panels'.fullscreen = panels.fullscreen]_chromeVars
    BY DEF EscapeKey, PageHears, Click, CaptionInv
  <1> QED
    BY <1>1, <1>2, <1>3, CaptionAlways, PTL DEF Spec, EscapeClosesMenu

\* A set of naturals that has an element has a least one.
LEMMA LeastOf ==
    ASSUME NEW S, S \subseteq Nat, S # {}
    PROVE  \E i \in S : \A j \in S : i <= j
  <1>1. PICK i \in S : \A j \in S : ~(<<j, i>> \in OpToRel(<, Nat))
    BY NatLessThanWellFounded, WFMin, Zenon
  <1>2. ASSUME NEW j \in S PROVE i <= j
    <2>1. i \in Nat /\ j \in Nat
      OBVIOUS
    <2>2. ~(j < i)
      BY <1>1, <2>1 DEF OpToRel
    <2> QED
      BY <2>1, <2>2
  <1> QED
    BY <1>2

LEMMA FirstIs == ASSUME NEW n \in Nat, NEW S, S \subseteq 1 .. n PROVE FirstOf(S) \in 0 .. n
  <1>1. CASE S = {}
    BY <1>1 DEF FirstOf
  <1>2. CASE S # {}
    <2>1. S \subseteq Nat
      <3>1. \A x : x \in 1 .. n => x \in Nat
        OBVIOUS
      <3> QED
        BY <3>1, Zenon
    <2>2. \E i \in S : \A j \in S : i <= j
      BY <1>2, <2>1, LeastOf, Zenon
    <2>3. FirstOf(S) \in S
      BY <1>2, <2>2 DEF FirstOf
    <2>4. \A x : x \in 1 .. n => x \in 0 .. n
      OBVIOUS
    <2> QED
      BY <2>3, <2>4, Zenon
  <1> QED
    BY <1>1, <1>2

\* The best track, if some score is positive, is one with the highest.
LEMMA BestIs ==
    ASSUME NEW S, S \subseteq Nat \ {0}, NEW score \in [S -> 0 .. 5]
    PROVE  /\ Best(score) \in S \cup {0}
           /\ Best(score) = 0 <=> \A j \in S : score[j] = 0
           /\ Best(score) # 0 => \A j \in S : score[j] <= score[Best(score)]
  <1> DEFINE Fits(i) == IF \A j \in S : score[j] = 0 THEN i = 0
                        ELSE i # 0 /\ \A j \in S : score[j] <= score[i] /\ (score[j] = score[i] => i <= j)
  <1>1. Best(score) = CHOOSE i \in S \cup {0} : Fits(i)
    BY DEF Best
  <1>2. \E i \in S \cup {0} : Fits(i)
    <2>1. CASE \A j \in S : score[j] = 0
      BY <2>1
    <2>2. CASE ~\A j \in S : score[j] = 0
      <3> DEFINE D == {5 - score[j] : j \in S}
      <3>1. D \subseteq Nat /\ D # {}
        <4>1. \A j \in S : score[j] \in 0 .. 5
          OBVIOUS
        <4>2. \A j \in S : 5 - score[j] \in Nat
          BY <4>1
        <4>3. PICK j \in S : TRUE
          BY <2>2
        <4>4. 5 - score[j] \in D
          BY <4>3
        <4> QED
          BY <4>2, <4>4
      <3> HIDE DEF D
      <3>2. PICK d \in D : \A e \in D : d <= e
        BY <3>1, LeastOf
      <3> DEFINE T == {j \in S : 5 - score[j] = d}
      <3>3. T \subseteq Nat /\ T # {}
        BY <3>2 DEF D
      <3> HIDE DEF T
      <3>4. PICK i \in T : \A j \in T : i <= j
        BY <3>3, LeastOf
      <3>5. i \in S /\ 5 - score[i] = d /\ i # 0
        BY <3>4 DEF T
      <3>6. ASSUME NEW j \in S PROVE score[j] <= score[i] /\ (score[j] = score[i] => i <= j)
        <4>1. 5 - score[j] \in D /\ score[j] \in 0 .. 5 /\ score[i] \in 0 .. 5
          BY <3>5 DEF D
        <4>2. 5 - score[i] <= 5 - score[j]
          BY <3>2, <3>5, <4>1
        <4>3. score[j] = score[i] => j \in T
          BY <3>5 DEF T
        <4> QED
          BY <3>4, <4>1, <4>2, <4>3
      <3> QED
        BY <2>2, <3>5, <3>6
    <2> QED
      BY <2>1, <2>2
  <1>3. Best(score) \in S \cup {0} /\ Fits(Best(score))
    BY <1>1, <1>2, Zenon
  <1> QED
    BY <1>3


\* A score is at most five, and from three on a language or a title agrees.
LEMMA ScoreIs ==
    ASSUME NEW t \in SubTrack, NEW want
    PROVE  /\ ScoreMatch(t, want) \in 0 .. 5
           /\ ScoreMatch(t, want) >= 3 => Agrees(t, want)
           /\ t.forced = want.forced /\ Same(t.language, want.language) => ScoreMatch(t, want) >= 3
  <1> DEFINE A == Same(t.language, want.language)
             B == Same(t.title, want.title)
             C == t.forced = want.forced
  <1>1. A \in BOOLEAN /\ B \in BOOLEAN /\ C \in BOOLEAN
    BY DEF Same
  <1>2. ScoreMatch(t, want) = Points(A, 2) + Points(B, 2) + Points(C, 1)
    BY DEF ScoreMatch
  <1>3. Agrees(t, want) <=> A \/ B
    BY DEF Agrees
  <1> HIDE DEF A, B, C
  <1>4. /\ ScoreMatch(t, want) \in 0 .. 5
        /\ ScoreMatch(t, want) >= 3 => A \/ B
        /\ C /\ A => ScoreMatch(t, want) >= 3
    BY <1>1, <1>2 DEF Points
  <1> QED
    BY <1>3, <1>4 DEF A, C

LEMMA AudioScoreIs ==
    ASSUME NEW t \in AudioTrack, NEW want
    PROVE  /\ ScoreAudioMatch(t, want) \in 0 .. 5
           /\ ScoreAudioMatch(t, want) >= 2 => Agrees(t, want)
           /\ Same(t.language, want.language) => ScoreAudioMatch(t, want) >= 2
  <1> DEFINE A == Same(t.language, want.language)
             B == Same(t.title, want.title)
  <1>1. A \in BOOLEAN /\ B \in BOOLEAN
    BY DEF Same
  <1>2. ScoreAudioMatch(t, want) = Points(A, 2) + Points(B, 2)
    BY DEF ScoreAudioMatch
  <1>3. Agrees(t, want) <=> A \/ B
    BY DEF Agrees
  <1> HIDE DEF A, B
  <1>4. /\ ScoreAudioMatch(t, want) \in 0 .. 5
        /\ ScoreAudioMatch(t, want) >= 2 => A \/ B
        /\ A => ScoreAudioMatch(t, want) >= 2
    BY <1>1, <1>2 DEF Points
  <1> QED
    BY <1>3, <1>4 DEF A

\* The caption a title starts with: none when captions were turned off, and one that agrees with the
\* remembered one where the title has one as good.
LEMMA SubtitleIs ==
    ASSUME player.film \in Playable, NEW want
    PROVE  /\ AutoSelectSubtitle(want) \in 0 .. Len(SubTracks)
           /\ want # Unset /\ want.off => AutoSelectSubtitle(want) = 0
           /\ want # Unset /\ ~want.off /\ (\E i \in Selectable : /\ SubTracks[i].forced = want.forced
                                                                 /\ Same(SubTracks[i].language, want.language))
                => /\ AutoSelectSubtitle(want) # 0
                   /\ Agrees(SubTracks[AutoSelectSubtitle(want)], want)
  <1> DEFINE n == Len(SubTracks)
             score == [i \in Selectable |-> ScoreMatch(SubTracks[i], want)]
             best == Best(score)
  <1>1. SubTracks \in Seq(SubTrack) /\ n \in Nat
    BY ChromeAssumption DEF SubTracks
  <1>2. Selectable \subseteq 1 .. n /\ \A i \in Selectable : SubTracks[i] \in SubTrack
    BY <1>1 DEF Selectable
  <1>3. score \in [Selectable -> 0 .. 5]
    BY <1>2, ScoreIs
  <1>4. /\ best \in Selectable \cup {0}
        /\ best = 0 <=> \A j \in Selectable : score[j] = 0
        /\ best # 0 => \A j \in Selectable : score[j] <= score[best]
    <2> HIDE DEF score
    <2>1. Selectable \subseteq Nat \ {0}
      BY <1>1, <1>2
    <2> QED
      BY <1>3, <2>1, BestIs
  <1>5. FilesChoice \in 0 .. n
    <2> DEFINE defaults == {i \in Selectable : SubTracks[i].default}
               forced == {i \in Selectable : SubTracks[i].forced}
    <2>1. defaults \subseteq Selectable /\ forced \subseteq Selectable
      OBVIOUS
    <2>2. FilesChoice = FirstOf(defaults) \/ FilesChoice = FirstOf(forced)
      BY DEF FilesChoice
    <2> HIDE DEF defaults, forced, n
    <2>3. defaults \subseteq 1 .. n /\ forced \subseteq 1 .. n
      BY <1>2, <2>1, Zenon
    <2>4. FirstOf(defaults) \in 0 .. n /\ FirstOf(forced) \in 0 .. n
      BY <1>1, <2>3, FirstIs
    <2> QED
      BY <2>2, <2>4
  <1>6. AutoSelectSubtitle(want) = IF want # Unset /\ want.off THEN 0
                                   ELSE IF want # Unset /\ best # 0 /\ Carries(score[best]) THEN best ELSE FilesChoice
    BY DEF AutoSelectSubtitle
  <1>7. ASSUME want # Unset, ~want.off, NEW i \in Selectable, SubTracks[i].forced = want.forced,
               Same(SubTracks[i].language, want.language)
        PROVE  AutoSelectSubtitle(want) # 0 /\ Agrees(SubTracks[AutoSelectSubtitle(want)], want)
    <2>1. score[i] = ScoreMatch(SubTracks[i], want) /\ score[i] >= 3
      BY <1>2, <1>7, ScoreIs
    <2> HIDE DEF score, best
    <2>2. best \in Selectable /\ score[best] >= 3
      <3>1. score[i] \in 0 .. 5 /\ score[i] # 0
        BY <1>3, <2>1
      <3>2. best # 0 /\ best \in Selectable
        BY <1>4, <3>1
      <3>3. score[i] <= score[best] /\ score[best] \in 0 .. 5
        BY <1>3, <1>4, <3>2
      <3> QED
        BY <2>1, <3>1, <3>2, <3>3
    <2>3. best # 0
      BY <1>2, <2>2
    <2>4. AutoSelectSubtitle(want) = best
      BY <1>6, <1>7, <2>2, <2>3 DEF Carries
    <2>5. score[best] = ScoreMatch(SubTracks[best], want)
      BY <2>2 DEF score
    <2>6. Agrees(SubTracks[best], want)
      BY <1>2, <2>2, <2>5, ScoreIs
    <2> QED
      BY <2>3, <2>4, <2>6
  <1> HIDE DEF score, best
  <1>8. AutoSelectSubtitle(want) \in 0 .. n
    BY <1>1, <1>2, <1>4, <1>5, <1>6
  <1>9. want # Unset /\ want.off => AutoSelectSubtitle(want) = 0
    BY <1>6
  <1> HIDE DEF n
  <1> QED
    BY <1>7, <1>8, <1>9 DEF n

\* The audio track a title starts with agrees with the remembered one where one does.
LEMMA AudioIs ==
    ASSUME player.film \in Playable, NEW want
    PROVE  /\ AutoSelectAudio(want) \in 0 .. Len(AudioTracks)
           /\ want # Unset /\ (\E i \in 1 .. Len(AudioTracks) : Same(AudioTracks[i].language, want.language))
                => AutoSelectAudio(want) # 0 /\ Agrees(AudioTracks[AutoSelectAudio(want)], want)
  <1> DEFINE n == Len(AudioTracks)
             score == [i \in DOMAIN AudioTracks |-> ScoreAudioMatch(AudioTracks[i], want)]
             best == Best(score)
  <1>1. AudioTracks \in Seq(AudioTrack) /\ n \in Nat /\ DOMAIN AudioTracks = 1 .. n
    BY ChromeAssumption DEF AudioTracks
  <1>2. \A i \in 1 .. n : AudioTracks[i] \in AudioTrack
    BY <1>1
  <1>3. score \in [1 .. n -> 0 .. 5]
    BY <1>1, <1>2, AudioScoreIs
  <1>4. /\ best \in 1 .. n \cup {0}
        /\ best = 0 <=> \A j \in 1 .. n : score[j] = 0
        /\ best # 0 => \A j \in 1 .. n : score[j] <= score[best]
    <2> HIDE DEF score
    <2>1. 1 .. n \subseteq Nat \ {0}
      BY <1>1
    <2> QED
      BY <1>3, <2>1, BestIs
  <1>5. AutoSelectAudio(want) = IF want # Unset /\ best # 0 /\ score[best] >= 2 THEN best ELSE 0
    BY DEF AutoSelectAudio
  <1>6. ASSUME want # Unset, NEW i \in 1 .. n, Same(AudioTracks[i].language, want.language)
        PROVE  AutoSelectAudio(want) # 0 /\ Agrees(AudioTracks[AutoSelectAudio(want)], want)
    <2>1. score[i] >= 2
      BY <1>1, <1>2, <1>6, AudioScoreIs
    <2> HIDE DEF score, best
    <2>2. best \in 1 .. n /\ best # 0 /\ score[best] >= 2
      <3>1. score[i] \in 0 .. 5 /\ score[i] # 0
        BY <1>3, <2>1
      <3>2. best # 0 /\ best \in 1 .. n
        BY <1>4, <3>1
      <3>3. score[i] <= score[best] /\ score[best] \in 0 .. 5
        BY <1>3, <1>4, <3>2
      <3> QED
        BY <2>1, <3>1, <3>2, <3>3
    <2>3. AutoSelectAudio(want) = best
      BY <1>5, <1>6, <2>2
    <2>4. score[best] = ScoreAudioMatch(AudioTracks[best], want)
      BY <1>1, <2>2 DEF score
    <2>5. Agrees(AudioTracks[best], want)
      BY <1>2, <2>2, <2>4, AudioScoreIs
    <2> QED
      BY <2>2, <2>3, <2>5
  <1> HIDE DEF score, best
  <1>7. AutoSelectAudio(want) \in 0 .. n
    BY <1>1, <1>4, <1>5
  <1> HIDE DEF n
  <1> QED
    BY <1>6, <1>7 DEF n


StoredOf == [volume : Volume, subtitle : RememberedSubtitle \cup {Unset},
             audio : RememberedAudio \cup {Unset}, style : Style]
PlayerOf == [film : Playable, files : BOOLEAN, subtitle : Nat, audio : Nat,
             offset : -MaxOffset .. MaxOffset, style : Style]
ClicksOf == [made : 0 .. MaxClicks, left : Nat]

LEMMA ChromeBounds == Levels \in Nat \ {0} /\ MaxClicks \in Nat /\ MaxOffset \in Nat
  BY ChromeAssumption, Zenon

\* Captions that were turned off are remembered without a language, so that no track is as good.
ChoiceInv ==
    /\ stored \in StoredOf /\ player \in PlayerOf /\ clicks \in ClicksOf
    /\ player.subtitle <= Len(Subs[player.film]) /\ player.audio <= Len(Audios[player.film])
    /\ stored.subtitle # Unset /\ stored.subtitle.off => stored.subtitle.language = NoTag
    /\ ChoiceCarries

LEMMA ChoiceStarts == Init => ChoiceInv
  <1> SUFFICES ASSUME Init PROVE ChoiceInv
    OBVIOUS
  <1>1. ChromeInit
    BY DEF Init
  <1>2. stored \in StoredOf /\ stored.subtitle = Unset
    BY <1>1, ChromeBounds DEF ChromeInit, StoredOf, FullVolume, Volume, Style
  <1>3. player \in PlayerOf /\ player.subtitle = 0 /\ player.audio = 0 /\ ~player.files
    <2>1. 0 \in -MaxOffset .. MaxOffset
      BY ChromeBounds
    <2>2. PICK film \in Playable : player = [film |-> film, files |-> FALSE, subtitle |-> 0, audio |-> 0,
                                            offset |-> 0, style |-> "default"]
      BY <1>1 DEF ChromeInit
    <2> QED
      BY <2>1, <2>2 DEF PlayerOf, Style
  <1>4. clicks \in ClicksOf
    BY <1>1, ChromeBounds DEF ChromeInit, ClicksOf
  <1>5. Subs[player.film] \in Seq(SubTrack) /\ Audios[player.film] \in Seq(AudioTrack)
    BY <1>3, ChromeAssumption DEF PlayerOf
  <1> QED
    BY <1>2, <1>3, <1>4, <1>5 DEF ChoiceInv, ChoiceCarries

LEMMA ClickTypes == ASSUME clicks \in ClicksOf, Click PROVE clicks' \in ClicksOf
  BY ChromeBounds DEF Click, ClicksOf

\* What changes neither a choice nor the title keeps what the choices promise.
LEMMA ChoiceQuiet ==
    ASSUME ChoiceInv, Click \/ UNCHANGED clicks,
           stored' \in StoredOf, stored'.subtitle = stored.subtitle, stored'.audio = stored.audio,
           player' \in PlayerOf, player'.film = player.film, player'.files = player.files,
           player'.subtitle = player.subtitle, player'.audio = player.audio
    PROVE  ChoiceInv'
  <1>1. clicks' \in ClicksOf
    BY ClickTypes DEF ChoiceInv
  <1>2. SubTracks' = SubTracks /\ AudioTracks' = AudioTracks /\ Selectable' = Selectable
    BY DEF SubTracks, AudioTracks, Selectable
  <1>3. ChoiceCarries'
    BY <1>2 DEF ChoiceInv, ChoiceCarries
  <1> QED
    BY <1>1, <1>3 DEF ChoiceInv

\* A new page has chosen nothing.
LEMMA LeavesKeepsChoice == ASSUME ChoiceInv, Leaves, clicks.made < MaxClicks PROVE ChoiceInv'
  <1>1. PICK film \in Playable : player' = FreshPlayer(film)
    BY DEF Leaves
  <1>2. stored' = stored /\ stored \in StoredOf
    BY DEF Leaves, ChoiceInv
  <1>3. player' \in PlayerOf /\ player'.subtitle = 0 /\ player'.audio = 0 /\ ~player'.files
    <2>1. 0 \in -MaxOffset .. MaxOffset /\ stored.style \in Style
      BY <1>2, ChromeBounds DEF StoredOf
    <2> QED
      BY <1>1, <2>1 DEF FreshPlayer, PlayerOf
  <1>4. clicks' \in ClicksOf
    BY ChromeBounds DEF Leaves, ChoiceInv, ClicksOf
  <1>5. Subs[player'.film] \in Seq(SubTrack) /\ Audios[player'.film] \in Seq(AudioTrack)
    BY <1>3, ChromeAssumption DEF PlayerOf
  <1> QED
    BY <1>2, <1>3, <1>4, <1>5 DEF ChoiceInv, ChoiceCarries

\* The files of a title come: the choices are carried over to its tracks.
LEMMA FilesKeepsChoice == ASSUME ChoiceInv, FilesArrive PROVE ChoiceInv'
  <1> DEFINE s == AutoSelectSubtitle(stored.subtitle)
             a == AutoSelectAudio(stored.audio)
  <1>1. /\ player' = [player EXCEPT !.files = TRUE, !.subtitle = s, !.audio = a]
        /\ UNCHANGED <<stored, clicks>>
    BY DEF FilesArrive
  <1>2. player \in PlayerOf /\ player.film \in Playable
    BY DEF ChoiceInv, PlayerOf
  <1>3. /\ s \in 0 .. Len(SubTracks) /\ a \in 0 .. Len(AudioTracks)
        /\ stored.subtitle # Unset /\ stored.subtitle.off => s = 0
        /\ stored.subtitle # Unset /\ ~stored.subtitle.off
             /\ (\E i \in Selectable : /\ SubTracks[i].forced = stored.subtitle.forced
                                       /\ Same(SubTracks[i].language, stored.subtitle.language))
             => s # 0 /\ Agrees(SubTracks[s], stored.subtitle)
        /\ stored.audio # Unset /\ (\E i \in 1 .. Len(AudioTracks) : Same(AudioTracks[i].language, stored.audio.language))
             => a # 0 /\ Agrees(AudioTracks[a], stored.audio)
    BY <1>2, SubtitleIs, AudioIs
  <1> HIDE DEF s, a
  <1>4. SubTracks \in Seq(SubTrack) /\ AudioTracks \in Seq(AudioTrack)
    BY <1>2, ChromeAssumption DEF SubTracks, AudioTracks
  <1>5. s \in Nat /\ s <= Len(SubTracks) /\ a \in Nat /\ a <= Len(AudioTracks)
    BY <1>3, <1>4
  <1>6. /\ player' \in PlayerOf /\ player'.film = player.film
        /\ player'.subtitle = s /\ player'.audio = a
    BY <1>1, <1>2, <1>5 DEF PlayerOf
  <1>7. SubTracks' = SubTracks /\ AudioTracks' = AudioTracks /\ Selectable' = Selectable
    BY <1>6 DEF SubTracks, AudioTracks, Selectable
  <1>8. ~(stored.subtitle # Unset /\ stored.subtitle.off /\ \E i \in Selectable : Same(SubTracks[i].language, stored.subtitle.language))
    BY DEF ChoiceInv, Same
  <1>9. ChoiceCarries'
    BY <1>1, <1>3, <1>6, <1>7, <1>8 DEF ChoiceCarries
  <1> QED
    BY <1>1, <1>5, <1>6, <1>7, <1>9 DEF ChoiceInv, SubTracks, AudioTracks

\* A caption is chosen, or none: what is remembered is what agrees with it.
LEMMA SubtitleKeepsChoice ==
    ASSUME ChoiceInv, NEW i \in 0 .. Len(SubTracks), SelectSubtitle(i)
    PROVE  ChoiceInv'
  <1> DEFINE r == RememberSubtitle(i)
  <1>1. /\ player' = [player EXCEPT !.subtitle = i, !.offset = 0]
        /\ stored' = [stored EXCEPT !.subtitle = r] /\ Click
    BY DEF SelectSubtitle, Chosen
  <1>2. player \in PlayerOf /\ player.film \in Playable /\ stored \in StoredOf /\ clicks' \in ClicksOf
    BY <1>1, ClickTypes DEF ChoiceInv, PlayerOf
  <1>3. SubTracks \in Seq(SubTrack) /\ i \in Nat /\ i <= Len(SubTracks)
    BY <1>2, ChromeAssumption DEF SubTracks
  <1>4. r \in RememberedSubtitle /\ (r.off => i = 0 /\ r.language = NoTag)
        /\ (i # 0 => ~r.off /\ r.language = SubTracks[i].language)
        /\ (i = 0 => r.off)
    <2>1. CASE i = 0
      <3>1. r = [off |-> TRUE, language |-> NoTag, title |-> NoTag, forced |-> FALSE]
        BY <2>1 DEF RememberSubtitle
      <3>2. NoTag \in STRING
        BY ChromeAssumption, Zenon
      <3> HIDE DEF r
      <3>3. r \in RememberedSubtitle /\ r.off /\ r.language = NoTag
        BY <3>1, <3>2 DEF RememberedSubtitle
      <3> QED
        BY <2>1, <3>3
    <2>2. CASE i # 0
      <3> DEFINE t == SubTracks[i]
      <3>1. t \in SubTrack
        BY <1>3, <2>2
      <3>2. r = [off |-> FALSE, language |-> t.language, title |-> t.title, forced |-> t.forced]
        BY <2>2 DEF RememberSubtitle
      <3>3. t.language \in STRING /\ t.title \in STRING /\ t.forced \in BOOLEAN
        BY <3>1, Zenon DEF SubTrack
      <3> HIDE DEF t, r
      <3>4. r \in RememberedSubtitle /\ ~r.off /\ r.language = t.language
        BY <3>2, <3>3 DEF RememberedSubtitle
      <3> QED
        BY <2>2, <3>4 DEF t
    <2> QED
      BY <2>1, <2>2
  <1> HIDE DEF r
  <1>5. /\ player' \in PlayerOf /\ player'.film = player.film /\ player'.files = player.files
        /\ player'.subtitle = i /\ player'.audio = player.audio
    <2>1. 0 \in -MaxOffset .. MaxOffset
      BY ChromeBounds
    <2> QED
      BY <1>1, <1>2, <1>3, <2>1 DEF PlayerOf
  <1>6. stored' \in StoredOf /\ stored'.subtitle = r /\ stored'.audio = stored.audio
    BY <1>1, <1>2, <1>4 DEF StoredOf
  <1>7. SubTracks' = SubTracks /\ AudioTracks' = AudioTracks /\ Selectable' = Selectable
    BY <1>5 DEF SubTracks, AudioTracks, Selectable
  <1>8. ChoiceCarries'
    <2> SUFFICES ASSUME player.files
                 PROVE  /\ r # Unset /\ r.off => i = 0
                        /\ r # Unset /\ (\E j \in Selectable : /\ SubTracks[j].forced = r.forced
                                                                /\ Same(SubTracks[j].language, r.language))
                             => i # 0 /\ Agrees(SubTracks[i], r)
                        /\ stored.audio # Unset /\ (\E j \in 1 .. Len(AudioTracks) : Same(AudioTracks[j].language, stored.audio.language))
                             => player.audio # 0 /\ Agrees(AudioTracks[player.audio], stored.audio)
      BY <1>5, <1>6, <1>7 DEF ChoiceCarries
    <2>1. (\E j \in Selectable : Same(SubTracks[j].language, r.language)) => i # 0 /\ Agrees(SubTracks[i], r)
      BY <1>4 DEF Same, Agrees
    <2> QED
      BY <1>4, <2>1 DEF ChoiceInv, ChoiceCarries
  <1> QED
    BY <1>2, <1>3, <1>4, <1>5, <1>6, <1>8 DEF ChoiceInv, SubTracks

LEMMA AudioKeepsChoice ==
    ASSUME ChoiceInv, NEW i \in 1 .. Len(AudioTracks), SelectAudio(i)
    PROVE  ChoiceInv'
  <1> DEFINE r == AudioTracks[i]
  <1>1. /\ player' = [player EXCEPT !.audio = i]
        /\ stored' = [stored EXCEPT !.audio = r] /\ Click
    BY DEF SelectAudio
  <1>2. player \in PlayerOf /\ player.film \in Playable /\ stored \in StoredOf /\ clicks' \in ClicksOf
    BY <1>1, ClickTypes DEF ChoiceInv, PlayerOf
  <1>3. AudioTracks \in Seq(AudioTrack) /\ i \in Nat \ {0} /\ i <= Len(AudioTracks)
    BY <1>2, ChromeAssumption DEF AudioTracks
  <1>4. r \in RememberedAudio
    BY <1>3 DEF RememberedAudio
  <1> HIDE DEF r
  <1>5. /\ player' \in PlayerOf /\ player'.film = player.film /\ player'.files = player.files
        /\ player'.subtitle = player.subtitle /\ player'.audio = i
    BY <1>1, <1>2, <1>3 DEF PlayerOf
  <1>6. stored' \in StoredOf /\ stored'.subtitle = stored.subtitle /\ stored'.audio = r
    BY <1>1, <1>2, <1>4 DEF StoredOf
  <1>7. SubTracks' = SubTracks /\ AudioTracks' = AudioTracks /\ Selectable' = Selectable
    BY <1>5 DEF SubTracks, AudioTracks, Selectable
  <1>8. (\E j \in 1 .. Len(AudioTracks) : Same(AudioTracks[j].language, r.language)) => i # 0 /\ Agrees(AudioTracks[i], r)
    BY <1>3 DEF Same, Agrees, r
  <1>9. ChoiceCarries'
    BY <1>5, <1>6, <1>7, <1>8 DEF ChoiceInv, ChoiceCarries
  <1> QED
    BY <1>2, <1>3, <1>5, <1>6, <1>9 DEF ChoiceInv, AudioTracks

LEMMA ChoiceStep == ChoiceInv /\ SoundInv /\ [Next]_webVars => ChoiceInv'
  <1> SUFFICES ASSUME ChoiceInv, SoundInv, [Next]_webVars PROVE ChoiceInv'
    OBVIOUS
  <1> DEFINE Goal == ChoiceInv'
             Same2 == UNCHANGED <<stored, player>> /\ (Click \/ UNCHANGED clicks)
  <1> SUFFICES Goal
    OBVIOUS
  <1>1. stored \in StoredOf /\ player \in PlayerOf
    BY DEF ChoiceInv
  <1>2. Same2 => Goal
    BY <1>1, ChoiceQuiet
  <1>3. UNCHANGED chromeVars \/ (\E menu \in Menu : ToggleMenu(menu)) \/ ClickOutside \/ OpenAppearance
        \/ CloseAppearance \/ Fullscreen \/ VideoAttaches \/ Restores \/ Applies \/ AutoplayMutes => Same2
    BY DEF chromeVars, ToggleMenu, ClickOutside, OpenAppearance, CloseAppearance, Fullscreen, VideoAttaches,
       Restores, Applies, AutoplayMutes
  <1>4. (\E step \in {-1, 1} : Nudge(step)) => Goal
    <2> SUFFICES ASSUME NEW step \in {-1, 1}, Nudge(step) PROVE Goal
      OBVIOUS
    <2>1. /\ player' = [player EXCEPT !.offset = player.offset + step] /\ UNCHANGED stored /\ Click
          /\ player.offset + step \in -MaxOffset .. MaxOffset
      BY DEF Nudge
    <2>2. player' \in PlayerOf /\ player'.film = player.film /\ player'.files = player.files
          /\ player'.subtitle = player.subtitle /\ player'.audio = player.audio
      BY <1>1, <2>1 DEF PlayerOf
    <2> QED
      BY <1>1, <2>1, <2>2, ChoiceQuiet
  <1>5. (\E style \in Style : ChangeAppearance(style)) => Goal
    <2> SUFFICES ASSUME NEW style \in Style, ChangeAppearance(style) PROVE Goal
      OBVIOUS
    <2>1. player' = [player EXCEPT !.style = style] /\ stored' = [stored EXCEPT !.style = style] /\ Click
      BY DEF ChangeAppearance
    <2>2. player' \in PlayerOf /\ player'.film = player.film /\ player'.files = player.files
          /\ player'.subtitle = player.subtitle /\ player'.audio = player.audio
      BY <1>1, <2>1 DEF PlayerOf
    <2>3. stored' \in StoredOf /\ stored'.subtitle = stored.subtitle /\ stored'.audio = stored.audio
      BY <1>1, <2>1 DEF StoredOf
    <2> QED
      BY <2>1, <2>2, <2>3, ChoiceQuiet
  <1>6. ASSUME NEW v \in Volume, SetsVolume(v) PROVE Goal
    <2>1. UNCHANGED player /\ stored' = [stored EXCEPT !.volume = v] /\ Click
      BY <1>6 DEF SetsVolume, Persisted
    <2>2. stored' \in StoredOf /\ stored'.subtitle = stored.subtitle /\ stored'.audio = stored.audio
      BY <1>1, <2>1 DEF StoredOf
    <2> QED
      BY <1>1, <2>1, <2>2, ChoiceQuiet
  <1>7. (\E level \in 0 .. Levels : Slide(level)) => Goal
    BY <1>6 DEF Slide, Volume
  <1>8. ToggleMute => Goal
    <2>1. [sound.shown EXCEPT !.muted = ~@] \in Volume
      BY DEF SoundInv, SoundOf, Volume
    <2> QED
      BY <1>6, <2>1 DEF ToggleMute
  <1>9. GoBack \/ EscapeKey => Same2 \/ (Leaves /\ clicks.made < MaxClicks)
    BY DEF GoBack, EscapeKey
  <1>10. Leaves /\ clicks.made < MaxClicks => Goal
    BY LeavesKeepsChoice
  <1>11. FilesArrive => Goal
    BY FilesKeepsChoice
  <1>12. (\E i \in 0 .. Len(SubTracks) : SelectSubtitle(i)) => Goal
    BY SubtitleKeepsChoice
  <1>13. (\E i \in 1 .. Len(AudioTracks) : SelectAudio(i)) => Goal
    BY AudioKeepsChoice
  <1> HIDE DEF Goal, Same2
  <1> QED
    BY <1>2, <1>3, <1>4, <1>5, <1>7, <1>8, <1>9, <1>10, <1>11, <1>12, <1>13, PartsStep DEF ChromeNext

LEMMA SoundAlways == Spec => []SoundInv
  <1>1. Init => SoundInv
    BY ChromeAssumption DEF Init, ChromeInit, FreshSound, FullVolume, SoundInv, SoundOf, VolumeKept, Volume
  <1> QED
    BY <1>1, SoundStep, PTL DEF Spec

LEMMA ChoiceAlways == Spec => []ChoiceInv
  BY ChoiceStarts, ChoiceStep, SoundAlways, PTL DEF Spec

\* What the viewer chose on one title holds on the next: captions and audio of a language
\* (autoSelectSubtitle, autoSelectAudio), the volume, and no offset of another caption.
THEOREM ChoicesAlwaysKept == Spec => []ChoicesKept
  <1>1. ChoiceInv /\ SoundInv /\ CaptionInv => ChoicesKept
    BY DEF ChoiceInv, SoundInv, CaptionInv, ChoicesKept
  <1> QED
    BY <1>1, ChoiceAlways, SoundAlways, CaptionAlways, PTL

ShiftInv == shifted \in Nat \X Nat
LEMMA ShiftStep == ChoiceInv /\ ShiftInv /\ [Next]_webVars => ShiftInv'
  <1> SUFFICES ASSUME ChoiceInv, ShiftInv, [Next]_webVars PROVE ShiftInv'
    OBVIOUS
  <1>1. clicks.left \in Nat /\ player.subtitle \in Nat
    BY DEF ChoiceInv, ClicksOf, PlayerOf
  <1>2. (\E step \in {-1, 1} : Nudge(step)) => ShiftInv'
    BY <1>1 DEF Nudge, ShiftInv
  <1>3. UNCHANGED shifted => ShiftInv'
    BY DEF ShiftInv
  <1>4. ChromeNext => UNCHANGED shifted \/ (\E step \in {-1, 1} : Nudge(step))
    BY DEF ChromeNext, FilesArrive, SelectSubtitle, SelectAudio, ToggleMenu, ClickOutside, OpenAppearance,
       CloseAppearance, ChangeAppearance, GoBack, Fullscreen, EscapeKey, Leaves, VideoAttaches, Restores,
       Applies, AutoplayMutes, Slide, ToggleMute, SetsVolume
  <1> QED
    BY <1>2, <1>3, <1>4, PartsStep DEF chromeVars

\* Stored choices, tracks, panels and volume are well formed.
LEMMA ChromeTypes == Spec => []ChromeTypeOK
  <1>1. ChoiceInv /\ SoundInv /\ CaptionInv /\ ShiftInv => ChromeTypeOK
    BY DEF ChoiceInv, SoundInv, CaptionInv, ShiftInv, ChromeTypeOK, StoredOf, PlayerOf, ClicksOf, SoundOf
  <1>2. Init => ShiftInv
    BY DEF Init, ChromeInit, ShiftInv
  <1> QED
    BY <1>1, <1>2, ShiftStep, ChoiceAlways, SoundAlways, CaptionAlways, PTL DEF Spec


-----------------------------------------------------------------------------
(* The dialogs of a title page and their writes *)

DialogOf == [open : BOOLEAN, candidates : BOOLEAN, busy : BOOLEAN]
WriteOf == [n : Nat, title : Film, pin : BOOLEAN, owned : BOOLEAN, paged : BOOLEAN, done : BOOLEAN]

\* One request at most counts, and only while the page is loading.
LiveGets(status, G) ==
    /\ \A g \in G : ~g.aborted => status = "loading"
    /\ \A g, h \in G : ~g.aborted /\ ~h.aborted => g = h

\* A dialog is open on a page of a movie that is ready, and only an open one
\* owns a write.
DialogInv ==
    /\ dialog \in DialogOf /\ writes \subseteq WriteOf /\ untold \subseteq AnyTitle
    /\ page.ran[1] \in Film => page.title \in Film
    /\ page.match => page.ran[1] \in Film
    /\ dialog.open => page.match /\ page.status = "ready"
    /\ \A w \in writes : w.owned => dialog.open
    /\ dialog.busy <=> \E w \in writes : w.owned
    /\ \A v, w \in writes : v.owned /\ w.owned => v = w
    /\ LiveGets(page.status, gets)

\* What becomes of a write in flight: its dialog goes, its page goes, it is done.
LEMMA WriteDisowned ==
    ASSUME NEW w \in WriteOf, NEW x, x = [w EXCEPT !.owned = FALSE]
    PROVE  /\ x \in WriteOf /\ ~x.owned
           /\ x.n = w.n /\ x.done = w.done /\ x.paged = w.paged /\ x.title = w.title
  BY DEF WriteOf
\* The page of a write is left (Open).
LeftBehind(w) == [w EXCEPT !.owned = FALSE, !.paged = FALSE]
LEMMA WriteLeft ==
    ASSUME NEW w \in WriteOf
    PROVE  /\ LeftBehind(w) \in WriteOf /\ ~LeftBehind(w).owned /\ ~LeftBehind(w).paged
           /\ LeftBehind(w).n = w.n /\ LeftBehind(w).done = w.done /\ LeftBehind(w).title = w.title
  BY DEF WriteOf, LeftBehind
LEMMA WriteDone ==
    ASSUME NEW w \in WriteOf, NEW x, x = [w EXCEPT !.done = TRUE]
    PROVE  /\ x \in WriteOf /\ x.done
           /\ x.n = w.n /\ x.owned = w.owned /\ x.paged = w.paged /\ x.title = w.title
  BY DEF WriteOf
LEMMA AllDisowned ==
    ASSUME NEW W \in SUBSET WriteOf, NEW D, D = {[w EXCEPT !.owned = FALSE] : w \in W}
    PROVE  D \subseteq WriteOf /\ \A x \in D : ~x.owned
  <1> SUFFICES ASSUME NEW x \in D PROVE x \in WriteOf /\ ~x.owned
    OBVIOUS
  <1>1. PICK w \in W : x = [w EXCEPT !.owned = FALSE]
    OBVIOUS
  <1> QED
    BY <1>1, WriteDisowned
LEMMA AllLeft ==
    ASSUME NEW W \in SUBSET WriteOf, NEW D, D = {LeftBehind(w) : w \in W}
    PROVE  D \subseteq WriteOf /\ \A x \in D : ~x.owned
  <1> SUFFICES ASSUME NEW x \in D PROVE x \in WriteOf /\ ~x.owned
    OBVIOUS
  <1>1. PICK w \in W : x = LeftBehind(w)
    OBVIOUS
  <1> QED
    BY <1>1, WriteLeft

\* A step that closes the dialog and leaves no write to it.
LEMMA DialogCloses ==
    ASSUME TitleInv, DialogInv, page'.ran[1] \in Film => page'.title \in Film, page'.match => page'.ran[1] \in Film,
           dialog' = NoDialog, writes' \subseteq WriteOf, \A w \in writes' : ~w.owned,
           untold' \subseteq AnyTitle, LiveGets(page'.status, gets')
    PROVE  DialogInv'
  BY DEF DialogInv, NoDialog, DialogOf

LEMMA FetchKeepsDialog == ASSUME TitleInv, DialogInv, FetchEffect PROVE DialogInv'
  <1>1. page \in PageOf /\ gets \subseteq GetOf /\ writes \subseteq WriteOf /\ untold \subseteq AnyTitle
    BY DEF TitleInv, DialogInv
  <1>2. /\ page' = [page EXCEPT !.ran = <<page.title, page.nonce>>, !.status = "loading", !.data = Nothing]
        /\ gets' = {[g EXCEPT !.aborted = TRUE] : g \in gets} \cup {Asked(page.title)}
        /\ dialog' = NoDialog /\ writes' = {[w EXCEPT !.owned = FALSE] : w \in writes} /\ untold' \subseteq untold
    BY DEF FetchEffect, Disowned
  <1>3. page'.ran[1] = page.title /\ page'.title = page.title /\ page'.match = page.match /\ page'.status = "loading"
    BY <1>1, <1>2 DEF PageOf
  <1>4. writes' \subseteq WriteOf /\ \A w \in writes' : ~w.owned
    BY <1>1, <1>2, AllDisowned
  <1>5. LiveGets(page'.status, gets')
    <2>1. \A g \in gets : [g EXCEPT !.aborted = TRUE].aborted
      BY <1>1 DEF GetOf
    <2> QED
      BY <1>2, <1>3, <2>1 DEF LiveGets
  <1>6. page.match => page.title \in Film
    BY DEF DialogInv
  <1> QED
    BY <1>1, <1>2, <1>3, <1>4, <1>5, <1>6, DialogCloses

LEMMA ArrivesKeepsDialog == ASSUME TitleInv, DialogInv, NEW g \in gets, GetArrives(g) PROVE DialogInv'
  <1>1. page \in PageOf /\ dialog \in DialogOf /\ gets' = gets \ {g} /\ UNCHANGED <<writes, untold>>
    BY DEF TitleInv, DialogInv, GetArrives
  <1>2. /\ ~g.aborted => page.status = "loading"
        /\ \A h \in gets : ~g.aborted /\ ~h.aborted => g = h
    BY DEF DialogInv, LiveGets
  <1>3. CASE ~Heeded(g)
    <2>1. UNCHANGED <<page, dialog>>
      BY <1>3 DEF GetArrives
    <2> QED
      BY <1>1, <2>1 DEF DialogInv, LiveGets
  <1>4. CASE Heeded(g)
    <2>1. /\ page' = [page EXCEPT !.status = "ready", !.data = Replayed(g)]
          /\ dialog' = [NoDialog EXCEPT !.open = page.match] /\ page.status = "loading" /\ ~g.aborted
      BY <1>2, <1>4 DEF GetArrives, Heeded
    <2>2. page'.ran = page.ran /\ page'.title = page.title /\ page'.match = page.match /\ page'.status = "ready"
      BY <1>1, <2>1 DEF PageOf
    <2>3. dialog' \in DialogOf /\ dialog'.open = page.match /\ ~dialog'.busy
      BY <1>1, <2>1 DEF NoDialog, DialogOf, PageOf
    <2>4. \A w \in writes : ~w.owned
      BY <2>1 DEF DialogInv
    <2>5. LiveGets(page'.status, gets')
      BY <1>1, <1>2, <2>1 DEF LiveGets
    <2> QED
      BY <1>1, <2>2, <2>3, <2>4, <2>5 DEF DialogInv
  <1> QED
    BY <1>3, <1>4

\* A write is answered, or fails: its own dialog, and no other, may be clicked again.
LEMMA AnsweredKeepsDialog == ASSUME TitleInv, DialogInv, NEW w \in writes, WriteAnswered(w) PROVE DialogInv'
  <1>1. page \in PageOf /\ dialog \in DialogOf /\ writes \subseteq WriteOf /\ UNCHANGED <<gets, untold>>
    BY DEF TitleInv, DialogInv, WriteAnswered
  <1>2. /\ page'.ran = page.ran /\ page'.title = page.title /\ page'.status = page.status
        /\ page'.match => page.match
    <2>1. CASE ~w.paged
      BY <2>1 DEF WriteAnswered
    <2>2. CASE w.paged
      <3>1. page' = [page EXCEPT !.nonce = page.nonce + 1, !.match = page.match /\ ~w.pin]
        BY <2>2 DEF WriteAnswered, Matched
      <3> QED
        BY <1>1, <3>1 DEF PageOf
    <2> QED
      BY <2>1, <2>2
  <1>3. CASE ~page'.match
    <2>1. dialog' = NoDialog /\ writes' = {[x EXCEPT !.owned = FALSE] : x \in writes \ {w}}
      BY <1>3 DEF WriteAnswered
    <2>2. writes \ {w} \in SUBSET WriteOf
      BY <1>1
    <2>3. writes' \subseteq WriteOf /\ \A x \in writes' : ~x.owned
      BY <2>1, <2>2, AllDisowned
    <2> QED
      BY <1>1, <1>2, <1>3, <2>1, <2>3, DialogCloses DEF DialogInv
  <1>4. CASE page'.match
    <2> DEFINE b == dialog.busy /\ ~w.owned
    <2>1. dialog' = [dialog EXCEPT !.busy = b] /\ writes' = writes \ {w}
      BY <1>4 DEF WriteAnswered
    <2>2. b \in BOOLEAN
      OBVIOUS
    <2>3. b <=> \E x \in writes' : x.owned
      BY <2>1 DEF DialogInv
    <2> HIDE DEF b
    <2>4. dialog' \in DialogOf /\ dialog'.open = dialog.open /\ dialog'.busy = b
      BY <1>1, <2>1, <2>2 DEF DialogOf
    <2> QED
      BY <1>1, <1>2, <1>4, <2>1, <2>3, <2>4 DEF DialogInv
  <1> QED
    BY <1>3, <1>4

LEMMA FailsKeepsDialog == ASSUME TitleInv, DialogInv, NEW w \in writes, WriteFails(w) PROVE DialogInv'
  <1> DEFINE b == dialog.busy /\ ~w.owned
  <1>1. dialog' = [dialog EXCEPT !.busy = b] /\ writes' = writes \ {w} /\ UNCHANGED <<page, gets>>
    BY DEF WriteFails
  <1>4. untold' \subseteq AnyTitle
    <2>1. w.title \in AnyTitle /\ untold \subseteq AnyTitle
      BY DEF DialogInv, WriteOf, AnyTitle
    <2> QED
      BY <2>1 DEF WriteFails
  <1>2. b \in BOOLEAN /\ (b <=> \E x \in writes' : x.owned) /\ dialog \in DialogOf
    BY <1>1 DEF DialogInv
  <1> HIDE DEF b
  <1>3. dialog' \in DialogOf /\ dialog'.open = dialog.open /\ dialog'.busy = b
    BY <1>1, <1>2 DEF DialogOf
  <1> QED
    BY <1>1, <1>2, <1>3, <1>4 DEF DialogInv

\* A pin or a refresh is sent by a dialog that owns no write yet.
LEMMA SendsKeepsDialog ==
    ASSUME TitleInv, DialogInv, NEW pin \in BOOLEAN, Sends(pin), dialog.open, ~dialog.busy, spent.writes \in Nat
    PROVE  DialogInv'
  <1> DEFINE w == [n |-> spent.writes + 1, title |-> page.data.title, pin |-> pin, owned |-> TRUE, paged |-> TRUE,
                   done |-> FALSE]
  <1>1. writes' = writes \cup {w} /\ dialog' = [dialog EXCEPT !.busy = TRUE] /\ UNCHANGED <<page, gets, untold>>
    BY DEF Sends
  <1>2. w \in WriteOf /\ w.owned
    <2>1. page.data.title \in Film
      BY DEF TitleInv, DialogInv
    <2> QED
      BY <2>1 DEF WriteOf
  <1> HIDE DEF w
  <1>3. dialog' \in DialogOf /\ dialog'.open /\ dialog'.busy
    BY <1>1 DEF DialogInv, DialogOf
  <1>4. \A x \in writes : ~x.owned
    BY DEF DialogInv
  <1> QED
    BY <1>1, <1>2, <1>3, <1>4 DEF DialogInv

LEMMA DialogStep == TitleInv /\ DialogInv /\ spent.writes \in Nat /\ [Next]_webVars => DialogInv'
  <1> SUFFICES ASSUME TitleInv, DialogInv, spent.writes \in Nat, [Next]_webVars PROVE DialogInv'
    OBVIOUS
  <1> DEFINE Goal == DialogInv'
             Rest == UNCHANGED <<page, gets, writes, dialog, untold>>
  <1> SUFFICES Goal
    OBVIOUS
  <1>1. page \in PageOf /\ dialog \in DialogOf /\ writes \subseteq WriteOf /\ gets \subseteq GetOf /\ untold \subseteq AnyTitle
    BY DEF TitleInv, DialogInv
  <1>2. Rest => Goal
    BY DEF DialogInv
  <1>3. UNCHANGED titleVars \/ DelayEnds \/ ApiLands \/ StaleApiLands \/ TrailerMoves \/ TrailerFails => Rest
    BY DEF titleVars, DelayEnds, ApiLands, StaleApiLands, TrailerMoves, TrailerFails
  <1>4. FetchEffect => Goal
    BY FetchKeepsDialog
  <1>5. (\E g \in gets : GetServed(g)) => Goal
    <2> SUFFICES ASSUME NEW g \in gets, GetServed(g) PROVE Goal
      OBVIOUS
    <2> DEFINE h == [g EXCEPT !.reply = server[g.title]]
    <2>1. gets' = (gets \ {g}) \cup {h} /\ UNCHANGED <<page, writes, dialog, untold>>
      BY DEF GetServed
    <2>2. h.aborted = g.aborted
      BY <1>1 DEF GetOf
    <2> HIDE DEF h
    <2>3. LiveGets(page.status, gets')
      BY <2>1, <2>2 DEF DialogInv, LiveGets
    <2> QED
      BY <2>1, <2>3 DEF DialogInv
  <1>6. (\E g \in gets : GetArrives(g)) => Goal
    BY ArrivesKeepsDialog
  <1>7. (\E g \in gets : GetFails(g)) => Goal
    <2> SUFFICES ASSUME NEW g \in gets, GetFails(g) PROVE Goal
      OBVIOUS
    <2>1. /\ gets' = gets \ {g} /\ page' = [page EXCEPT !.status = "error"] /\ ~g.aborted
          /\ UNCHANGED <<writes, dialog, untold>>
      BY DEF GetFails
    <2>2. page'.ran = page.ran /\ page'.title = page.title /\ page'.match = page.match
      BY <1>1, <2>1 DEF PageOf
    <2>3. page.status = "loading" /\ \A h \in gets : ~h.aborted => g = h
      BY <2>1 DEF DialogInv, LiveGets
    <2>4. LiveGets(page'.status, gets')
      BY <2>1, <2>3 DEF LiveGets
    <2> QED
      BY <2>1, <2>2, <2>3, <2>4 DEF DialogInv
  <1>8. (\E t \in AnyTitle : Follow(t)) => Goal
    <2> SUFFICES ASSUME NEW t \in AnyTitle, Follow(t) PROVE Goal
      OBVIOUS
    <2>1. page' = [page EXCEPT !.title = t] /\ t \in Film /\ UNCHANGED <<gets, writes, dialog, untold>>
      BY DEF Follow, SamePage
    <2>2. page'.ran = page.ran /\ page'.title = t /\ page'.match = page.match /\ page'.status = page.status
      BY <1>1, <2>1 DEF PageOf
    <2> QED
      BY <2>1, <2>2 DEF DialogInv
  <1>9. (\E t \in AnyTitle : Open(t)) => Goal
    <2> SUFFICES ASSUME NEW t \in AnyTitle, Open(t) PROVE Goal
      OBVIOUS
    <2>1. /\ page' = FreshPage(t) /\ gets' = {} /\ dialog' = NoDialog
          /\ writes' = {LeftBehind(w) : w \in writes}
          /\ untold' = untold \cup {w.title : w \in writes}
      BY ZenonT(30) DEF Open, LeftBehind
    <2>2. writes' \subseteq WriteOf /\ \A w \in writes' : ~w.owned
      BY <1>1, <2>1, AllLeft
    <2>3. page'.ran[1] \notin Film /\ ~page'.match
      BY <2>1, TitleAssumption DEF FreshPage
    <2>4. LiveGets(page'.status, gets')
      BY <2>1 DEF LiveGets
    <2>5. untold' \subseteq AnyTitle
      <3>1. \A w \in writes : w.title \in AnyTitle
        BY <1>1 DEF WriteOf, AnyTitle
      <3> QED
        BY <1>1, <2>1, <3>1
    <2> QED
      BY <2>1, <2>2, <2>3, <2>4, <2>5, DialogCloses
  <1>10. ToggleInfo => Goal
    <2> SUFFICES ASSUME ToggleInfo PROVE Goal
      OBVIOUS
    <2>1. page' = [page EXCEPT !.info = ~@] /\ UNCHANGED <<gets, writes, dialog, untold>>
      BY DEF ToggleInfo
    <2>2. page'.ran = page.ran /\ page'.title = page.title /\ page'.match = page.match /\ page'.status = page.status
      BY <1>1, <2>1 DEF PageOf
    <2> QED
      BY <2>1, <2>2 DEF DialogInv
  <1>11. OpenMatch => Goal
    <2> SUFFICES ASSUME OpenMatch PROVE Goal
      OBVIOUS
    <2>1. /\ page' = [page EXCEPT !.match = TRUE] /\ ~page.match /\ UNCHANGED <<gets, writes, untold>>
          /\ page.status = "ready" /\ page.data.title \in Film
          /\ dialog' = [NoDialog EXCEPT !.open = TRUE]
      BY DEF OpenMatch, Ready
    <2>2. page'.ran = page.ran /\ page'.title = page.title /\ page'.match /\ page'.status = page.status
      BY <1>1, <2>1 DEF PageOf
    <2>3. dialog' \in DialogOf /\ dialog'.open /\ ~dialog'.busy
      BY <2>1 DEF NoDialog, DialogOf
    <2>4. page.ran[1] \in Film
      BY <2>1 DEF TitleInv
    <2>5. \A w \in writes : ~w.owned
      BY <2>1 DEF DialogInv
    <2> QED
      BY <2>1, <2>2, <2>3, <2>4, <2>5 DEF DialogInv
  <1>12. CloseMatch => Goal
    <2> SUFFICES ASSUME CloseMatch PROVE Goal
      OBVIOUS
    <2>1. /\ page' = [page EXCEPT !.match = FALSE] /\ dialog' = NoDialog /\ UNCHANGED <<gets, untold>>
          /\ writes' = {[w EXCEPT !.owned = FALSE] : w \in writes}
      BY DEF CloseMatch, Disowned
    <2>2. page'.ran = page.ran /\ page'.title = page.title /\ ~page'.match /\ page'.status = page.status
      BY <1>1, <2>1 DEF PageOf
    <2>3. writes' \subseteq WriteOf /\ \A w \in writes' : ~w.owned
      BY <1>1, <2>1, AllDisowned
    <2> QED
      BY <1>1, <2>1, <2>2, <2>3, DialogCloses DEF DialogInv
  <1>13. CandidatesArrive => Goal
    <2> SUFFICES ASSUME CandidatesArrive PROVE Goal
      OBVIOUS
    <2>1. dialog' = [dialog EXCEPT !.candidates = TRUE] /\ UNCHANGED <<page, gets, writes, untold>>
      BY DEF CandidatesArrive
    <2>2. dialog' \in DialogOf /\ dialog'.open = dialog.open /\ dialog'.busy = dialog.busy
      BY <1>1, <2>1 DEF DialogOf
    <2> QED
      BY <2>1, <2>2 DEF DialogInv
  <1>14. Pin \/ Refresh => Goal
    BY SendsKeepsDialog DEF Pin, Refresh, MayPin, MayRefresh
  <1>15. (\E w \in writes : WriteServed(w)) => Goal
    <2> SUFFICES ASSUME NEW w \in writes, WriteServed(w) PROVE Goal
      OBVIOUS
    <2> DEFINE x == [w EXCEPT !.done = TRUE]
    <2>1. writes' = (writes \ {w}) \cup {x} /\ UNCHANGED <<page, gets, dialog, untold>>
      BY DEF WriteServed
    <2>2. x \in WriteOf /\ x.owned = w.owned
      BY <1>1, WriteDone
    <2> HIDE DEF x
    <2> QED
      BY <2>1, <2>2 DEF DialogInv
  <1>16. (\E w \in writes : WriteAnswered(w) \/ WriteFails(w)) => Goal
    BY AnsweredKeepsDialog, FailsKeepsDialog
  <1> HIDE DEF Goal, Rest
  <1> QED
    BY <1>2, <1>3, <1>4, <1>5, <1>6, <1>7, <1>8, <1>9, <1>10, <1>11, <1>12, <1>13, <1>14, <1>15, <1>16, PartsStep
       DEF TitleNext


\* Steps, writes and faults stay within their bounds.
SpentInv == spent \in [steps : 0 .. MaxSteps, writes : 0 .. MaxWrites, faults : 0 .. MaxTitleFaults]
OneMoreWrite == spent.writes < MaxWrites /\ spent' = [spent EXCEPT !.writes = @ + 1]

LEMMA SpentMoves == ASSUME SpentInv, TitleStep \/ TitleFault \/ OneMoreWrite \/ UNCHANGED spent PROVE SpentInv'
  <1>1. MaxSteps \in Nat /\ MaxWrites \in Nat /\ MaxTitleFaults \in Nat
    BY TitleAssumption
  <1>2. CASE TitleStep
    BY <1>1, <1>2 DEF TitleStep, SpentInv
  <1>3. CASE TitleFault
    BY <1>1, <1>3 DEF TitleFault, SpentInv
  <1>4. CASE OneMoreWrite
    BY <1>1, <1>4 DEF OneMoreWrite, SpentInv
  <1>5. CASE UNCHANGED spent
    BY <1>5 DEF SpentInv
  <1> QED
    BY <1>2, <1>3, <1>4, <1>5

LEMMA SpentStep == SpentInv /\ [Next]_webVars => SpentInv'
  <1> SUFFICES ASSUME SpentInv, [Next]_webVars PROVE SpentInv'
    OBVIOUS
  <1> DEFINE Moves == TitleStep \/ TitleFault \/ OneMoreWrite \/ UNCHANGED spent
  <1>1. UNCHANGED titleVars \/ FetchEffect => Moves
    BY DEF titleVars, FetchEffect
  <1>2. ASSUME NEW g \in gets PROVE GetServed(g) \/ GetArrives(g) \/ GetFails(g) => Moves
    BY DEF GetServed, GetArrives, GetFails
  <1>3. ASSUME NEW t \in AnyTitle PROVE Follow(t) \/ Open(t) => Moves
    <2>1. Follow(t) => Moves
      BY DEF Follow
    <2>2. Open(t) => Moves
      BY ZenonT(30) DEF Open
    <2> QED
      BY <2>1, <2>2
  <1>4. ToggleInfo \/ OpenMatch \/ CloseMatch \/ CandidatesArrive \/ Pin \/ Refresh => Moves
    BY DEF ToggleInfo, OpenMatch, CloseMatch, CandidatesArrive, Pin, Refresh, Sends, OneMoreWrite
  <1>5. ASSUME NEW w \in writes PROVE WriteServed(w) \/ WriteAnswered(w) \/ WriteFails(w) => Moves
    BY DEF WriteServed, WriteAnswered, WriteFails
  <1>6. DelayEnds \/ ApiLands \/ StaleApiLands \/ TrailerMoves \/ TrailerFails => Moves
    BY DEF DelayEnds, ApiLands, StaleApiLands, TrailerMoves, TrailerFails
  <1> HIDE DEF Moves
  <1>7. Moves
    BY <1>1, <1>2, <1>3, <1>4, <1>5, <1>6, PartsStep DEF TitleNext
  <1> QED
    BY <1>7, SpentMoves DEF Moves

LEMMA DialogAlways == Spec => [](TitleInv /\ SpentInv /\ DialogInv)
  <1>1. Init => SpentInv
    BY TitleAssumption DEF Init, TitleInit, SpentInv
  <1>2. Init => DialogInv
    <2> SUFFICES ASSUME Init PROVE DialogInv
      OBVIOUS
    <2>1. /\ gets = {} /\ writes = {} /\ dialog = NoDialog /\ untold = {}
          /\ \E t \in AnyTitle : page = FreshPage(t)
      BY DEF Init, TitleInit
    <2>2. page.ran[1] = Nothing /\ ~page.match
      BY <2>1 DEF FreshPage
    <2>3. Nothing \notin Film
      BY TitleAssumption
    <2> QED
      BY <2>1, <2>2, <2>3 DEF DialogInv, NoDialog, DialogOf, LiveGets
  <1>3. SpentInv => spent.writes \in Nat
    BY TitleAssumption DEF SpentInv
  <1> QED
    BY <1>1, <1>2, <1>3, TitleStarts, TitleStepKeeps, SpentStep, DialogStep, PTL DEF Spec

\* A set in which any two elements are one has one element at most.
LEMMA AtMostOne == ASSUME NEW S, \A x, y \in S : x = y PROVE Cardinality(S) <= 1
  <1>1. CASE S = {}
    BY <1>1, FS_EmptySet
  <1>2. CASE S # {}
    <2>1. PICK x \in S : S = {x}
      BY <1>2
    <2>2. Cardinality({x}) = 1
      BY FS_Singleton
    <2> QED
      BY <2>1, <2>2
  <1> QED
    BY <1>1, <1>2

\* A match dialog owns one write at most and is busy exactly while it does, and
\* the page has one player or none, whatever is followed, opened, answered or
\* lost in between (MatchDialog, BackdropTrailer).
THEOREM NothingIsDoubled == Spec => []NothingDoubled
  <1>1. DialogInv => OneWritePerDialog
    <2> SUFFICES ASSUME DialogInv PROVE OneWritePerDialog
      OBVIOUS
    <2>1. \A v, w \in {x \in writes : x.owned} : v = w
      BY DEF DialogInv
    <2>2. Cardinality({w \in writes : w.owned}) <= 1
      BY <2>1, AtMostOne
    <2> QED
      BY <2>2 DEF DialogInv, OneWritePerDialog
  <1> QED
    BY <1>1, DialogAlways, OneTrailerEver, PTL DEF NothingDoubled


-----------------------------------------------------------------------------
(* What a page shows once nothing is in flight *)

\* Requests that count and the data shown are the server's last word.
IsFresh(G, status, data, S) ==
    /\ \A g \in G : ~g.aborted /\ g.reply # Nothing => g.reply = S[g.title]
    /\ status = "ready" => data.version = S[data.title]
\* The page is told of every write but those of the titles in U.
PageTold(W, U) == \A w \in W : w.title \notin U => w.paged
SomeDone(W, t) == \E w \in W : w.done /\ w.title = t

\* The title a page shows, unless it is to be left untold of a write, is fresh,
\* or a write of it that the server has done is yet to be answered, or a fetch is due.
PinInv ==
    /\ page.ran[2] <= page.nonce
    /\ PageTold(writes, untold)
    /\ page.ran[1] \notin untold /\ page.ran[2] = page.nonce =>
          SomeDone(writes, page.ran[1]) \/ IsFresh(gets, page.status, page.data, server)

\* A step that touches neither the data, nor the requests, nor what a write has come to.
SameShown ==
    /\ page'.ran = page.ran /\ page'.nonce = page.nonce /\ page'.status = page.status /\ page'.data = page.data
    /\ UNCHANGED <<server, gets, untold>>
    /\ PageTold(writes, untold) => PageTold(writes', untold)
    /\ SomeDone(writes, page.ran[1]) => SomeDone(writes', page.ran[1])
LEMMA SameShownKeepsPin == ASSUME PinInv, SameShown PROVE PinInv'
  <1>1. IsFresh(gets', page'.status, page'.data, server') <=> IsFresh(gets, page.status, page.data, server)
    BY DEF SameShown
  <1>2. PageTold(writes', untold') /\ (SomeDone(writes, page.ran[1]) => SomeDone(writes', page'.ran[1]))
    BY DEF PinInv, SameShown
  <1>3. page'.ran = page.ran /\ page'.nonce = page.nonce /\ untold' = untold
    BY DEF SameShown
  <1> HIDE DEF IsFresh, SomeDone, PageTold
  <1> QED
    BY <1>1, <1>2, <1>3 DEF PinInv

\* What a dialog lets go keeps its title, its page and what it has come to.
LEMMA DisownedKeep ==
    ASSUME NEW W \in SUBSET WriteOf, NEW D, D = {[w EXCEPT !.owned = FALSE] : w \in W}
    PROVE  /\ \A U : PageTold(W, U) => PageTold(D, U)
           /\ \A t : SomeDone(W, t) => SomeDone(D, t)
  <1>1. ASSUME NEW U, PageTold(W, U) PROVE PageTold(D, U)
    <2> SUFFICES ASSUME NEW x \in D, x.title \notin U PROVE x.paged
      BY DEF PageTold
    <2>1. PICK w \in W : x = [w EXCEPT !.owned = FALSE]
      OBVIOUS
    <2>2. x.title = w.title /\ x.paged = w.paged
      BY <2>1, WriteDisowned
    <2> QED
      BY <1>1, <2>2 DEF PageTold
  <1>2. ASSUME NEW t, SomeDone(W, t) PROVE SomeDone(D, t)
    <2>1. PICK w \in W : w.done /\ w.title = t
      BY <1>2 DEF SomeDone
    <2> DEFINE x == [w EXCEPT !.owned = FALSE]
    <2>2. x \in D
      OBVIOUS
    <2>3. x.done /\ x.title = t
      BY <2>1, WriteDisowned
    <2> HIDE DEF x
    <2> QED
      BY <2>2, <2>3 DEF SomeDone
  <1> QED
    BY <1>1, <1>2

LEMMA FetchKeepsPin == ASSUME TitleInv, DialogInv, PinInv, FetchEffect PROVE PinInv'
  <1>1. page \in PageOf /\ gets \subseteq GetOf /\ writes \in SUBSET WriteOf
    BY DEF TitleInv, DialogInv
  <1>2. /\ page' = [page EXCEPT !.ran = <<page.title, page.nonce>>, !.status = "loading", !.data = Nothing]
        /\ gets' = {[g EXCEPT !.aborted = TRUE] : g \in gets} \cup {Asked(page.title)}
        /\ writes' = {[w EXCEPT !.owned = FALSE] : w \in writes} /\ UNCHANGED server
        /\ untold' = {t \in untold : t = page.title => \E w \in writes : w.title = t}
    BY DEF FetchEffect, Disowned
  <1>3. page'.ran[2] = page.nonce /\ page'.nonce = page.nonce /\ page'.status = "loading" /\ page.nonce \in Int
    BY <1>1, <1>2 DEF PageOf
  <1>4. \A g \in gets' : ~g.aborted => g.reply = Nothing
    <2>1. \A g \in gets : [g EXCEPT !.aborted = TRUE].aborted
      BY <1>1 DEF GetOf
    <2>2. Asked(page.title).reply = Nothing
      BY DEF Asked
    <2> QED
      BY <1>2, <2>1, <2>2
  <1>5. IsFresh(gets', page'.status, page'.data, server')
    BY <1>3, <1>4 DEF IsFresh
  <1>6. PageTold(writes', untold')
    <2>1. PageTold(writes, untold')
      BY <1>2 DEF PinInv, PageTold
    <2> QED
      BY <1>1, <1>2, <2>1, DisownedKeep
  <1> HIDE DEF IsFresh, SomeDone, PageTold
  <1> QED
    BY <1>2, <1>3, <1>5, <1>6 DEF PinInv

LEMMA ArrivesKeepsPin == ASSUME TitleInv, PinInv, NEW g \in gets, GetArrives(g) PROVE PinInv'
  <1>1. page \in PageOf /\ g \in GetOf /\ g.reply # Nothing /\ gets' = gets \ {g}
        /\ UNCHANGED <<server, writes, untold>>
    BY DEF TitleInv, GetArrives
  <1>2. CASE ~Heeded(g)
    <2>1. UNCHANGED page
      BY <1>2 DEF GetArrives
    <2> QED
      BY <1>1, <2>1 DEF PinInv, IsFresh
  <1>3. CASE Heeded(g)
    <2> DEFINE body == Replayed(g)
    <2>1. page' = [page EXCEPT !.status = "ready", !.data = body] /\ ~g.aborted
      BY <1>3 DEF GetArrives, Heeded
    <2>2. body.title = g.title /\ body.version = g.reply
      <3>1. body.title = g.title
        BY <1>1, ReplayedTitle
      <3>2. body.version = g.reply
        BY DEF Replayed, NotModified
      <3> QED
        BY <3>1, <3>2
    <2> HIDE DEF body
    <2>3. page'.ran = page.ran /\ page'.nonce = page.nonce /\ page'.data = body
      BY <1>1, <2>1 DEF PageOf
    <2>4. IsFresh(gets, page.status, page.data, server) => IsFresh(gets', page'.status, page'.data, server')
      BY <1>1, <2>1, <2>2, <2>3 DEF IsFresh
    <2> HIDE DEF IsFresh
    <2> QED
      BY <1>1, <2>3, <2>4 DEF PinInv
  <1> QED
    BY <1>2, <1>3

LEMMA ServedKeepsPin == ASSUME TitleInv, PinInv, NEW g \in gets, GetServed(g) PROVE PinInv'
  <1> DEFINE h == [g EXCEPT !.reply = server[g.title]]
  <1>1. gets' = (gets \ {g}) \cup {h} /\ UNCHANGED <<page, server, writes, untold>>
    BY DEF GetServed
  <1>2. h.reply = server[h.title]
    <2>1. g \in GetOf
      BY DEF TitleInv
    <2> QED
      BY <2>1 DEF GetOf
  <1> HIDE DEF h
  <1>3. IsFresh(gets, page.status, page.data, server) => IsFresh(gets', page.status, page.data, server)
    BY <1>1, <1>2 DEF IsFresh
  <1> HIDE DEF IsFresh
  <1> QED
    BY <1>1, <1>3 DEF PinInv

LEMMA FailedGetKeepsPin == ASSUME TitleInv, PinInv, NEW g \in gets, GetFails(g) PROVE PinInv'
  <1>1. gets' = gets \ {g} /\ page' = [page EXCEPT !.status = "error"] /\ UNCHANGED <<server, writes, untold>>
    BY DEF GetFails
  <1>2. page'.ran = page.ran /\ page'.nonce = page.nonce /\ page'.status = "error"
    BY <1>1 DEF TitleInv, PageOf
  <1>3. IsFresh(gets, page.status, page.data, server) => IsFresh(gets', page'.status, page'.data, server)
    BY <1>1, <1>2 DEF IsFresh
  <1> HIDE DEF IsFresh
  <1> QED
    BY <1>1, <1>2, <1>3 DEF PinInv

LEMMA OpenKeepsPin == ASSUME DialogInv, PinInv, NEW t \in AnyTitle, Open(t) PROVE PinInv'
  <1>1. /\ page' = FreshPage(t) /\ gets' = {}
        /\ writes' = {LeftBehind(w) : w \in writes}
        /\ untold' = untold \cup {w.title : w \in writes}
    BY ZenonT(30) DEF Open, LeftBehind
  <1>2. page'.ran[2] = 0 /\ page'.nonce = 0 /\ page'.status = "loading"
    BY <1>1 DEF FreshPage
  <1>3. IsFresh(gets', page'.status, page'.data, server')
    BY <1>1, <1>2 DEF IsFresh
  <1>4. PageTold(writes', untold')
    <2> SUFFICES ASSUME NEW x \in writes' PROVE x.title \in untold'
      BY DEF PageTold
    <2>1. PICK w \in writes : x = LeftBehind(w)
      BY <1>1
    <2>2. x.title = w.title
      BY <2>1, WriteLeft DEF DialogInv
    <2> QED
      BY <1>1, <2>2
  <1> HIDE DEF IsFresh, PageTold
  <1> QED
    BY <1>2, <1>3, <1>4 DEF PinInv

\* The answer to a write of this page makes a fetch due.
LEMMA AnsweredKeepsPin == ASSUME TitleInv, DialogInv, PinInv, NEW w \in writes, WriteAnswered(w) PROVE PinInv'
  <1>1. page \in PageOf /\ writes \in SUBSET WriteOf /\ UNCHANGED <<server, gets, untold>>
    BY DEF TitleInv, DialogInv, WriteAnswered
  <1>2. /\ PageTold(writes', untold)
        /\ \A t : SomeDone(writes \ {w}, t) => SomeDone(writes', t)
    <2>1. writes \ {w} \in SUBSET WriteOf /\ PageTold(writes \ {w}, untold)
      BY <1>1 DEF PinInv, PageTold
    <2>2. writes' = writes \ {w} \/ writes' = {[x EXCEPT !.owned = FALSE] : x \in writes \ {w}}
      BY DEF WriteAnswered
    <2> HIDE DEF PageTold, SomeDone
    <2> QED
      BY <2>1, <2>2, DisownedKeep
  <1>3. CASE ~w.paged
    <2>1. UNCHANGED page /\ w.title \in untold
      BY <1>3 DEF WriteAnswered, PinInv, PageTold
    <2>2. \A t : t \notin untold /\ SomeDone(writes, t) => SomeDone(writes \ {w}, t)
      BY <2>1 DEF SomeDone
    <2> HIDE DEF PageTold, SomeDone, IsFresh
    <2> QED
      BY <1>1, <1>2, <2>1, <2>2 DEF PinInv
  <1>4. CASE w.paged
    <2>1. page' = [page EXCEPT !.nonce = page.nonce + 1, !.match = page.match /\ ~w.pin]
      BY <1>4 DEF WriteAnswered, Matched
    <2>2. page'.ran = page.ran /\ page'.nonce = page.nonce + 1 /\ page.nonce \in Int /\ page.ran[2] \in Int
      BY <1>1, <2>1 DEF PageOf
    <2>3. page.ran[2] <= page.nonce
      BY DEF PinInv
    <2>4. page'.ran[2] <= page'.nonce /\ page'.ran[2] # page'.nonce
      BY <2>2, <2>3
    <2> HIDE DEF PageTold, SomeDone, IsFresh
    <2> QED
      BY <1>1, <1>2, <2>4 DEF PinInv
  <1> QED
    BY <1>3, <1>4


LEMMA WritesKeepPin ==
    ASSUME TitleInv, DialogInv, PinInv, NEW w \in writes, WriteServed(w) \/ WriteFails(w)
    PROVE  PinInv'
  <1>1. writes \in SUBSET WriteOf
    BY DEF DialogInv
  <1>2. CASE WriteServed(w)
    <2> DEFINE x == [w EXCEPT !.done = TRUE]
    <2>1. /\ writes' = (writes \ {w}) \cup {x} /\ UNCHANGED <<page, gets, untold>>
          /\ server' = [server EXCEPT ![w.title] = @ + 1]
      BY <1>2 DEF WriteServed
    <2>2. x.done /\ x.paged = w.paged /\ x.title = w.title
      BY <1>1, WriteDone
    <2> HIDE DEF x
    <2>3. PageTold(writes', untold)
      BY <2>1, <2>2 DEF PinInv, PageTold
    <2>4. \A t : SomeDone(writes, t) => SomeDone(writes', t)
      BY <2>1, <2>2 DEF SomeDone
    <2>5. w.title = page.ran[1] => SomeDone(writes', page.ran[1])
      BY <2>1, <2>2 DEF SomeDone
    <2>6. ASSUME w.title # page.ran[1], IsFresh(gets, page.status, page.data, server)
          PROVE  IsFresh(gets, page.status, page.data, server')
      <3>1. \A t \in AnyTitle : t # w.title => server'[t] = server[t]
        BY <2>1 DEF TitleInv
      <3>2. \A g \in gets : ~g.aborted => g.title = page.ran[1] /\ g.title \in AnyTitle
        BY DEF TitleInv, GetOf
      <3>3. page.status = "ready" => page.data.title = page.ran[1] /\ page.data.title \in AnyTitle
        BY DEF TitleInv, BodyOf
      <3> QED
        BY <2>6, <3>1, <3>2, <3>3 DEF IsFresh
    <2> HIDE DEF PageTold, SomeDone, IsFresh
    <2> QED
      BY <2>1, <2>3, <2>4, <2>5, <2>6 DEF PinInv
  <1>3. CASE WriteFails(w)
    <2>1. /\ writes' = writes \ {w} /\ UNCHANGED <<page, server, gets>>
          /\ untold \subseteq untold' /\ (w.done => w.title \in untold')
      BY <1>3 DEF WriteFails
    <2>2. PageTold(writes', untold')
      BY <2>1 DEF PinInv, PageTold
    <2>3. \A t : t \notin untold' /\ SomeDone(writes, t) => SomeDone(writes', t)
      BY <2>1 DEF SomeDone
    <2> HIDE DEF PageTold, SomeDone, IsFresh
    <2> QED
      BY <2>1, <2>2, <2>3 DEF PinInv
  <1> QED
    BY <1>2, <1>3

LEMMA DialogsKeepPin ==
    ASSUME TitleInv, DialogInv, PinInv,
           ToggleInfo \/ OpenMatch \/ CloseMatch \/ CandidatesArrive \/ Pin \/ Refresh
    PROVE  PinInv'
  <1>1. page \in PageOf /\ writes \in SUBSET WriteOf
    BY DEF TitleInv, DialogInv
  <1>2. CASE ToggleInfo
    <2>1. page' = [page EXCEPT !.info = ~@] /\ UNCHANGED <<server, gets, writes, untold>>
      BY <1>2 DEF ToggleInfo
    <2>2. page'.ran = page.ran /\ page'.nonce = page.nonce /\ page'.status = page.status /\ page'.data = page.data
      BY <1>1, <2>1 DEF PageOf
    <2> QED
      BY <2>1, <2>2, SameShownKeepsPin DEF SameShown
  <1>3. CASE OpenMatch
    <2>1. page' = [page EXCEPT !.match = TRUE] /\ UNCHANGED <<server, gets, writes, untold>>
      BY <1>3 DEF OpenMatch
    <2>2. page'.ran = page.ran /\ page'.nonce = page.nonce /\ page'.status = page.status /\ page'.data = page.data
      BY <1>1, <2>1 DEF PageOf
    <2> QED
      BY <2>1, <2>2, SameShownKeepsPin DEF SameShown
  <1>4. CASE CloseMatch
    <2>1. /\ page' = [page EXCEPT !.match = FALSE] /\ UNCHANGED <<server, gets, untold>>
          /\ writes' = {[w EXCEPT !.owned = FALSE] : w \in writes}
      BY <1>4 DEF CloseMatch, Disowned
    <2>2. page'.ran = page.ran /\ page'.nonce = page.nonce /\ page'.status = page.status /\ page'.data = page.data
      BY <1>1, <2>1 DEF PageOf
    <2>3. /\ PageTold(writes, untold) => PageTold(writes', untold)
          /\ SomeDone(writes, page.ran[1]) => SomeDone(writes', page.ran[1])
      BY <1>1, <2>1, DisownedKeep
    <2> QED
      BY <2>1, <2>2, <2>3, SameShownKeepsPin DEF SameShown
  <1>5. CASE CandidatesArrive
    BY <1>5, SameShownKeepsPin DEF CandidatesArrive, SameShown
  <1>6. CASE Pin \/ Refresh
    <2>1. PICK pin \in BOOLEAN : Sends(pin)
      BY <1>6 DEF Pin, Refresh
    <2> DEFINE w == [n |-> spent.writes + 1, title |-> page.data.title, pin |-> pin, owned |-> TRUE, paged |-> TRUE,
                     done |-> FALSE]
    <2>2. writes' = writes \cup {w} /\ w.paged /\ UNCHANGED <<page, server, gets, untold>>
      BY <2>1 DEF Sends
    <2> HIDE DEF w
    <2>3. /\ PageTold(writes, untold) => PageTold(writes', untold)
          /\ SomeDone(writes, page.ran[1]) => SomeDone(writes', page.ran[1])
      BY <2>2 DEF SomeDone, PageTold
    <2> QED
      BY <2>2, <2>3, SameShownKeepsPin DEF SameShown
  <1> QED
    BY <1>2, <1>3, <1>4, <1>5, <1>6

LEMMA PinStep == TitleInv /\ DialogInv /\ PinInv /\ [Next]_webVars => PinInv'
  <1> SUFFICES ASSUME TitleInv, DialogInv, PinInv, [Next]_webVars PROVE PinInv'
    OBVIOUS
  <1> DEFINE Goal == PinInv'
             Rest == UNCHANGED <<page, server, gets, writes, untold>>
  <1> SUFFICES Goal
    OBVIOUS
  <1>1. Rest => Goal
    BY DEF PinInv
  <1>2. UNCHANGED titleVars \/ DelayEnds \/ ApiLands \/ StaleApiLands \/ TrailerMoves \/ TrailerFails => Rest
    BY DEF titleVars, DelayEnds, ApiLands, StaleApiLands, TrailerMoves, TrailerFails
  <1>3. FetchEffect => Goal
    BY FetchKeepsPin
  <1>4. (\E g \in gets : GetServed(g) \/ GetArrives(g) \/ GetFails(g)) => Goal
    BY ServedKeepsPin, ArrivesKeepsPin, FailedGetKeepsPin
  <1>5. ASSUME NEW t \in AnyTitle PROVE Follow(t) => Goal
    <2> SUFFICES ASSUME Follow(t) PROVE Goal
      OBVIOUS
    <2>1. page' = [page EXCEPT !.title = t] /\ UNCHANGED <<server, gets, writes, untold>>
      BY DEF Follow
    <2>2. page'.ran = page.ran /\ page'.nonce = page.nonce /\ page'.status = page.status /\ page'.data = page.data
      BY <2>1 DEF TitleInv, PageOf
    <2> QED
      BY <2>1, <2>2, SameShownKeepsPin DEF SameShown
  <1>6. (\E t \in AnyTitle : Open(t)) => Goal
    BY OpenKeepsPin
  <1>7. ToggleInfo \/ OpenMatch \/ CloseMatch \/ CandidatesArrive \/ Pin \/ Refresh => Goal
    BY DialogsKeepPin
  <1>8. (\E w \in writes : WriteServed(w) \/ WriteAnswered(w) \/ WriteFails(w)) => Goal
    BY WritesKeepPin, AnsweredKeepsPin
  <1> HIDE DEF Goal, Rest
  <1> QED
    BY <1>1, <1>2, <1>3, <1>4, <1>5, <1>6, <1>7, <1>8, PartsStep DEF TitleNext

\* With nothing in flight a page shows its title as the server knows it, unless
\* the title has a write the page was not told of (it was left meanwhile, or the
\* answer was lost) and has not been asked for since: a write answered makes a fetch
\* due, and no cached body answers for a newer one (useDetail, getJson, MatchDialog).
THEOREM PinAlwaysShows == Spec => []PinShows
  <1>1. Init => PinInv
    <2> SUFFICES ASSUME Init PROVE PinInv
      OBVIOUS
    <2>1. gets = {} /\ writes = {} /\ \E t \in AnyTitle : page = FreshPage(t)
      BY DEF Init, TitleInit
    <2>2. page.ran[2] = 0 /\ page.nonce = 0 /\ page.status = "loading"
      BY <2>1 DEF FreshPage
    <2> QED
      BY <2>1, <2>2 DEF PinInv, IsFresh, PageTold
  <1>2. TitleInv /\ PinInv => PinShows
    <2> SUFFICES ASSUME TitleInv, PinInv, ~FetchDue, gets = {}, writes = {}, page.status = "ready",
                        page.title \notin untold
                 PROVE page.data = [title |-> page.title, version |-> server[page.title]]
      BY DEF PinShows
    <2>1. page.ran[1] = page.title /\ page.ran[2] = page.nonce /\ page.data.title = page.ran[1]
      BY DEF FetchDue, TitleInv
    <2>2. page.data.version = server[page.data.title]
      BY <2>1 DEF PinInv, SomeDone, IsFresh
    <2>3. page.data \in [title : AnyTitle, version : Int]
      BY DEF TitleInv, BodyOf
    <2> QED
      BY <2>1, <2>2, <2>3
  <1> QED
    BY <1>1, <1>2, DialogAlways, PinStep, PTL DEF Spec


-----------------------------------------------------------------------------
(* How far the versions and the nonce of a page can have come *)

\* Of the first m writes, those the server has done or that failed, and those
\* that are answered or failed.
DoneOf(m, W) == {k \in 1 .. m : \A w \in W : w.n = k => w.done}
OverOf(m, W) == {k \in 1 .. m : \A w \in W : w.n # k}
\* The writes in flight are some of the first m, each once.
Numbered(m, W) ==
    /\ \A w \in W : w.n \in 1 .. m
    /\ \A v, w \in W : v.n = w.n => v = w

\* No title has more versions than writes done, no page more nonces than writes over.
CountInv ==
    /\ Numbered(spent.writes, writes)
    /\ server \in [AnyTitle -> Nat] /\ \A t \in AnyTitle : server[t] <= Cardinality(DoneOf(spent.writes, writes))
    /\ page.nonce \in Nat /\ page.nonce <= Cardinality(OverOf(spent.writes, writes))
    /\ page.ran[2] \in Nat

\* Numbers that become done or over are counted.
LEMMA Grown ==
    ASSUME NEW m \in Nat, NEW T \in SUBSET (1 .. m), NEW S \in SUBSET T
    PROVE  /\ Cardinality(S) \in Nat /\ Cardinality(T) \in Nat /\ Cardinality(S) <= Cardinality(T)
           /\ Cardinality(T) <= m
           /\ \A k \in T : k \notin S => Cardinality(S) + 1 <= Cardinality(T)
  <1>1. IsFiniteSet(1 .. m) /\ Cardinality(1 .. m) = m
    BY FS_Interval
  <1>2. IsFiniteSet(T) /\ Cardinality(T) <= m
    BY <1>1, FS_Subset
  <1>3. IsFiniteSet(S) /\ Cardinality(S) <= Cardinality(T)
    BY <1>2, FS_Subset
  <1>4. Cardinality(S) \in Nat /\ Cardinality(T) \in Nat
    BY <1>2, <1>3, FS_CardinalityType
  <1>5. ASSUME NEW k \in T, k \notin S PROVE Cardinality(S) + 1 <= Cardinality(T)
    <2>1. Cardinality(S \cup {k}) = Cardinality(S) + 1
      BY <1>3, <1>5, FS_AddElement
    <2>2. S \cup {k} \in SUBSET T
      BY <1>5
    <2>3. Cardinality(S \cup {k}) <= Cardinality(T)
      BY <1>2, <2>2, FS_Subset
    <2> QED
      BY <2>1, <2>3
  <1> QED
    BY <1>2, <1>3, <1>4, <1>5

\* A step that leaves the server and the nonce alone, and after which no number
\* is less done or less over.
LEMMA CountQuiet ==
    ASSUME CountInv, spent.writes \in Nat, spent'.writes \in Nat, UNCHANGED server,
           page'.nonce = page.nonce \/ page'.nonce = 0, page'.ran[2] \in Nat,
           Numbered(spent'.writes, writes'),
           DoneOf(spent.writes, writes) \subseteq DoneOf(spent'.writes, writes'),
           OverOf(spent.writes, writes) \subseteq OverOf(spent'.writes, writes')
    PROVE  CountInv'
  <1> DEFINE m == spent'.writes
             D == DoneOf(spent.writes, writes)  E == DoneOf(m, writes')
             P == OverOf(spent.writes, writes)  Q == OverOf(m, writes')
  <1>1. E \in SUBSET (1 .. m) /\ Q \in SUBSET (1 .. m) /\ D \in SUBSET E /\ P \in SUBSET Q /\ m \in Nat
    BY DEF DoneOf, OverOf
  <1> HIDE DEF D, E, P, Q, m
  <1>2. Cardinality(D) \in Nat /\ Cardinality(E) \in Nat /\ Cardinality(D) <= Cardinality(E)
    BY <1>1, Grown
  <1>3. Cardinality(P) \in Nat /\ Cardinality(Q) \in Nat /\ Cardinality(P) <= Cardinality(Q)
    BY <1>1, Grown
  <1>4. server' \in [AnyTitle -> Nat] /\ \A t \in AnyTitle : server'[t] <= Cardinality(E)
    <2>1. server \in [AnyTitle -> Nat] /\ \A t \in AnyTitle : server[t] <= Cardinality(D)
      BY DEF CountInv, D
    <2> SUFFICES ASSUME NEW t \in AnyTitle PROVE server[t] <= Cardinality(E)
      BY <2>1
    <2>2. server[t] \in Nat /\ server[t] <= Cardinality(D)
      BY <2>1
    <2> QED
      BY <1>2, <2>2
  <1>5. page'.nonce \in Nat /\ page'.nonce <= Cardinality(Q)
    <2>1. page.nonce \in Nat /\ page.nonce <= Cardinality(P)
      BY DEF CountInv, P
    <2> QED
      BY <1>3, <2>1
  <1> QED
    BY <1>4, <1>5 DEF CountInv, E, Q, m

\* Writes that are other records of the same numbers, with nothing undone.
LEMMA Renumbered ==
    ASSUME NEW m \in Nat, NEW W, Numbered(m, W), NEW V,
           \A x \in V : \E w \in W : x.n = w.n /\ (w.done => x.done),
           \A x, y \in V : x.n = y.n => x = y
    PROVE  /\ Numbered(m, V) /\ DoneOf(m, W) \subseteq DoneOf(m, V) /\ OverOf(m, W) \subseteq OverOf(m, V)
  <1>1. Numbered(m, V)
    BY DEF Numbered
  <1>2. DoneOf(m, W) \subseteq DoneOf(m, V)
    BY DEF DoneOf
  <1>3. OverOf(m, W) \subseteq OverOf(m, V)
    BY DEF OverOf
  <1> QED
    BY <1>1, <1>2, <1>3

LEMMA DisownedNumbers ==
    ASSUME NEW m \in Nat, NEW W \in SUBSET WriteOf, Numbered(m, W), NEW V,
           V = {[w EXCEPT !.owned = FALSE] : w \in W} \/ V = {LeftBehind(w) : w \in W} \/ V \in SUBSET W
    PROVE  /\ Numbered(m, V) /\ DoneOf(m, W) \subseteq DoneOf(m, V) /\ OverOf(m, W) \subseteq OverOf(m, V)
  <1>1. CASE V = {[w EXCEPT !.owned = FALSE] : w \in W}
    <2> DEFINE F(w) == [w EXCEPT !.owned = FALSE]
    <2>1. \A w \in W : F(w).n = w.n /\ F(w).done = w.done
      BY WriteDisowned
    <2>2. V = {F(w) : w \in W}
      BY <1>1
    <2> HIDE DEF F
    <2>3. \A x \in V : \E w \in W : x.n = w.n /\ (w.done => x.done)
      BY <2>1, <2>2
    <2>4. ASSUME NEW x \in V, NEW y \in V, x.n = y.n PROVE x = y
      <3>1. PICK v \in W : x = F(v)
        BY <2>2
      <3>2. PICK w \in W : y = F(w)
        BY <2>2
      <3> QED
        BY <2>1, <2>4, <3>1, <3>2 DEF Numbered
    <2> QED
      BY <2>3, <2>4, Renumbered
  <1>2. CASE V = {LeftBehind(w) : w \in W}
    <2>1. \A w \in W : LeftBehind(w).n = w.n /\ LeftBehind(w).done = w.done
      BY WriteLeft
    <2>2. \A x \in V : \E w \in W : x.n = w.n /\ (w.done => x.done)
      BY <1>2, <2>1
    <2>3. ASSUME NEW x \in V, NEW y \in V, x.n = y.n PROVE x = y
      <3>1. PICK v \in W : x = LeftBehind(v)
        BY <1>2
      <3>2. PICK w \in W : y = LeftBehind(w)
        BY <1>2
      <3> QED
        BY <2>1, <2>3, <3>1, <3>2 DEF Numbered
    <2> QED
      BY <2>2, <2>3, Renumbered
  <1>3. CASE V \in SUBSET W
    <2>1. \A x, y \in V : x.n = y.n => x = y
      BY <1>3 DEF Numbered
    <2> QED
      BY <1>3, <2>1, Renumbered
  <1> QED
    BY <1>1, <1>2, <1>3


LEMMA SendsKeepsCount ==
    ASSUME CountInv, SpentInv, SpentInv', NEW pin \in BOOLEAN, Sends(pin)
    PROVE  CountInv'
  <1> DEFINE m == spent.writes
             w == [n |-> m + 1, title |-> page.data.title, pin |-> pin, owned |-> TRUE, paged |-> TRUE, done |-> FALSE]
  <1>1. m \in Nat /\ spent'.writes = m + 1
    BY DEF SpentInv, Sends
  <1>2. writes' = writes \cup {w} /\ w.n = m + 1 /\ UNCHANGED <<page, server>>
    BY DEF Sends
  <1>3. \A x \in writes : x.n \in 1 .. m
    BY DEF CountInv, Numbered
  <1>4. \A v, x \in writes : v.n = x.n => v = x
    BY DEF CountInv, Numbered
  <1> HIDE DEF m, w
  <1>5. \A k \in 1 .. m : k \in 1 .. (m + 1) /\ k # m + 1
    BY <1>1
  <1>6. m + 1 \in 1 .. (m + 1)
    BY <1>1
  <1>7. Numbered(m + 1, writes')
    BY <1>2, <1>3, <1>4, <1>5, <1>6, Zenon DEF Numbered
  <1>8. DoneOf(m, writes) \subseteq DoneOf(m + 1, writes')
    BY <1>2, <1>5 DEF DoneOf
  <1>9. OverOf(m, writes) \subseteq OverOf(m + 1, writes')
    BY <1>2, <1>5 DEF OverOf
  <1>10. page'.ran[2] \in Nat /\ page'.nonce = page.nonce
    BY <1>2 DEF CountInv
  <1>11. /\ spent.writes \in Nat /\ spent'.writes \in Nat
         /\ Numbered(spent'.writes, writes')
         /\ DoneOf(spent.writes, writes) \subseteq DoneOf(spent'.writes, writes')
         /\ OverOf(spent.writes, writes) \subseteq OverOf(spent'.writes, writes')
    BY <1>1, <1>7, <1>8, <1>9 DEF m
  <1> QED
    BY <1>2, <1>10, <1>11, CountQuiet

LEMMA ServedKeepsCount ==
    ASSUME CountInv, SpentInv, DialogInv, NEW w \in writes, WriteServed(w)
    PROVE  CountInv'
  <1> DEFINE m == spent.writes
             x == [w EXCEPT !.done = TRUE]
             D == DoneOf(m, writes)  E == DoneOf(m, writes')
  <1>1. m \in Nat /\ w \in WriteOf
    BY DEF SpentInv, DialogInv
  <1>2. /\ ~w.done /\ server' = [server EXCEPT ![w.title] = @ + 1]
        /\ writes' = (writes \ {w}) \cup {x} /\ UNCHANGED <<page, spent>>
    BY DEF WriteServed
  <1>3. x.n = w.n /\ x.done
    BY <1>1, WriteDone
  <1> HIDE DEF x
  <1>4. Numbered(m, writes)
    BY DEF CountInv
  <1>5. Numbered(m, writes') /\ D \subseteq E /\ OverOf(m, writes) \subseteq OverOf(m, writes')
    <2>1. \A y \in writes' : \E v \in writes : y.n = v.n /\ (v.done => y.done)
      BY <1>2, <1>3
    <2>2. \A y, z \in writes' : y.n = z.n => y = z
      BY <1>2, <1>3, <1>4 DEF Numbered
    <2> QED
      BY <1>1, <1>4, <2>1, <2>2, Renumbered
  <1>6. w.n \in E /\ w.n \notin D
    <2>1. w.n \in 1 .. m
      BY <1>4 DEF Numbered
    <2>2. \A y \in writes' : y.n = w.n => y.done
      BY <1>2, <1>3, <1>4 DEF Numbered
    <2> QED
      BY <1>2, <2>1, <2>2 DEF DoneOf
  <1>7. E \in SUBSET (1 .. m) /\ D \in SUBSET E
    BY <1>5 DEF DoneOf
  <1>8. \A t \in AnyTitle : server[t] \in Nat /\ server[t] <= Cardinality(D)
    BY DEF CountInv
  <1>9. OverOf(m, writes) \in SUBSET OverOf(m, writes') /\ OverOf(m, writes') \in SUBSET (1 .. m)
    BY <1>5 DEF OverOf
  <1>10. page.nonce \in Nat /\ page.nonce <= Cardinality(OverOf(m, writes)) /\ page.ran[2] \in Nat
    BY DEF CountInv
  <1> HIDE DEF D, E, m
  <1>11. Cardinality(D) \in Nat /\ Cardinality(E) \in Nat /\ Cardinality(D) + 1 <= Cardinality(E)
    BY <1>1, <1>6, <1>7, Grown
  <1>12. server' \in [AnyTitle -> Nat] /\ \A t \in AnyTitle : server'[t] <= Cardinality(E)
    <2>1. server \in [AnyTitle -> Nat] /\ w.title \in AnyTitle
      BY <1>1 DEF CountInv, WriteOf, AnyTitle
    <2>2. \A t \in AnyTitle : server'[t] = server[t] \/ server'[t] = server[t] + 1
      BY <1>2, <2>1
    <2>3. ASSUME NEW t \in AnyTitle PROVE server'[t] \in Nat /\ server'[t] <= Cardinality(E)
      <3>1. server[t] \in Nat /\ server[t] <= Cardinality(D) /\ (server'[t] = server[t] \/ server'[t] = server[t] + 1)
        BY <1>8, <2>2
      <3> QED
        BY <1>11, <3>1
    <2>4. server' = [t \in AnyTitle |-> server'[t]]
      BY <1>2, <2>1
    <2> QED
      BY <2>3, <2>4
  <1>13. page'.nonce \in Nat /\ page'.nonce <= Cardinality(OverOf(m, writes')) /\ page'.ran[2] \in Nat
    <2>1. /\ Cardinality(OverOf(m, writes)) \in Nat /\ Cardinality(OverOf(m, writes')) \in Nat
          /\ Cardinality(OverOf(m, writes)) <= Cardinality(OverOf(m, writes'))
      BY <1>1, <1>9, Grown
    <2> QED
      BY <1>2, <1>10, <2>1
  <1> QED
    BY <1>2, <1>5, <1>12, <1>13 DEF CountInv, E, m

LEMMA AnsweredKeepsCount ==
    ASSUME CountInv, SpentInv, DialogInv, TitleInv, NEW w \in writes, WriteAnswered(w)
    PROVE  CountInv'
  <1> DEFINE m == spent.writes
             P == OverOf(m, writes)  Q == OverOf(m, writes')
  <1>1. m \in Nat /\ writes \in SUBSET WriteOf /\ page \in PageOf
    BY DEF SpentInv, DialogInv, TitleInv
  <1>2. UNCHANGED <<server, spent>>
    BY DEF WriteAnswered
  <1>3. Numbered(m, writes)
    BY DEF CountInv
  <1> DEFINE U == writes \ {w}
  <1>4. U \in SUBSET writes /\ U \in SUBSET WriteOf /\ \A x \in U : x.n # w.n
    BY <1>1, <1>3 DEF Numbered
  <1>5. writes' = U \/ writes' = {[x EXCEPT !.owned = FALSE] : x \in U}
    BY DEF WriteAnswered
  <1>6. Numbered(m, U) /\ DoneOf(m, writes) \subseteq DoneOf(m, U) /\ OverOf(m, writes) \subseteq OverOf(m, U)
    BY <1>1, <1>3, <1>4, DisownedNumbers
  <1>7. w.n \in OverOf(m, U) /\ w.n \notin P
    BY <1>3, <1>4 DEF OverOf, Numbered
  <1> HIDE DEF U
  <1>8. /\ Numbered(m, writes') /\ DoneOf(m, U) \subseteq DoneOf(m, writes')
        /\ OverOf(m, U) \subseteq OverOf(m, writes')
    BY <1>1, <1>4, <1>5, <1>6, DisownedNumbers
  <1>9. CASE ~w.paged
    <2>1. UNCHANGED page
      BY <1>9 DEF WriteAnswered
    <2>2. page.ran[2] \in Nat
      BY DEF CountInv
    <2> QED
      BY <1>1, <1>2, <1>6, <1>8, <2>1, <2>2, CountQuiet
  <1>10. CASE w.paged
    <2>1. page' = [page EXCEPT !.nonce = page.nonce + 1, !.match = page.match /\ ~w.pin]
      BY <1>10 DEF WriteAnswered, Matched
    <2>2. page'.nonce = page.nonce + 1 /\ page'.ran = page.ran
      BY <1>1, <2>1 DEF PageOf
    <2>3. P \in SUBSET Q /\ Q \in SUBSET (1 .. m) /\ w.n \in Q /\ w.n \notin P
      BY <1>6, <1>7, <1>8 DEF OverOf
    <2>4. page.nonce \in Nat /\ page.nonce <= Cardinality(P) /\ page.ran[2] \in Nat
      BY DEF CountInv
    <2>5. server' \in [AnyTitle -> Nat] /\ \A t \in AnyTitle : server'[t] <= Cardinality(DoneOf(m, writes'))
      <3>1. DoneOf(m, writes) \in SUBSET DoneOf(m, writes') /\ DoneOf(m, writes') \in SUBSET (1 .. m)
        BY <1>6, <1>8 DEF DoneOf
      <3>2. server \in [AnyTitle -> Nat] /\ \A t \in AnyTitle : server[t] <= Cardinality(DoneOf(m, writes))
        BY DEF CountInv
      <3> HIDE DEF m
      <3>3. /\ Cardinality(DoneOf(m, writes)) \in Nat /\ Cardinality(DoneOf(m, writes')) \in Nat
            /\ Cardinality(DoneOf(m, writes)) <= Cardinality(DoneOf(m, writes'))
        BY <1>1, <3>1, Grown
      <3>4. ASSUME NEW t \in AnyTitle PROVE server[t] <= Cardinality(DoneOf(m, writes'))
        <4>1. server[t] \in Nat /\ server[t] <= Cardinality(DoneOf(m, writes))
          BY <3>2
        <4> QED
          BY <3>3, <4>1
      <3> QED
        BY <1>2, <3>2, <3>4
    <2> HIDE DEF P, Q, m
    <2>6. Cardinality(P) \in Nat /\ Cardinality(Q) \in Nat /\ Cardinality(P) + 1 <= Cardinality(Q)
      BY <1>1, <2>3, Grown
    <2>7. page'.nonce \in Nat /\ page'.nonce <= Cardinality(Q) /\ page'.ran[2] \in Nat
      BY <2>2, <2>4, <2>6
    <2> QED
      BY <1>2, <1>8, <2>5, <2>7 DEF CountInv, Q, m
  <1> QED
    BY <1>9, <1>10


\* A step that sends no write and hears of none.
CountSame ==
    /\ UNCHANGED server /\ spent'.writes = spent.writes
    /\ page'.nonce = page.nonce \/ page'.nonce = 0
    /\ page'.ran[2] \in Nat
    /\ \/ writes' \in SUBSET writes
       \/ writes' = {[w EXCEPT !.owned = FALSE] : w \in writes}
       \/ writes' = {LeftBehind(w) : w \in writes}
LEMMA SameKeepsCount == ASSUME CountInv, SpentInv, DialogInv, CountSame PROVE CountInv'
  <1> DEFINE m == spent.writes
  <1>1. m \in Nat /\ writes \in SUBSET WriteOf
    BY TitleAssumption DEF SpentInv, DialogInv
  <1>2. Numbered(m, writes)
    BY DEF CountInv
  <1> HIDE DEF m
  <1>3. /\ Numbered(m, writes') /\ DoneOf(m, writes) \subseteq DoneOf(m, writes')
        /\ OverOf(m, writes) \subseteq OverOf(m, writes')
    BY <1>1, <1>2, DisownedNumbers DEF CountSame
  <1>4. spent'.writes = m
    BY DEF CountSame, m
  <1>5. /\ spent.writes \in Nat /\ spent'.writes \in Nat /\ Numbered(spent'.writes, writes')
        /\ DoneOf(spent.writes, writes) \subseteq DoneOf(spent'.writes, writes')
        /\ OverOf(spent.writes, writes) \subseteq OverOf(spent'.writes, writes')
    BY <1>1, <1>3, <1>4 DEF m
  <1> QED
    BY <1>5, CountQuiet DEF CountSame

LEMMA FaultsAndSteps ==
    ASSUME SpentInv, TitleStep \/ TitleFault \/ UNCHANGED spent PROVE spent'.writes = spent.writes
  BY DEF SpentInv, TitleStep, TitleFault

LEMMA CountStep == TitleInv /\ SpentInv /\ SpentInv' /\ DialogInv /\ CountInv /\ [Next]_webVars => CountInv'
  <1> SUFFICES ASSUME TitleInv, SpentInv, SpentInv', DialogInv, CountInv, [Next]_webVars PROVE CountInv'
    OBVIOUS
  <1> DEFINE Goal == CountInv'
             Rest == UNCHANGED <<page, server, writes, spent>>
  <1> SUFFICES Goal
    OBVIOUS
  <1>1. page \in PageOf /\ page.nonce \in Nat /\ page.ran[2] \in Nat
    BY DEF TitleInv, CountInv
  <1>2. Rest => Goal
    BY DEF CountInv
  <1>3. UNCHANGED titleVars \/ DelayEnds \/ ApiLands \/ StaleApiLands \/ TrailerMoves \/ CandidatesArrive => Rest
    BY DEF titleVars, DelayEnds, ApiLands, StaleApiLands, TrailerMoves, CandidatesArrive
  <1>4. TrailerFails => Goal
    BY <1>1, FaultsAndSteps, SameKeepsCount DEF TrailerFails, CountSame
  <1>5. FetchEffect => Goal
    <2> SUFFICES ASSUME FetchEffect PROVE Goal
      OBVIOUS
    <2>1. /\ page' = [page EXCEPT !.ran = <<page.title, page.nonce>>, !.status = "loading", !.data = Nothing]
          /\ writes' = {[w EXCEPT !.owned = FALSE] : w \in writes} /\ UNCHANGED <<server, spent>>
      BY DEF FetchEffect, Disowned
    <2>2. page'.nonce = page.nonce /\ page'.ran[2] = page.nonce
      BY <1>1, <2>1 DEF PageOf
    <2> QED
      BY <1>1, <2>1, <2>2, SameKeepsCount DEF CountSame
  <1>6. ASSUME NEW g \in gets PROVE GetServed(g) => Goal
    BY <1>2 DEF GetServed
  <1>7. ASSUME NEW g \in gets PROVE GetArrives(g) => Goal
    <2> SUFFICES ASSUME GetArrives(g) PROVE Goal
      OBVIOUS
    <2> DEFINE body == Replayed(g)
    <2>1. UNCHANGED page \/ page' = [page EXCEPT !.status = "ready", !.data = body]
      BY DEF GetArrives
    <2> HIDE DEF body
    <2>2. page'.nonce = page.nonce /\ page'.ran = page.ran
      BY <1>1, <2>1 DEF PageOf
    <2> QED
      BY <1>1, <2>2, SameKeepsCount DEF CountSame, GetArrives
  <1>8. ASSUME NEW g \in gets PROVE GetFails(g) => Goal
    <2> SUFFICES ASSUME GetFails(g) PROVE Goal
      OBVIOUS
    <2>1. page' = [page EXCEPT !.status = "error"] /\ TitleFault /\ UNCHANGED <<server, writes>>
      BY DEF GetFails
    <2>2. page'.nonce = page.nonce /\ page'.ran = page.ran
      BY <1>1, <2>1 DEF PageOf
    <2> QED
      BY <1>1, <2>1, <2>2, FaultsAndSteps, SameKeepsCount DEF CountSame
  <1>9. ASSUME NEW t \in AnyTitle PROVE Follow(t) => Goal
    <2> SUFFICES ASSUME Follow(t) PROVE Goal
      OBVIOUS
    <2>1. page' = [page EXCEPT !.title = t] /\ TitleStep /\ UNCHANGED <<server, writes>>
      BY DEF Follow
    <2>2. page'.nonce = page.nonce /\ page'.ran = page.ran
      BY <1>1, <2>1 DEF PageOf
    <2> QED
      BY <1>1, <2>1, <2>2, FaultsAndSteps, SameKeepsCount DEF CountSame
  <1>10. ASSUME NEW t \in AnyTitle PROVE Open(t) => Goal
    <2> SUFFICES ASSUME Open(t) PROVE Goal
      OBVIOUS
    <2>1. page' = FreshPage(t) /\ TitleStep /\ UNCHANGED server /\ writes' = {LeftBehind(w) : w \in writes}
      BY ZenonT(30) DEF Open, LeftBehind
    <2>2. page'.nonce = 0 /\ page'.ran[2] = 0
      BY <2>1 DEF FreshPage
    <2> QED
      BY <2>1, <2>2, FaultsAndSteps, SameKeepsCount DEF CountSame
  <1>11. ToggleInfo \/ OpenMatch \/ CloseMatch => Goal
    <2> SUFFICES ASSUME ToggleInfo \/ OpenMatch \/ CloseMatch PROVE Goal
      OBVIOUS
    <2>1. TitleStep /\ UNCHANGED server /\ (writes' = writes \/ writes' = {[w EXCEPT !.owned = FALSE] : w \in writes})
      BY DEF ToggleInfo, OpenMatch, CloseMatch, Disowned
    <2>2. page' = [page EXCEPT !.info = ~@] \/ \E b \in BOOLEAN : page' = [page EXCEPT !.match = b]
      BY DEF ToggleInfo, OpenMatch, CloseMatch
    <2>3. page'.nonce = page.nonce /\ page'.ran = page.ran
      BY <1>1, <2>2 DEF PageOf
    <2> QED
      BY <1>1, <2>1, <2>3, FaultsAndSteps, SameKeepsCount DEF CountSame
  <1>12. Pin \/ Refresh => Goal
    BY SendsKeepsCount DEF Pin, Refresh
  <1>13. ASSUME NEW w \in writes PROVE WriteServed(w) \/ WriteAnswered(w) => Goal
    BY ServedKeepsCount, AnsweredKeepsCount
  <1>14. ASSUME NEW w \in writes PROVE WriteFails(w) => Goal
    <2> SUFFICES ASSUME WriteFails(w) PROVE Goal
      OBVIOUS
    <2>1. writes' \in SUBSET writes /\ TitleFault /\ UNCHANGED <<page, server>>
      BY DEF WriteFails
    <2> QED
      BY <1>1, <2>1, FaultsAndSteps, SameKeepsCount DEF CountSame
  <1> HIDE DEF Goal, Rest
  <1> QED
    BY <1>2, <1>3, <1>4, <1>5, <1>6, <1>7, <1>8, <1>9, <1>10, <1>11, <1>12, <1>13, <1>14, PartsStep DEF TitleNext


\* What the cache, the requests and the page hold are versions the server has had.
Dated(e) == e # Nothing => e.version \in Version
Told(g) == Dated(g.entry) /\ (g.reply # Nothing => g.reply \in Version)
VersionInv ==
    /\ \A t \in AnyTitle : Dated(cache[t])
    /\ \A g \in gets : Told(g)
    /\ page.status = "ready" => page.data.version \in Version
    /\ page.data # Nothing => page.data.version \in Version

LEMMA CountBounds ==
    ASSUME CountInv, SpentInv
    PROVE  /\ \A t \in AnyTitle : server[t] \in Version
           /\ page.nonce \in 0 .. MaxWrites
  <1> DEFINE m == spent.writes
             D == DoneOf(m, writes)
             P == OverOf(m, writes)
  <1>1. m \in Nat /\ m <= MaxWrites /\ MaxWrites \in Nat
    BY TitleAssumption DEF SpentInv
  <1>2. D \in SUBSET (1 .. m) /\ P \in SUBSET (1 .. m)
    BY DEF DoneOf, OverOf
  <1>3. \A t \in AnyTitle : server[t] \in Nat /\ server[t] <= Cardinality(D)
    BY DEF CountInv
  <1>4. page.nonce \in Nat /\ page.nonce <= Cardinality(P)
    BY DEF CountInv
  <1> HIDE DEF m, D, P
  <1>5. Cardinality(D) \in Nat /\ Cardinality(D) <= m /\ Cardinality(P) \in Nat /\ Cardinality(P) <= m
    BY <1>1, <1>2, Grown
  <1>6. ASSUME NEW t \in AnyTitle PROVE server[t] \in Version
    <2>1. server[t] \in Nat /\ server[t] <= Cardinality(D)
      BY <1>3
    <2> QED
      BY <1>1, <1>5, <2>1 DEF Version
  <1>7. page.nonce \in 0 .. MaxWrites
    BY <1>1, <1>4, <1>5
  <1> QED
    BY <1>6, <1>7

LEMMA VersionStep == TitleInv /\ CountInv /\ SpentInv /\ VersionInv /\ [Next]_webVars => VersionInv'
  <1> SUFFICES ASSUME TitleInv, CountInv, SpentInv, VersionInv, [Next]_webVars PROVE VersionInv'
    OBVIOUS
  <1> DEFINE Goal == VersionInv'
             Steady == page'.data = page.data /\ (page'.status = "ready" => page.status = "ready")
             Rest == Steady /\ (UNCHANGED cache \/ cache' = [t \in AnyTitle |-> Nothing]) /\ gets' \in SUBSET gets
  <1> SUFFICES Goal
    OBVIOUS
  <1>1. page \in PageOf /\ gets \subseteq GetOf /\ cache \in [AnyTitle -> EntryOf]
    BY DEF TitleInv
  <1>2. Rest => Goal
    BY DEF VersionInv, Dated
  <1>3. UNCHANGED titleVars \/ DelayEnds \/ ApiLands \/ StaleApiLands \/ TrailerMoves \/ TrailerFails => Rest
    BY DEF titleVars, DelayEnds, ApiLands, StaleApiLands, TrailerMoves, TrailerFails
  <1>4. CandidatesArrive \/ Pin \/ Refresh => Rest
    BY DEF CandidatesArrive, Pin, Refresh, Sends
  <1>5. FetchEffect => Goal
    <2> SUFFICES ASSUME FetchEffect PROVE Goal
      OBVIOUS
    <2>1. /\ page' = [page EXCEPT !.ran = <<page.title, page.nonce>>, !.status = "loading", !.data = Nothing]
          /\ gets' = {[g EXCEPT !.aborted = TRUE] : g \in gets} \cup {Asked(page.title)} /\ UNCHANGED cache
      BY DEF FetchEffect
    <2>2. page'.status = "loading" /\ page'.data = Nothing /\ page.title \in AnyTitle
      BY <1>1, <2>1 DEF PageOf
    <2>3. Told(Asked(page.title))
      BY <2>2 DEF VersionInv, Asked, Told
    <2>4. ASSUME NEW g \in gets PROVE Told([g EXCEPT !.aborted = TRUE])
      <3>1. g \in GetOf /\ Told(g)
        BY <1>1 DEF VersionInv
      <3> QED
        BY <3>1 DEF GetOf, Told
    <2>5. \A g \in gets' : Told(g)
      BY <2>1, <2>3, <2>4
    <2> QED
      BY <2>1, <2>2, <2>5 DEF VersionInv
  <1>6. ASSUME NEW g \in gets PROVE GetServed(g) => Goal
    <2> SUFFICES ASSUME GetServed(g) PROVE Goal
      OBVIOUS
    <2> DEFINE h == [g EXCEPT !.reply = server[g.title]]
    <2>1. gets' = (gets \ {g}) \cup {h} /\ UNCHANGED <<page, cache>>
      BY DEF GetServed
    <2>2. g \in GetOf /\ Told(g)
      BY <1>1 DEF VersionInv
    <2>3. server[g.title] \in Version
      BY <2>2, CountBounds DEF GetOf
    <2>4. h.entry = g.entry /\ h.reply = server[g.title]
      BY <2>2 DEF GetOf
    <2> HIDE DEF h
    <2>5. Told(h)
      BY <2>2, <2>3, <2>4 DEF Told
    <2> QED
      BY <2>1, <2>5 DEF VersionInv
  <1>7. ASSUME NEW g \in gets PROVE GetArrives(g) => Goal
    <2> SUFFICES ASSUME GetArrives(g) PROVE Goal
      OBVIOUS
    <2> DEFINE body == Replayed(g)
    <2>1. /\ gets' = gets \ {g} /\ g.reply # Nothing
          /\ UNCHANGED cache \/ cache' = [cache EXCEPT ![g.title] = body]
          /\ UNCHANGED page \/ page' = [page EXCEPT !.status = "ready", !.data = body]
      BY DEF GetArrives
    <2>2. body.version \in Version
      <3>1. Told(g)
        BY DEF VersionInv
      <3>2. CASE NotModified(g)
        BY <3>1, <3>2 DEF Told, Dated, NotModified, Replayed
      <3>3. CASE ~NotModified(g)
        BY <2>1, <3>1, <3>3 DEF Told, Replayed
      <3> QED
        BY <3>2, <3>3
    <2> HIDE DEF body
    <2>3. ASSUME NEW t \in AnyTitle PROVE Dated(cache'[t])
      <3>1. Dated(cache[t])
        BY DEF VersionInv
      <3>2. cache'[t] = cache[t] \/ cache'[t] = body
        BY <1>1, <2>1
      <3> QED
        BY <2>2, <3>1, <3>2 DEF Dated
    <2>4. UNCHANGED page \/ (page'.data = body)
      BY <1>1, <2>1 DEF PageOf
    <2> QED
      BY <2>1, <2>2, <2>3, <2>4 DEF VersionInv
  <1>8. ASSUME NEW g \in gets PROVE GetFails(g) => Goal
    <2> SUFFICES ASSUME GetFails(g) PROVE Goal
      OBVIOUS
    <2>1. page' = [page EXCEPT !.status = "error"] /\ gets' = gets \ {g}
      BY DEF GetFails
    <2>2. page'.status = "error" /\ page'.data = page.data
      BY <1>1, <2>1 DEF PageOf
    <2>3. UNCHANGED cache
      BY DEF GetFails
    <2> QED
      BY <2>1, <2>2, <2>3, <1>2
  <1>9. ASSUME NEW t \in AnyTitle PROVE Follow(t) => Rest
    BY <1>1 DEF Follow, PageOf
  <1>10. ASSUME NEW t \in AnyTitle PROVE Open(t) => Goal
    <2> SUFFICES ASSUME Open(t) PROVE Goal
      OBVIOUS
    <2>1. page' = FreshPage(t) /\ gets' = {} /\ UNCHANGED cache
      BY ZenonT(30) DEF Open
    <2>2. page'.status = "loading" /\ page'.data = Nothing
      BY <2>1 DEF FreshPage
    <2> QED
      BY <2>1, <2>2 DEF VersionInv
  <1>11. ToggleInfo \/ OpenMatch \/ CloseMatch => Rest
    BY <1>1 DEF ToggleInfo, OpenMatch, CloseMatch, PageOf
  <1>12. ASSUME NEW w \in writes PROVE WriteServed(w) \/ WriteFails(w) => Rest
    BY DEF WriteServed, WriteFails
  <1>13. ASSUME NEW w \in writes PROVE WriteAnswered(w) => Rest
    <2> SUFFICES ASSUME WriteAnswered(w) PROVE Rest
      OBVIOUS
    <2>1. /\ cache' = [t \in AnyTitle |-> Nothing] /\ UNCHANGED gets
          /\ UNCHANGED page \/ page' = Matched(page, w)
      BY DEF WriteAnswered
    <2> DEFINE b == page.match /\ ~w.pin
    <2>2. UNCHANGED page \/ page' = [page EXCEPT !.nonce = page.nonce + 1, !.match = b]
      BY <2>1 DEF Matched
    <2> HIDE DEF b
    <2>3. Steady
      BY <1>1, <2>2 DEF PageOf
    <2> QED
      BY <2>1, <2>3
  <1> HIDE DEF Goal, Rest
  <1> QED
    BY <1>2, <1>3, <1>4, <1>5, <1>6, <1>7, <1>8, <1>9, <1>10, <1>11, <1>12, <1>13, PartsStep DEF TitleNext


LEMMA TitleTyped ==
    TitleInv /\ SpentInv /\ DialogInv /\ CountInv /\ PinInv /\ VersionInv /\ TrailerInv => TitleTypeOK
  <1> SUFFICES ASSUME TitleInv, SpentInv, DialogInv, CountInv, PinInv, VersionInv, TrailerInv PROVE TitleTypeOK
    OBVIOUS
  <1>1. page \in PageOf /\ gets \subseteq GetOf /\ cache \in [AnyTitle -> EntryOf] /\ server \in [AnyTitle -> Int]
    BY DEF TitleInv
  <1>2. (\A t \in AnyTitle : server[t] \in Version) /\ page.nonce \in 0 .. MaxWrites
    BY CountBounds
  <1>3. ASSUME NEW e \in EntryOf, Dated(e) PROVE e \in Body \cup {Nothing}
    BY <1>3 DEF EntryOf, BodyOf, Dated, Body
  <1>4. server \in [AnyTitle -> Version]
    BY <1>1, <1>2
  <1>5. cache \in [AnyTitle -> Body \cup {Nothing}]
    <2>1. \A t \in AnyTitle : cache[t] \in Body \cup {Nothing}
      BY <1>1, <1>3 DEF VersionInv
    <2> QED
      BY <1>1, <2>1
  <1>6. ASSUME NEW g \in gets PROVE g \in Get
    <2>1. g \in GetOf /\ Told(g)
      BY <1>1 DEF VersionInv
    <2>2. g.entry \in Body \cup {Nothing}
      BY <1>3, <2>1 DEF GetOf, Told
    <2>3. g.reply \in Version \cup {Nothing}
      BY <2>1 DEF GetOf, Told
    <2>4. g.title \in AnyTitle /\ g.aborted \in BOOLEAN
      BY <2>1 DEF GetOf
    <2>5. g = [title |-> g.title, entry |-> g.entry, reply |-> g.reply, aborted |-> g.aborted]
      BY <2>1 DEF GetOf
    <2> QED
      BY <2>2, <2>3, <2>4, <2>5 DEF Get
  <1>7. ASSUME NEW w \in writes PROVE w \in Write
    <2>1. w \in WriteOf /\ w.n \in 1 .. spent.writes
      BY DEF DialogInv, CountInv, Numbered
    <2>2. w.n \in 1 .. MaxWrites
      BY <2>1, TitleAssumption DEF SpentInv
    <2> QED
      BY <2>1, <2>2 DEF WriteOf, Write
  <1>8. page \in [title : AnyTitle, nonce : 0 .. MaxWrites, ran : (AnyTitle \cup {Nothing}) \X (0 .. MaxWrites),
                  status : {"loading", "ready", "error"}, data : Body \cup {Nothing},
                  match : BOOLEAN, info : BOOLEAN]
    <2>1. page.data \in Body \cup {Nothing}
      <3>1. page.data \in EntryOf
        BY <1>1 DEF PageOf, EntryOf
      <3> QED
        BY <1>3, <3>1 DEF VersionInv, Dated
    <2>2. page.ran \in (AnyTitle \cup {Nothing}) \X (0 .. MaxWrites)
      <3>1. page.ran[1] \in AnyTitle \cup {Nothing} /\ page.ran = <<page.ran[1], page.ran[2]>>
        BY <1>1 DEF PageOf
      <3>2. page.ran[2] \in 0 .. MaxWrites
        BY <1>2, TitleAssumption DEF PinInv, CountInv
      <3> QED
        BY <3>1, <3>2
    <2>3. /\ page.title \in AnyTitle /\ page.status \in {"loading", "ready", "error"}
          /\ page.match \in BOOLEAN /\ page.info \in BOOLEAN
          /\ page = [title |-> page.title, nonce |-> page.nonce, ran |-> page.ran, status |-> page.status,
                     data |-> page.data, match |-> page.match, info |-> page.info]
      BY <1>1 DEF PageOf
    <2> HIDE DEF AnyTitle
    <2> QED
      BY <1>2, <2>1, <2>2, <2>3
  <1>9. page.status = "ready" => page.data \in Body
    BY DEF TitleInv, BodyOf, VersionInv, Body
  <1> QED
    BY <1>4, <1>5, <1>6, <1>7, <1>8, <1>9 DEF TitleTypeOK, DialogInv, DialogOf, TrailerInv, SpentInv

LEMMA TitleTypes == Spec => []TitleTypeOK
  <1>1. Init => CountInv /\ PinInv /\ VersionInv /\ TrailerInv
    <2> SUFFICES ASSUME Init PROVE CountInv /\ PinInv /\ VersionInv /\ TrailerInv
      OBVIOUS
    <2>1. /\ gets = {} /\ writes = {} /\ \E t \in AnyTitle : page = FreshPage(t)
          /\ server = [t \in AnyTitle |-> 0] /\ cache = [t \in AnyTitle |-> Nothing] /\ trailer = NoTrailer
          /\ spent.writes = 0
      BY DEF Init, TitleInit
    <2>2. page.ran[2] = 0 /\ page.nonce = 0 /\ page.status = "loading" /\ page.data = Nothing
      BY <2>1 DEF FreshPage
    <2>3. PinInv
      BY <2>1, <2>2 DEF PinInv, IsFresh, PageTold
    <2>4. VersionInv
      BY <2>1, <2>2 DEF VersionInv, Dated
    <2>5. TrailerInv
      BY <2>1 DEF NoTrailer, TrailerInv, OneTrailer, Built, TrailerState
    <2>6. Cardinality(DoneOf(0, {})) \in Nat /\ Cardinality(OverOf(0, {})) \in Nat
      <3>1. DoneOf(0, {}) \in SUBSET (1 .. 0) /\ OverOf(0, {}) \in SUBSET (1 .. 0)
        BY DEF DoneOf, OverOf
      <3> QED
        BY <3>1, Grown
    <2>7. CountInv
      <3>1. Numbered(spent.writes, writes)
        BY <2>1 DEF Numbered
      <3> QED
        BY <2>1, <2>2, <2>6, <3>1 DEF CountInv
    <2> QED
      BY <2>3, <2>4, <2>5, <2>7
  <1> QED
    BY <1>1, DialogAlways, TitleTyped, PinStep, CountStep, VersionStep, TrailerStep, PTL DEF Spec


-----------------------------------------------------------------------------
(* The settings: what their state consists of *)

AdminPart == {"list", "counts"}
ReadOf(m) == [AdminPart -> 0 .. m]
SentOf == [n : Nat, kind : Kind, id : LibId \cup Title \cup {Gone}, arg : Typed \cup Folder,
           owned : BOOLEAN, paged : BOOLEAN, reply : {"none", "ok", "refused"}]
EditorOf == [box : Typed, edited : BOOLEAN, busy : BOOLEAN]
PanelOf == [creating : BOOLEAN, backfilling : BOOLEAN, busy : BOOLEAN, timers : Nat,
            fix : Title \cup {Gone}, fixBusy : BOOLEAN]
UsedOf == [steps : 0 .. MaxAdminSteps, writes : 0 .. MaxAdminWrites, faults : 0 .. MaxAdminFaults]
Excuse == {"lost", "left", "outrun", "overtaken", "reused"}

\* What a write of a kind is about and carries.
IdsOf(kind) == IF kind \in {"create", "backfill", "enrich"} THEN {Gone} ELSE IF kind = "pin" THEN Title ELSE LibId
ArgsOf(kind) == IF kind \in {"create", "rename"} THEN LibName ELSE IF kind \in {"add", "remove"} THEN Folder ELSE {NoName}
WellSent(w) == w \in SentOf /\ w.id \in IdsOf(w.kind) /\ w.arg \in ArgsOf(w.kind)

AdminTypes ==
    /\ past \in Seq(Server) /\ Len(past) >= 1
    /\ at \in {"libraries", "status"}
    /\ view \in ReadOf(Len(past)) /\ reads \in Seq(ReadOf(Len(past)))
    /\ \A w \in sent : WellSent(w)
    /\ editors \in [LibId -> EditorOf] /\ panel \in PanelOf
    /\ excused \subseteq Excuse /\ used \in UsedOf

LEMMA AdminBounds ==
    /\ MaxLibs \in Nat \ {0} /\ MaxAdminWrites \in Nat /\ MaxAdminSteps \in Nat /\ MaxAdminFaults \in Nat
    /\ NoName \notin LibName /\ Gone \notin Title /\ Gone \notin LibId
    /\ \A t \in Title : t \notin LibId
  BY AdminAssumption DEF LibId

\* A write whose dialog or page is gone: it is that write still, owned or paged no more.
Alike(x, w) ==
    /\ WellSent(x) /\ x.n = w.n /\ x.kind = w.kind /\ x.id = w.id /\ x.arg = w.arg /\ x.reply = w.reply
    /\ (x.owned => w.owned) /\ (x.paged => w.paged)
LEMMA AlikeOwned ==
    ASSUME NEW w, WellSent(w), NEW b \in BOOLEAN, b => w.owned, NEW x, x = [w EXCEPT !.owned = b]
    PROVE  Alike(x, w) /\ x.owned = b /\ x.paged = w.paged
  <1> HIDE DEF Typed, Kind
  <1> QED
    BY DEF WellSent, SentOf, Alike
Unpaged(w) == [w EXCEPT !.owned = FALSE, !.paged = FALSE]
LEMMA AlikeUnpaged ==
    ASSUME NEW w, WellSent(w)
    PROVE  Alike(Unpaged(w), w) /\ ~Unpaged(w).owned /\ ~Unpaged(w).paged
  <1> HIDE DEF Typed, Kind
  <1> QED
    BY DEF WellSent, SentOf, Alike, Unpaged
LEMMA SentReplied ==
    ASSUME NEW w, WellSent(w), NEW r \in {"none", "ok", "refused"}, NEW x, x = [w EXCEPT !.reply = r]
    PROVE  /\ WellSent(x) /\ x.n = w.n /\ x.kind = w.kind /\ x.id = w.id /\ x.arg = w.arg
           /\ x.owned = w.owned /\ x.paged = w.paged /\ x.reply = r
  <1> HIDE DEF Typed, Kind
  <1> QED
    BY DEF WellSent, SentOf

\* Writes that were sent before, each once, some of them let go.
Thinned(V, W) ==
    /\ \A x \in V : \E w \in W : Alike(x, w)
    /\ \A x, y \in V : x.n = y.n => x = y

\* What is new of one write.
NewSent(kind, id, arg) ==
    [n |-> used.writes + 1, kind |-> kind, id |-> id, arg |-> arg, owned |-> TRUE, paged |-> TRUE, reply |-> "none"]
LEMMA NewIsSent ==
    ASSUME used.writes \in Nat, NEW kind \in Kind, NEW id \in IdsOf(kind), NEW arg \in ArgsOf(kind)
    PROVE  LET w == NewSent(kind, id, arg)
           IN  /\ WellSent(w) /\ w.n = used.writes + 1 /\ w.kind = kind /\ w.id = id /\ w.arg = arg
               /\ w.owned /\ w.paged /\ w.reply = "none"
  <1>1. id \in LibId \cup Title \cup {Gone} /\ arg \in Typed \cup Folder
    BY DEF IdsOf, ArgsOf, Typed
  <1> HIDE DEF Typed, Kind, IdsOf, ArgsOf
  <1> QED
    BY <1>1 DEF WellSent, SentOf, NewSent


LEMMA SubSeqIs ==
    ASSUME NEW S, NEW s \in Seq(S), NEW m \in Nat, NEW n \in Nat, 1 <= m, n <= Len(s), m <= n + 1
    PROVE  /\ SubSeq(s, m, n) \in Seq(S) /\ Len(SubSeq(s, m, n)) = n - m + 1
           /\ \A j \in 1 .. n - m + 1 : SubSeq(s, m, n)[j] = s[m + j - 1]
  <1>1. \A i \in m .. n : s[i] \in S
    OBVIOUS
  <1>2. IF m <= n THEN n - m + 1 = n - m + 1 ELSE n - m + 1 = 0
    OBVIOUS
  <1> QED
    BY <1>1, <1>2, SubSeqProperties

\* Taking one element out keeps the others.
LEMMA WithoutIs ==
    ASSUME NEW S, NEW s \in Seq(S), NEW i \in 1 .. Len(s)
    PROVE  /\ Without(s, i) \in Seq(S)
           /\ \A j \in 1 .. Len(Without(s, i)) : \E k \in 1 .. Len(s) : k # i /\ Without(s, i)[j] = s[k]
           /\ \A k \in 1 .. Len(s) : k # i => \E j \in 1 .. Len(Without(s, i)) : Without(s, i)[j] = s[k]
  <1> DEFINE a == SubSeq(s, 1, i - 1)
             b == SubSeq(s, i + 1, Len(s))
             n == Len(s)
  <1>1. i \in Nat /\ n \in Nat /\ i \in 1 .. n
    OBVIOUS
  <1>2. a \in Seq(S) /\ Len(a) = i - 1 /\ \A j \in 1 .. i - 1 : a[j] = s[j]
    <2>1. 1 \in Nat /\ i - 1 \in Nat /\ i - 1 <= n /\ 1 <= (i - 1) + 1
      BY <1>1
    <2>2. /\ a \in Seq(S) /\ Len(a) = (i - 1) - 1 + 1
          /\ \A j \in 1 .. (i - 1) - 1 + 1 : a[j] = s[1 + j - 1]
      BY <2>1, SubSeqIs
    <2>3. (i - 1) - 1 + 1 = i - 1 /\ \A j \in 1 .. i - 1 : 1 + j - 1 = j
      BY <1>1
    <2> HIDE DEF a
    <2> QED
      BY <2>2, <2>3
  <1>3. b \in Seq(S) /\ Len(b) = n - i /\ \A j \in 1 .. n - i : b[j] = s[i + j]
    <2>1. i + 1 \in Nat /\ 1 <= i + 1 /\ i + 1 <= n + 1
      BY <1>1
    <2>2. b \in Seq(S) /\ Len(b) = n - (i + 1) + 1 /\ \A j \in 1 .. n - (i + 1) + 1 : b[j] = s[(i + 1) + j - 1]
      BY <1>1, <2>1, SubSeqIs
    <2>3. n - (i + 1) + 1 = n - i /\ \A j \in 1 .. n - i : (i + 1) + j - 1 = i + j
      BY <1>1
    <2> HIDE DEF b
    <2> QED
      BY <2>2, <2>3
  <1> HIDE DEF a, b
  <1> DEFINE c == a \o b
  <1>4. c \in Seq(S) /\ Len(c) = Len(a) + Len(b)
        /\ \A j \in 1 .. Len(a) + Len(b) : c[j] = IF j <= Len(a) THEN a[j] ELSE b[j - Len(a)]
    BY <1>2, <1>3, ConcatProperties
  <1>5. Len(c) = n - 1 /\ \A j \in 1 .. n - 1 : c[j] = IF j <= i - 1 THEN a[j] ELSE b[j - (i - 1)]
    <2>1. Len(a) + Len(b) = n - 1
      BY <1>1, <1>2, <1>3
    <2> HIDE DEF c, n
    <2> QED
      BY <1>2, <1>4, <2>1
  <1>6. c = Without(s, i)
    BY DEF Without, a, b
  <1> HIDE DEF c, n
  <1>7. ASSUME NEW j \in 1 .. n - 1 PROVE \E k \in 1 .. n : k # i /\ c[j] = s[k]
    <2>1. CASE j <= i - 1
      <3>1. j \in 1 .. i - 1 /\ j \in 1 .. n /\ j # i
        BY <1>1, <2>1
      <3> QED
        BY <1>2, <1>5, <2>1, <3>1
    <2>2. CASE ~(j <= i - 1)
      <3>1. j - (i - 1) \in 1 .. n - i /\ j + 1 \in 1 .. n /\ j + 1 # i /\ i + (j - (i - 1)) = j + 1
        BY <1>1, <2>2
      <3> QED
        BY <1>3, <1>5, <2>2, <3>1
    <2> QED
      BY <2>1, <2>2
  <1>8. ASSUME NEW k \in 1 .. n, k # i PROVE \E j \in 1 .. n - 1 : c[j] = s[k]
    <2>1. CASE k < i
      <3>1. k \in 1 .. n - 1 /\ k <= i - 1 /\ k \in 1 .. i - 1
        BY <1>1, <2>1
      <3> QED
        BY <1>2, <1>5, <3>1
    <2>2. CASE ~(k < i)
      <3>1. k - 1 \in 1 .. n - 1 /\ ~(k - 1 <= i - 1) /\ (k - 1) - (i - 1) \in 1 .. n - i /\ i + ((k - 1) - (i - 1)) = k
        BY <1>1, <1>8, <2>2
      <3> QED
        BY <1>3, <1>5, <3>1
    <2> QED
      BY <2>1, <2>2
  <1> QED
    BY <1>4, <1>5, <1>6, <1>7, <1>8 DEF n

\* A GET under way: one that is asked, one that is served.
LEMMA UnansweredIs == \A m \in Nat : Unanswered \in ReadOf(m)
  BY DEF Unanswered, ReadOf, AdminPart
LEMMA ReadsGrow == ASSUME NEW m \in Nat, NEW k \in Nat, m <= k PROVE ReadOf(m) \subseteq ReadOf(k)
  <1>1. 0 .. m \subseteq 0 .. k
    OBVIOUS
  <1> QED
    BY <1>1 DEF ReadOf
LEMMA SeqGrows == ASSUME NEW S, NEW T, S \subseteq T, NEW s \in Seq(S) PROVE s \in Seq(T)
  <1>1. s \in [1 .. Len(s) -> S] /\ Len(s) \in Nat
    OBVIOUS
  <1>2. s \in [1 .. Len(s) -> T]
    BY <1>1
  <1> QED
    BY <1>1, <1>2
LEMMA ReadAnswered ==
    ASSUME NEW m \in Nat, NEW r \in ReadOf(m), NEW part \in AdminPart, NEW x, x = [r EXCEPT ![part] = m]
    PROVE  /\ x \in ReadOf(m) /\ x[part] = m /\ \A p \in AdminPart : p # part => x[p] = r[p]
  BY DEF ReadOf
LEMMA AppendIs ==
    ASSUME NEW S, NEW s \in Seq(S), NEW x \in S
    PROVE  /\ Append(s, x) \in Seq(S) /\ Len(Append(s, x)) = Len(s) + 1
           /\ Append(s, x)[Len(s) + 1] = x /\ \A i \in 1 .. Len(s) : Append(s, x)[i] = s[i]
  BY AppendProperties


\* A write of a library's own editor (LibraryEditor.run).
EditorKind == {"rename", "add", "remove", "scan", "delete"}
EditorSends(id, kind, arg) ==
    /\ Runs(id, kind, arg) /\ arg \in ArgsOf(kind)
    /\ kind = "rename" => MayRename(id) /\ arg = editors[id].box

\* Every state the pages were shown, the page's own included, is one of the server's.
LEMMA StatesAre ==
    ASSUME AdminTypes
    PROVE  /\ Len(past) \in Nat \ {0} /\ Now \in Server
           /\ \A n \in 1 .. Len(past) : past[n] \in Server /\ past[n].libs \in [LibId -> Lib \cup {Gone}]
           /\ view["list"] \in 0 .. Len(past) /\ view["counts"] \in 0 .. Len(past)
           /\ Loaded => Shown \in Server /\ Shown.libs \in [LibId -> Lib \cup {Gone}]
           /\ \A i \in 1 .. Len(reads) : reads[i] \in ReadOf(Len(past))
  <1>1. past \in Seq(Server) /\ Len(past) \in Nat \ {0}
    BY DEF AdminTypes
  <1>2. \A n \in 1 .. Len(past) : past[n] \in Server
    BY <1>1
  <1>3. \A s \in Server : s.libs \in [LibId -> Lib \cup {Gone}]
    BY DEF Server
  <1>4. view["list"] \in 0 .. Len(past) /\ view["counts"] \in 0 .. Len(past)
    BY DEF AdminTypes, ReadOf, AdminPart
  <1>5. Now \in Server
    BY <1>1, <1>2 DEF Now
  <1>6. Loaded => view["list"] \in 1 .. Len(past)
    BY <1>1, <1>4 DEF Loaded
  <1>7. \A i \in 1 .. Len(reads) : reads[i] \in ReadOf(Len(past))
    BY DEF AdminTypes
  <1> HIDE DEF Server, Lib
  <1> QED
    BY <1>1, <1>2, <1>3, <1>4, <1>5, <1>6, <1>7 DEF Shown

LEMMA MountedAre ==
    ASSUME AdminTypes, NEW id \in Mounted
    PROVE  id \in LibId /\ at = "libraries" /\ Loaded /\ Shown.libs[id] \in Lib /\ Shown.libs[id] # Gone
  BY StatesAre DEF Mounted

LEMMA EditorsSend ==
    ASSUME AdminTypes, NEW id \in LibId,
           Rename(id) \/ AddFolder(id) \/ RemoveFolder(id) \/ Scan(id) \/ Delete(id)
    PROVE  \E kind \in EditorKind : \E arg : EditorSends(id, kind, arg)
  <1>1. CASE Rename(id)
    <2>1. editors[id].box \in LibName
      BY <1>1 DEF Rename, MayRename, AdminTypes, EditorOf, Typed
    <2> QED
      BY <1>1, <2>1 DEF Rename, EditorSends, ArgsOf, EditorKind
  <1>2. CASE AddFolder(id)
    BY <1>2 DEF AddFolder, EditorSends, ArgsOf, EditorKind
  <1>3. CASE RemoveFolder(id)
    <2>1. PICK f \in Shown.libs[id].folders : Runs(id, "remove", f)
      BY <1>3 DEF RemoveFolder
    <2>2. f \in Folder
      BY <1>3, <2>1, MountedAre DEF RemoveFolder, Lib
    <2> QED
      BY <2>1, <2>2 DEF EditorSends, ArgsOf, EditorKind
  <1>4. CASE Scan(id)
    BY <1>4 DEF Scan, EditorSends, ArgsOf, EditorKind
  <1>5. CASE Delete(id)
    BY <1>5 DEF Delete, EditorSends, ArgsOf, EditorKind
  <1> QED
    BY <1>1, <1>2, <1>3, <1>4, <1>5

\* Whoever sends, the write is a new one of a kind that belongs to him.
SomeoneSends == \E kind \in Kind : \E id \in IdsOf(kind), arg \in ArgsOf(kind) : Submits(kind, id, arg)
LEMMA SendersSend ==
    ASSUME AdminTypes,
           \/ \E id \in LibId, kind \in EditorKind : \E arg : EditorSends(id, kind, arg)
           \/ Create \/ Backfill \/ (\E kind \in {"enrich", "backfill"} : RunPass(kind)) \/ PinFix
    PROVE  SomeoneSends
  <1>1. CASE \E id \in LibId, kind \in EditorKind : \E arg : EditorSends(id, kind, arg)
    <2>1. PICK id \in LibId, kind \in EditorKind : \E arg : EditorSends(id, kind, arg)
      BY <1>1
    <2>2. kind \in Kind /\ id \in IdsOf(kind)
      BY DEF EditorKind, Kind, IdsOf
    <2> QED
      BY <2>1, <2>2 DEF SomeoneSends, EditorSends, Runs
  <1>2. CASE Create
    BY <1>2 DEF Create, SomeoneSends, Kind, IdsOf, ArgsOf
  <1>3. CASE Backfill
    BY <1>3 DEF Backfill, SomeoneSends, Kind, IdsOf, ArgsOf
  <1>4. CASE \E kind \in {"enrich", "backfill"} : RunPass(kind)
    BY <1>4 DEF RunPass, SomeoneSends, Kind, IdsOf, ArgsOf
  <1>5. CASE PinFix
    <2>1. panel.fix \in Title /\ Submits("pin", panel.fix, NoName)
      BY <1>5 DEF PinFix, AdminTypes, PanelOf
    <2> QED
      BY <2>1 DEF SomeoneSends, Kind, IdsOf, ArgsOf
  <1> QED
    BY <1>1, <1>2, <1>3, <1>4, <1>5


\* The steps of the settings, a library's own writes taken together.
AdminMoves ==
    \/ UNCHANGED adminVars
    \/ \E p \in {"libraries", "status"} : Visit(p)
    \/ RefreshClick \/ TimerFires
    \/ \E i \in 1 .. Len(reads) : (\E part \in AdminPart : ReadServed(i, part)) \/ ReadArrives(i) \/ ReadFails(i)
    \/ \E id \in LibId, name \in Typed : TypeName(id, name)
    \/ \E id \in LibId, kind \in EditorKind : \E arg : EditorSends(id, kind, arg)
    \/ Create \/ Backfill \/ (\E kind \in {"enrich", "backfill"} : RunPass(kind))
    \/ (\E t \in Title : FixMatch(t)) \/ CloseFix \/ PinFix
    \/ \E w \in sent : EditServed(w) \/ EditAnswered(w) \/ EditRefused(w) \/ EditLost(w)
LEMMA AdminCases == ASSUME AdminTypes, [Next]_webVars PROVE AdminMoves
  <1>1. AdminNext \/ UNCHANGED adminVars
    BY PartsStep
  <1>2. (\E id \in LibId :
          \/ (\E name \in Typed : TypeName(id, name)) \/ Rename(id)
          \/ AddFolder(id) \/ RemoveFolder(id) \/ Scan(id) \/ Delete(id)) => AdminMoves
    BY EditorsSend DEF AdminMoves
  <1>3. (\E i \in 1 .. Len(reads) :
          (\E part \in {"list", "counts"} : ReadServed(i, part)) \/ ReadArrives(i) \/ ReadFails(i)) => AdminMoves
    BY DEF AdminMoves, AdminPart
  <1> QED
    BY <1>1, <1>2, <1>3 DEF AdminNext, AdminMoves

\* What the steps do to the writes in flight.
NoPin(w) == [w EXCEPT !.owned = @ /\ w.kind # "pin"]
Staying(libs, w) == [w EXCEPT !.owned = @ /\ (w.kind = "create" \/ w.id = Gone \/ libs[w.id] # Gone)]
LEMMA NoPinIs == ASSUME NEW w, WellSent(w)
                 PROVE  Alike(NoPin(w), w) /\ NoPin(w).paged = w.paged /\ (NoPin(w).owned <=> w.owned /\ w.kind # "pin")
  <1> DEFINE b == w.owned /\ w.kind # "pin"
  <1>1. NoPin(w) = [w EXCEPT !.owned = b]
    BY DEF NoPin
  <1>2. b \in BOOLEAN /\ (b => w.owned)
    OBVIOUS
  <1>3. b <=> w.owned /\ w.kind # "pin"
    OBVIOUS
  <1> HIDE DEF b
  <1> QED
    BY <1>1, <1>2, <1>3, AlikeOwned
LEMMA StayingIs ==
    ASSUME NEW w, WellSent(w), NEW libs
    PROVE  /\ Alike(Staying(libs, w), w) /\ Staying(libs, w).paged = w.paged
           /\ Staying(libs, w).owned <=> w.owned /\ (w.kind = "create" \/ w.id = Gone \/ libs[w.id] # Gone)
  <1> DEFINE b == w.owned /\ (w.kind = "create" \/ w.id = Gone \/ libs[w.id] # Gone)
  <1>1. Staying(libs, w) = [w EXCEPT !.owned = b]
    BY DEF Staying
  <1>2. b \in BOOLEAN /\ (b => w.owned)
    OBVIOUS
  <1>3. b <=> w.owned /\ (w.kind = "create" \/ w.id = Gone \/ libs[w.id] # Gone)
    OBVIOUS
  <1> HIDE DEF b
  <1> QED
    BY <1>1, <1>2, <1>3, AlikeOwned

LEMMA ThinSets ==
    ASSUME NEW W, NEW m, Numbered(m, W), \A w \in W : WellSent(w), NEW V, NEW libs,
           \/ V \in SUBSET W \/ V = {Unpaged(w) : w \in W} \/ V = {NoPin(w) : w \in W}
           \/ V = {Staying(libs, w) : w \in W}
    PROVE  Thinned(V, W)
  <1>1. CASE V \in SUBSET W
    <2>1. \A w \in W : Alike(w, w)
      BY DEF Alike
    <2> QED
      BY <1>1, <2>1 DEF Thinned, Numbered
  <1>2. CASE V = {Unpaged(w) : w \in W}
    <2>1. \A w \in W : Alike(Unpaged(w), w) /\ Unpaged(w).n = w.n
      BY AlikeUnpaged DEF Alike
    <2>2. \A x \in V : \E w \in W : x = Unpaged(w)
      BY <1>2
    <2> HIDE DEF Alike
    <2> QED
      BY <2>1, <2>2 DEF Thinned, Numbered
  <1>3. CASE V = {NoPin(w) : w \in W}
    <2>1. \A w \in W : Alike(NoPin(w), w) /\ NoPin(w).n = w.n
      BY NoPinIs DEF Alike
    <2>2. \A x \in V : \E w \in W : x = NoPin(w)
      BY <1>3
    <2> HIDE DEF Alike
    <2> QED
      BY <2>1, <2>2 DEF Thinned, Numbered
  <1>4. CASE V = {Staying(libs, w) : w \in W}
    <2>1. \A w \in W : Alike(Staying(libs, w), w) /\ Staying(libs, w).n = w.n
      BY StayingIs DEF Alike
    <2>2. \A x \in V : \E w \in W : x = Staying(libs, w)
      BY <1>4
    <2> HIDE DEF Alike
    <2> QED
      BY <2>1, <2>2 DEF Thinned, Numbered
  <1> QED
    BY <1>1, <1>2, <1>3, <1>4


\* The numbers the server has dealt with, and the writes in flight as some of them.
ServedOf(m, W) == {k \in 1 .. m : \A w \in W : w.n = k => w.reply # "none"}
SentInv ==
    /\ Numbered(used.writes, sent)
    /\ Len(past) <= 1 + Cardinality(ServedOf(used.writes, sent))

LEMMA ThinnedKeeps ==
    ASSUME NEW V, NEW W, NEW m, Thinned(V, W), Numbered(m, W)
    PROVE  Numbered(m, V) /\ ServedOf(m, W) \subseteq ServedOf(m, V) /\ \A x \in V : WellSent(x)
  <1>1. \A x \in V : \E w \in W : Alike(x, w) /\ x.n = w.n /\ x.reply = w.reply /\ WellSent(x)
    BY DEF Thinned, Alike
  <1> QED
    BY <1>1 DEF Thinned, Numbered, ServedOf
LEMMA ThinnedOnce ==
    ASSUME NEW V, NEW W, NEW U, Thinned(V, W), W \subseteq U PROVE Thinned(V, U)
  BY DEF Thinned

\* A step that lets writes go, or forgets some.
LEMMA SentThins ==
    ASSUME AdminTypes, Numbered(used.writes, sent),
           \/ \E p \in {"libraries", "status"} : Visit(p)
           \/ (\E i \in 1 .. Len(reads) : ReadArrives(i)) \/ CloseFix \/ UNCHANGED sent
           \/ \E w \in sent : EditAnswered(w) \/ EditRefused(w) \/ EditLost(w)
    PROVE  Thinned(sent', sent)
  <1>1. \A w \in sent : WellSent(w)
    BY DEF AdminTypes
  <1>2. UNCHANGED sent => Thinned(sent', sent)
    BY <1>1, ThinSets
  <1>3. ASSUME NEW p, Visit(p) PROVE Thinned(sent', sent)
    <2>1. sent' = {Unpaged(w) : w \in sent}
      BY <1>3, ZenonT(30) DEF Visit, Unpaged
    <2> QED
      BY <1>1, <2>1, ThinSets
  <1>4. ASSUME NEW i \in 1 .. Len(reads), ReadArrives(i) PROVE Thinned(sent', sent)
    <2>1. sent' = sent \/ sent' = {Staying(past[reads[i]["list"]].libs, w) : w \in sent}
      BY <1>4, ZenonT(30) DEF ReadArrives, Staying
    <2> QED
      BY <1>1, <2>1, ThinSets
  <1>5. CloseFix => Thinned(sent', sent)
    <2>1. CloseFix => sent' = {NoPin(w) : w \in sent}
      BY ZenonT(30) DEF CloseFix, DialogDisowned, NoPin
    <2> QED
      BY <1>1, <2>1, ThinSets
  <1>6. ASSUME NEW w \in sent, EditAnswered(w) \/ EditRefused(w) \/ EditLost(w) PROVE Thinned(sent', sent)
    <2> DEFINE U == sent \ {w}
    <2>1. sent' = U \/ sent' = {NoPin(x) : x \in U}
      BY <1>6, ZenonT(30) DEF EditAnswered, EditRefused, EditLost, DialogDisowned, NoPin
    <2>2. (\A x \in U : WellSent(x)) /\ Numbered(used.writes, U) /\ U \subseteq sent
      BY <1>1 DEF Numbered
    <2> HIDE DEF U
    <2>3. sent' \in SUBSET U \/ sent' = {NoPin(x) : x \in U}
      BY <2>1
    <2>4. Thinned(sent', U)
      BY <2>2, <2>3, ThinSets
    <2> QED
      BY <2>2, <2>4, ThinnedOnce
  <1> QED
    BY <1>2, <1>3, <1>4, <1>5, <1>6

\* The server's states after a write it has looked at.
LEMMA EffectIs ==
    ASSUME AdminTypes, NEW w, WellSent(w), ~Refuses(w)
    PROVE  Effect(Now, w) \in Server
  <1>1. Now \in Server /\ Now.libs \in [LibId -> Lib \cup {Gone}] /\ Now.unmatched \in SUBSET Title
    BY StatesAre DEF Server
  <1> DEFINE s == Now
  <1> HIDE DEF s
  <1>2. CASE w.kind = "create"
    <2> DEFINE id == NextId(s.libs)
               lib == [name |-> w.arg, folders |-> Folder]
    <2>1. id \in LibId
      <3>1. id \in Nat \ {0}
        <4> DEFINE J == {j \in LibId : \E k \in j .. MaxLibs : s.libs[k] # Gone}
        <4>1. IsFiniteSet(LibId)
          BY AdminBounds, FS_Interval DEF LibId
        <4>2. IsFiniteSet(J)
          BY <4>1, FS_Subset
        <4>3. Cardinality(J) \in Nat /\ id = 1 + Cardinality(J)
          BY <4>2, FS_CardinalityType DEF NextId
        <4> HIDE DEF J, id
        <4> QED
          BY <4>3
      <3>2. ~(id > MaxLibs)
        BY <1>2 DEF Refuses, s
      <3> HIDE DEF id
      <3> QED
        BY <3>1, <3>2, AdminBounds DEF LibId
    <2>2. lib \in Lib
      BY <1>2 DEF WellSent, ArgsOf, Lib
    <2>3. Effect(s, w) = [s EXCEPT !.libs = [s.libs EXCEPT ![id] = lib]]
      BY <1>2 DEF Effect
    <2> HIDE DEF lib, id, Lib
    <2>4. [s.libs EXCEPT ![id] = lib] \in [LibId -> Lib \cup {Gone}]
      BY <1>1, <2>1, <2>2 DEF s
    <2> QED
      BY <1>1, <2>3, <2>4 DEF Server, s
  <1>3. CASE w.kind = "pin"
    <2>1. Effect(s, w) = [s EXCEPT !.unmatched = s.unmatched \ {w.id}]
      BY <1>3 DEF Effect
    <2> HIDE DEF Lib
    <2> QED
      BY <1>1, <2>1 DEF Server, s
  <1>4. CASE w.kind \notin {"create", "pin"} /\ w.id = Gone
    BY <1>1, <1>4 DEF Effect, s
  <1>5. CASE w.kind \notin {"create", "pin"} /\ w.id # Gone
    <2>1. w.id \in LibId
      BY <1>5 DEF WellSent, IdsOf
    <2>2. s.libs[w.id] \in Lib
      <3>1. s.libs[w.id] # Gone
        BY <2>1 DEF Refuses, s
      <3> QED
        BY <1>1, <2>1, <3>1 DEF s
    <2> DEFINE lib == Renamed(s.libs[w.id], w)
    <2>3. lib \in Lib \cup {Gone}
      BY <2>2 DEF Renamed, Lib, WellSent, ArgsOf
    <2>4. Effect(s, w) = [s EXCEPT !.libs = [s.libs EXCEPT ![w.id] = lib]]
      BY <1>5 DEF Effect
    <2> HIDE DEF lib, Lib
    <2>5. [s.libs EXCEPT ![w.id] = lib] \in [LibId -> Lib \cup {Gone}]
      BY <1>1, <2>1, <2>3 DEF s
    <2> QED
      BY <1>1, <2>4, <2>5 DEF Server, s
  <1> QED
    BY <1>2, <1>3, <1>4, <1>5 DEF s


-----------------------------------------------------------------------------
(* The settings: the types are kept *)

LEMMA VisitIs ==
    ASSUME NEW p, Visit(p)
    PROVE  /\ AdminStep /\ p # at
           /\ at' = p /\ view' = Unanswered /\ reads' = <<Unanswered>>
           /\ editors' = [id \in LibId |-> Blank] /\ panel' = FreshPanel
           /\ sent' = {Unpaged(w) : w \in sent}
           /\ excused' = (IF sent = {} THEN {} ELSE {"left"})
           /\ UNCHANGED past
  BY ZenonT(30) DEF Visit, Opened, Unpaged

LEMMA SentTypes == ASSUME AdminTypes, SentInv, AdminMoves PROVE \A w \in sent' : WellSent(w)
  <1> DEFINE Goal == \A w \in sent' : WellSent(w)
  <1> SUFFICES Goal
    OBVIOUS
  <1>1. (\A w \in sent : WellSent(w)) /\ used.writes \in Nat
    BY AdminBounds DEF AdminTypes, UsedOf
  <1>2. Thinned(sent', sent) => Goal
    BY ThinnedKeeps DEF SentInv
  <1>3. SomeoneSends => Goal
    <2> SUFFICES ASSUME NEW kind \in Kind, NEW id \in IdsOf(kind), NEW arg \in ArgsOf(kind), Submits(kind, id, arg)
                 PROVE Goal
      BY DEF SomeoneSends
    <2>1. sent' = sent \cup {NewSent(kind, id, arg)}
      BY DEF Submits, NewSent
    <2> QED
      BY <1>1, <2>1, NewIsSent
  <1>4. ASSUME NEW w \in sent, EditServed(w) PROVE Goal
    <2> DEFINE r == IF Refuses(w) THEN "refused" ELSE "ok"
               x == [w EXCEPT !.reply = r]
    <2>1. sent' = (sent \ {w}) \cup {x}
      BY <1>4 DEF EditServed
    <2>2. r \in {"none", "ok", "refused"}
      OBVIOUS
    <2> HIDE DEF r
    <2>3. WellSent(x)
      BY <1>1, <2>2, SentReplied
    <2> QED
      BY <1>1, <2>1, <2>3
  <1>5. RefreshClick \/ TimerFires \/ UNCHANGED adminVars => UNCHANGED sent
    BY DEF RefreshClick, TimerFires, adminVars
  <1>6. ASSUME NEW i \in 1 .. Len(reads) PROVE (\E part \in AdminPart : ReadServed(i, part)) \/ ReadFails(i) => UNCHANGED sent
    BY DEF ReadServed, ReadFails
  <1>7. ASSUME NEW id \in LibId, NEW name \in Typed PROVE TypeName(id, name) => UNCHANGED sent
    BY DEF TypeName
  <1>8. ASSUME NEW t \in Title PROVE FixMatch(t) => UNCHANGED sent
    BY DEF FixMatch
  <1>9. (\E p \in {"libraries", "status"} : Visit(p)) \/ (\E i \in 1 .. Len(reads) : ReadArrives(i)) \/ CloseFix
        \/ UNCHANGED sent \/ (\E w \in sent : EditAnswered(w) \/ EditRefused(w) \/ EditLost(w)) => Goal
    BY <1>2, SentThins DEF SentInv
  <1> HIDE DEF Goal
  <1> QED
    BY <1>3, <1>4, <1>5, <1>6, <1>7, <1>8, <1>9, SendersSend DEF AdminMoves

LEMMA EditorTypes == ASSUME AdminTypes, AdminMoves PROVE editors' \in [LibId -> EditorOf]
  <1> DEFINE Goal == editors' \in [LibId -> EditorOf]
  <1> SUFFICES Goal
    OBVIOUS
  <1>1. editors \in [LibId -> EditorOf]
    BY DEF AdminTypes
  <1>2. Blank \in EditorOf
    BY DEF Blank, EditorOf, Typed
  <1>3. UNCHANGED editors => Goal
    BY <1>1
  <1>4. ASSUME NEW p, Visit(p) PROVE Goal
    BY <1>2, <1>4, VisitIs
  <1>5. ASSUME NEW i \in 1 .. Len(reads), ReadArrives(i) PROVE Goal
    <2>1. CASE at = "status"
      BY <1>3, <1>5, <2>1 DEF ReadArrives
    <2>2. CASE at # "status"
      <3> DEFINE g == reads[i]["list"]
                 new == past[g].libs
      <3>1. editors' = [id \in LibId |-> Kept(ShownLibs, new, id)] /\ reads[i]["list"] > 0
        BY <1>5, <2>2 DEF ReadArrives, PartsOf
      <3>2. g \in 1 .. Len(past)
        <4>1. reads[i] \in ReadOf(Len(past)) /\ Len(past) \in Nat
          BY StatesAre
        <4> QED
          BY <3>1, <4>1 DEF ReadOf, AdminPart
      <3>3. new \in [LibId -> Lib \cup {Gone}]
        BY <3>2, StatesAre
      <3> HIDE DEF new
      <3>4. ASSUME NEW id \in LibId PROVE Kept(ShownLibs, new, id) \in EditorOf
        <4>1. CASE new[id] = Gone
          BY <1>2, <4>1 DEF Kept
        <4>2. CASE new[id] # Gone /\ ShownLibs[id] = Gone
          <5>1. new[id].name \in Typed
            BY <3>3, <4>2 DEF Lib, Typed
          <5>2. Kept(ShownLibs, new, id) = [Blank EXCEPT !.box = new[id].name]
            BY <4>2 DEF Kept, Named
          <5> HIDE DEF Typed, Blank
          <5> QED
            BY <1>2, <5>1, <5>2 DEF EditorOf
        <4>3. CASE new[id] # Gone /\ ShownLibs[id] # Gone
          BY <1>1, <4>3 DEF Kept
        <4> QED
          BY <4>1, <4>2, <4>3
      <3> QED
        BY <3>1, <3>4
    <2> QED
      BY <2>1, <2>2
  <1>6. ASSUME NEW id \in LibId, NEW name \in Typed, TypeName(id, name) PROVE Goal
    <2> DEFINE e == editors[id]
               x == [e EXCEPT !.box = name, !.edited = TRUE]
    <2>1. x \in EditorOf
      <3>1. e \in EditorOf
        BY <1>1
      <3> HIDE DEF Typed, e
      <3> QED
        BY <3>1 DEF EditorOf
    <2>2. editors' = [editors EXCEPT ![id] = x]
      BY <1>1, <1>6 DEF TypeName
    <2> HIDE DEF x, EditorOf
    <2> QED
      BY <1>1, <2>1, <2>2
  <1>7. ASSUME NEW id \in LibId, NEW b \in BOOLEAN, editors' = [editors EXCEPT ![id].busy = b] PROVE Goal
    <2> DEFINE e == editors[id]
               x == [e EXCEPT !.busy = b]
    <2>1. x \in EditorOf
      <3>1. e \in EditorOf
        BY <1>1
      <3> HIDE DEF Typed, e
      <3> QED
        BY <3>1 DEF EditorOf
    <2>2. editors' = [editors EXCEPT ![id] = x]
      BY <1>7
    <2> HIDE DEF x, EditorOf
    <2> QED
      BY <1>1, <2>1, <2>2
  <1>8. ASSUME NEW id \in LibId, NEW kind \in EditorKind, NEW arg, EditorSends(id, kind, arg) PROVE Goal
    BY <1>7, <1>8 DEF EditorSends, Runs
  <1>9. ASSUME NEW w \in sent, EditAnswered(w) \/ EditRefused(w) \/ EditLost(w) PROVE Goal
    <2>1. UNCHANGED editors \/ (w.id \in LibId /\ editors' = [editors EXCEPT ![w.id].busy = FALSE])
      BY <1>9, ZenonT(30) DEF EditAnswered, EditRefused, EditLost, Settles
    <2> QED
      BY <1>3, <1>7, <2>1
  <1>10. RefreshClick \/ TimerFires \/ UNCHANGED adminVars \/ Create \/ Backfill \/ CloseFix \/ PinFix => UNCHANGED editors
    BY DEF RefreshClick, TimerFires, adminVars, Create, Backfill, CloseFix, PinFix
  <1>11. ASSUME NEW i \in 1 .. Len(reads) PROVE (\E part \in AdminPart : ReadServed(i, part)) \/ ReadFails(i) => UNCHANGED editors
    BY DEF ReadServed, ReadFails
  <1>12. (\E t \in Title : FixMatch(t)) \/ (\E kind \in {"enrich", "backfill"} : RunPass(kind))
         \/ (\E w \in sent : EditServed(w)) => UNCHANGED editors
    BY DEF FixMatch, RunPass, EditServed
  <1> HIDE DEF Goal
  <1> QED
    BY <1>3, <1>4, <1>5, <1>6, <1>8, <1>9, <1>10, <1>11, <1>12 DEF AdminMoves


\* What an answer makes of the panel's flags (LibrariesPage, StatusPage).
MoreTimers(w, ok) ==
    IF ok /\ w.paged /\ w.kind \in {"backfill", "enrich"} /\ at = "status" THEN panel.timers + 1 ELSE panel.timers
Closes(w, ok) == ok /\ w.paged /\ w.kind = "pin"
LEMMA PanelSettles ==
    ASSUME panel \in PanelOf, NEW w, NEW ok, Settles(w, ok)
    PROVE  /\ panel' \in PanelOf
           /\ panel'.creating <=> panel.creating /\ ~(w.paged /\ w.kind = "create")
           /\ panel'.busy <=> panel.busy /\ ~(w.paged /\ w.kind \in {"backfill", "enrich"} /\ at = "status")
           /\ panel'.timers = MoreTimers(w, ok)
           /\ Closes(w, ok) => ~panel'.fixBusy /\ panel'.fix = Gone
           /\ ~Closes(w, ok) => /\ panel'.fixBusy <=> panel.fixBusy /\ ~(w.owned /\ w.kind = "pin")
                                /\ panel'.fix = panel.fix
  <1> DEFINE c == panel.creating /\ ~(w.paged /\ w.kind = "create")
             b == panel.backfilling /\ ~(w.paged /\ w.kind = "backfill" /\ at = "libraries")
             y == panel.busy /\ ~(w.paged /\ w.kind \in {"backfill", "enrich"} /\ at = "status")
             t == MoreTimers(w, ok)
             x == panel.fixBusy /\ ~(w.owned /\ w.kind = "pin")
             p == [panel EXCEPT !.creating = c, !.backfilling = b, !.busy = y, !.timers = t, !.fixBusy = x]
  <1>1. panel' = IF Closes(w, ok) THEN DialogClosed(p) ELSE p
    BY ZenonT(30) DEF Settles, MoreTimers, Closes
  <1>2. c \in BOOLEAN /\ b \in BOOLEAN /\ y \in BOOLEAN /\ x \in BOOLEAN
    OBVIOUS
  <1>3. t \in Nat
    BY DEF PanelOf, MoreTimers
  <1> HIDE DEF c, b, y, t, x
  <1>4. p \in PanelOf /\ p.creating = c /\ p.busy = y /\ p.timers = t /\ p.fixBusy = x /\ p.fix = panel.fix
    BY <1>2, <1>3 DEF PanelOf
  <1> HIDE DEF p
  <1>5. LET q == DialogClosed(p)
        IN  q \in PanelOf /\ q.creating = c /\ q.busy = y /\ q.timers = t /\ ~q.fixBusy /\ q.fix = Gone
    BY <1>4 DEF DialogClosed, PanelOf
  <1> HIDE DEF PanelOf, Closes, MoreTimers
  <1>6. /\ panel' \in PanelOf /\ panel'.creating = c /\ panel'.busy = y /\ panel'.timers = t
        /\ Closes(w, ok) => ~panel'.fixBusy /\ panel'.fix = Gone
        /\ ~Closes(w, ok) => panel'.fixBusy = x /\ panel'.fix = panel.fix
    BY <1>1, <1>4, <1>5
  <1> QED
    BY <1>6 DEF c, y, t, x

LEMMA PanelTypes == ASSUME AdminTypes, AdminMoves PROVE panel' \in PanelOf
  <1> DEFINE Goal == panel' \in PanelOf
  <1> SUFFICES Goal
    OBVIOUS
  <1>1. panel \in PanelOf
    BY DEF AdminTypes
  <1>2. UNCHANGED panel => Goal
    BY <1>1
  <1>3. ASSUME NEW p, Visit(p) PROVE Goal
    <2>1. panel' = FreshPanel
      BY <1>3, VisitIs
    <2>2. FreshPanel \in PanelOf
      BY DEF FreshPanel, PanelOf
    <2> QED
      BY <2>1, <2>2
  <1>4. TimerFires => Goal
    <2> SUFFICES ASSUME TimerFires PROVE Goal
      OBVIOUS
    <2> DEFINE n == panel.timers - 1
    <2>1. n \in Nat
      BY <1>1 DEF TimerFires, PanelOf
    <2>2. panel' = [panel EXCEPT !.timers = n]
      BY DEF TimerFires
    <2> HIDE DEF n
    <2> QED
      BY <1>1, <2>1, <2>2 DEF PanelOf
  <1>5. Create \/ Backfill \/ PinFix \/ (\E kind \in {"enrich", "backfill"} : RunPass(kind)) => Goal
    BY <1>1 DEF Create, Backfill, PinFix, RunPass, PanelOf
  <1>6. ASSUME NEW t \in Title, FixMatch(t) PROVE Goal
    BY <1>1, <1>6 DEF FixMatch, PanelOf
  <1>7. CloseFix => Goal
    BY <1>1 DEF CloseFix, DialogClosed, PanelOf
  <1>8. ASSUME NEW w, NEW ok, Settles(w, ok) PROVE Goal
    BY <1>1, <1>8, PanelSettles
  <1>9. ASSUME NEW w \in sent, EditAnswered(w) \/ EditRefused(w) \/ EditLost(w) PROVE Goal
    <2>1. Settles(w, TRUE) \/ Settles(w, FALSE)
      BY <1>9, ZenonT(30) DEF EditAnswered, EditRefused, EditLost
    <2> QED
      BY <1>8, <2>1
  <1>10. RefreshClick \/ UNCHANGED adminVars => UNCHANGED panel
    BY DEF RefreshClick, adminVars
  <1>11. ASSUME NEW i \in 1 .. Len(reads)
         PROVE (\E part \in AdminPart : ReadServed(i, part)) \/ ReadArrives(i) \/ ReadFails(i) => UNCHANGED panel
    BY DEF ReadServed, ReadArrives, ReadFails
  <1>12. ASSUME NEW id \in LibId
         PROVE  (\E name \in Typed : TypeName(id, name)) \/ (\E kind \in EditorKind : \E arg : EditorSends(id, kind, arg))
                => UNCHANGED panel
    BY DEF TypeName, EditorSends, Runs
  <1>13. (\E w \in sent : EditServed(w)) => UNCHANGED panel
    BY DEF EditServed
  <1> HIDE DEF Goal
  <1> QED
    BY <1>2, <1>3, <1>4, <1>5, <1>6, <1>7, <1>9, <1>10, <1>11, <1>12, <1>13 DEF AdminMoves


\* The history grows by what a write that is not refused has made of its last state.
LEMMA HistoryIs ==
    ASSUME AdminTypes, AdminMoves
    PROVE  /\ past' \in Seq(Server) /\ Len(past') >= Len(past)
           /\ \A n \in 1 .. Len(past) : past'[n] = past[n]
           /\ \/ UNCHANGED past
              \/ \E w \in sent : /\ EditServed(w) /\ ~Refuses(w) /\ past' = Append(past, Effect(Now, w))
                                 /\ Len(past') = Len(past) + 1 /\ past'[Len(past) + 1] = Effect(Now, w)
  <1> DEFINE Goal == /\ past' \in Seq(Server) /\ Len(past') >= Len(past)
                     /\ \A n \in 1 .. Len(past) : past'[n] = past[n]
                     /\ \/ UNCHANGED past
                        \/ \E w \in sent : /\ EditServed(w) /\ ~Refuses(w) /\ past' = Append(past, Effect(Now, w))
                                           /\ Len(past') = Len(past) + 1 /\ past'[Len(past) + 1] = Effect(Now, w)
  <1> SUFFICES Goal
    OBVIOUS
  <1>1. past \in Seq(Server) /\ Len(past) \in Nat /\ \A w \in sent : WellSent(w)
    BY DEF AdminTypes
  <1>2. UNCHANGED past => Goal
    BY <1>1
  <1>3. ASSUME NEW w \in sent, EditServed(w) PROVE Goal
    <2>1. UNCHANGED past \/ (~Refuses(w) /\ past' = Append(past, Effect(Now, w)))
      BY <1>3, ZenonT(30) DEF EditServed
    <2>2. CASE ~Refuses(w) /\ past' = Append(past, Effect(Now, w))
      <3>1. Effect(Now, w) \in Server
        BY <1>1, <2>2, EffectIs
      <3>2. /\ past' \in Seq(Server) /\ Len(past') = Len(past) + 1 /\ past'[Len(past) + 1] = Effect(Now, w)
            /\ \A n \in 1 .. Len(past) : past'[n] = past[n]
        BY <1>1, <2>2, <3>1, AppendIs
      <3>3. Len(past') >= Len(past)
        BY <1>1, <3>2
      <3> QED
        BY <1>3, <2>2, <3>2, <3>3
    <2> QED
      BY <1>2, <2>1, <2>2
  <1>4. (\E p \in {"libraries", "status"} : Visit(p)) => UNCHANGED past
    BY VisitIs
  <1>5. RefreshClick \/ TimerFires \/ UNCHANGED adminVars \/ CloseFix => UNCHANGED past
    BY DEF RefreshClick, TimerFires, adminVars, CloseFix
  <1>6. ASSUME NEW i \in 1 .. Len(reads)
        PROVE  (\E part \in AdminPart : ReadServed(i, part)) \/ ReadArrives(i) \/ ReadFails(i) => UNCHANGED past
    BY DEF ReadServed, ReadArrives, ReadFails
  <1>7. SomeoneSends => UNCHANGED past
    BY DEF SomeoneSends, Submits
  <1>8. (\E id \in LibId, name \in Typed : TypeName(id, name)) \/ (\E t \in Title : FixMatch(t)) => UNCHANGED past
    BY DEF TypeName, FixMatch
  <1>9. ASSUME NEW w \in sent PROVE EditAnswered(w) \/ EditRefused(w) \/ EditLost(w) => UNCHANGED past
    BY DEF EditAnswered, EditRefused, EditLost
  <1> HIDE DEF Goal
  <1> QED
    BY <1>2, <1>3, <1>4, <1>5, <1>6, <1>7, <1>8, <1>9, SendersSend DEF AdminMoves

\* What a step does to the GETs of the page.
LEMMA ReadTypes == ASSUME AdminTypes, AdminMoves
                   PROVE view' \in ReadOf(Len(past')) /\ reads' \in Seq(ReadOf(Len(past')))
  <1> DEFINE S == ReadOf(Len(past))
             Goal == view' \in S /\ reads' \in Seq(S)
  <1>1. past' \in Seq(Server) /\ Len(past') \in Nat /\ Len(past) \in Nat /\ Len(past) <= Len(past')
    BY HistoryIs, StatesAre DEF AdminTypes
  <1>2. view \in S /\ reads \in Seq(S) /\ Unanswered \in S
    BY <1>1, UnansweredIs DEF AdminTypes
  <1>3. S \subseteq ReadOf(Len(past'))
    BY <1>1, ReadsGrow
  <1> HIDE DEF S
  <1>4. SUFFICES Goal
    BY <1>3, SeqGrows
  <1>5. UNCHANGED view /\ (UNCHANGED reads \/ Refreshed) => Goal
    BY <1>2, AppendIs DEF Refreshed
  <1>6. ASSUME NEW p, Visit(p) PROVE Goal
    <2>1. view' = Unanswered /\ reads' = <<Unanswered>>
      BY <1>6, VisitIs
    <2>2. <<Unanswered>> \in Seq(S)
      BY <1>2
    <2> QED
      BY <1>2, <2>1, <2>2
  <1>7. ASSUME NEW i \in 1 .. Len(reads), NEW part \in AdminPart, ReadServed(i, part) PROVE Goal
    <2> DEFINE r == reads[i]
               x == [r EXCEPT ![part] = Len(past)]
    <2>1. reads' = [reads EXCEPT ![i] = x] /\ UNCHANGED view
      BY <1>7 DEF ReadServed
    <2>2. r \in S
      BY <1>2
    <2>3. x \in S
      BY <1>1, <2>2, ReadAnswered DEF S
    <2> HIDE DEF x
    <2> QED
      BY <1>2, <2>1, <2>3, ExceptSeq
  <1>8. ASSUME NEW i \in 1 .. Len(reads), ReadArrives(i) PROVE Goal
    <2>1. reads' = Without(reads, i) /\ view' = reads[i]
      BY <1>8 DEF ReadArrives
    <2> QED
      BY <1>2, <2>1, WithoutIs
  <1>9. ASSUME NEW i \in 1 .. Len(reads), ReadFails(i) PROVE Goal
    <2>1. reads' = Without(reads, i) /\ UNCHANGED view
      BY <1>9 DEF ReadFails
    <2> QED
      BY <1>2, <2>1, WithoutIs
  <1>10. RefreshClick \/ TimerFires \/ UNCHANGED adminVars \/ CloseFix => UNCHANGED view /\ (UNCHANGED reads \/ Refreshed)
    BY DEF RefreshClick, TimerFires, adminVars, CloseFix
  <1>11. SomeoneSends => UNCHANGED <<view, reads>>
    BY DEF SomeoneSends, Submits
  <1>12. (\E id \in LibId, name \in Typed : TypeName(id, name)) \/ (\E t \in Title : FixMatch(t)) => UNCHANGED <<view, reads>>
    BY DEF TypeName, FixMatch
  <1>13. ASSUME NEW w \in sent
         PROVE  EditServed(w) \/ EditAnswered(w) \/ EditRefused(w) \/ EditLost(w)
                => UNCHANGED view /\ (UNCHANGED reads \/ Refreshed)
    BY ZenonT(30) DEF EditServed, EditAnswered, EditRefused, EditLost
  <1> HIDE DEF Goal
  <1> QED
    BY <1>5, <1>6, <1>7, <1>8, <1>9, <1>10, <1>11, <1>12, <1>13, SendersSend DEF AdminMoves

LEMMA RestTypes == ASSUME AdminTypes, AdminMoves
                   PROVE at' \in {"libraries", "status"} /\ excused' \subseteq Excuse /\ used' \in UsedOf
  <1> DEFINE Goal == at' \in {"libraries", "status"} /\ excused' \subseteq Excuse /\ used' \in UsedOf
  <1> SUFFICES Goal
    OBVIOUS
  <1>1. at \in {"libraries", "status"} /\ excused \subseteq Excuse /\ used \in UsedOf
    BY DEF AdminTypes
  <1>2. UNCHANGED used => used' \in UsedOf
    BY <1>1
  <1>3. AdminStep => used' \in UsedOf
    <2> SUFFICES ASSUME AdminStep PROVE used' \in UsedOf
      OBVIOUS
    <2> DEFINE n == used.steps + 1
    <2>1. n \in 0 .. MaxAdminSteps
      BY <1>1, AdminBounds DEF AdminStep, UsedOf
    <2>2. used' = [used EXCEPT !.steps = n]
      BY DEF AdminStep
    <2> HIDE DEF n
    <2> QED
      BY <1>1, <2>1, <2>2 DEF UsedOf
  <1>4. AdminFault => used' \in UsedOf
    <2> SUFFICES ASSUME AdminFault PROVE used' \in UsedOf
      OBVIOUS
    <2> DEFINE n == used.faults + 1
    <2>1. n \in 0 .. MaxAdminFaults
      BY <1>1, AdminBounds DEF AdminFault, UsedOf
    <2>2. used' = [used EXCEPT !.faults = n]
      BY DEF AdminFault
    <2> HIDE DEF n
    <2> QED
      BY <1>1, <2>1, <2>2 DEF UsedOf
  <1>5. SomeoneSends => Goal
    <2> SUFFICES ASSUME SomeoneSends PROVE Goal
      OBVIOUS
    <2> DEFINE n == used.writes + 1
    <2>1. UNCHANGED <<at, excused>> /\ used.writes < MaxAdminWrites /\ used' = [used EXCEPT !.writes = n]
      BY DEF SomeoneSends, Submits
    <2>2. n \in 0 .. MaxAdminWrites
      BY <1>1, <2>1, AdminBounds DEF UsedOf
    <2> HIDE DEF n
    <2>3. used' \in UsedOf
      BY <1>1, <2>1, <2>2 DEF UsedOf
    <2> QED
      BY <1>1, <2>1, <2>3
  <1>6. ASSUME NEW p \in {"libraries", "status"}, Visit(p) PROVE Goal
    <2>1. AdminStep /\ at' = p /\ excused' = (IF sent = {} THEN {} ELSE {"left"})
      BY <1>6, VisitIs
    <2>2. excused' \subseteq Excuse
      BY <2>1 DEF Excuse
    <2> QED
      BY <1>3, <2>1, <2>2
  <1>7. RefreshClick \/ TimerFires \/ CloseFix \/ UNCHANGED adminVars => Goal
    BY <1>1, <1>2, <1>3 DEF RefreshClick, TimerFires, CloseFix, adminVars
  <1>8. ASSUME NEW i \in 1 .. Len(reads)
        PROVE  (\E part \in AdminPart : ReadServed(i, part)) \/ ReadArrives(i) \/ ReadFails(i) => Goal
    <2>1. (\E part \in AdminPart : ReadServed(i, part)) => Goal
      BY <1>1, <1>2 DEF ReadServed
    <2>2. ReadArrives(i) => UNCHANGED <<at, used>> /\ excused' \subseteq excused \cup Excuse
      BY ZenonT(30) DEF ReadArrives, Excuse
    <2>3. ReadFails(i) => AdminFault /\ UNCHANGED at /\ excused' \subseteq excused \cup Excuse
      BY DEF ReadFails, Excuse
    <2> QED
      BY <1>1, <1>2, <1>4, <2>1, <2>2, <2>3
  <1>9. ASSUME NEW id \in LibId, NEW name \in Typed PROVE TypeName(id, name) => Goal
    BY <1>1, <1>3 DEF TypeName
  <1>10. ASSUME NEW t \in Title PROVE FixMatch(t) => Goal
    BY <1>1, <1>3 DEF FixMatch
  <1>11. ASSUME NEW w \in sent PROVE EditServed(w) \/ EditAnswered(w) \/ EditRefused(w) \/ EditLost(w) => Goal
    <2>1. EditServed(w) => UNCHANGED <<at, used>> /\ excused' \subseteq excused \cup Excuse
      BY ZenonT(30) DEF EditServed, Excuse
    <2>2. EditAnswered(w) \/ EditRefused(w) => UNCHANGED <<at, used, excused>>
      BY ZenonT(30) DEF EditAnswered, EditRefused
    <2>3. EditLost(w) => AdminFault /\ UNCHANGED at /\ excused' \subseteq excused \cup Excuse
      BY ZenonT(30) DEF EditLost, Excuse
    <2> QED
      BY <1>1, <1>2, <1>4, <2>1, <2>2, <2>3
  <1> HIDE DEF Goal
  <1> QED
    BY <1>5, <1>6, <1>7, <1>8, <1>9, <1>10, <1>11, SendersSend DEF AdminMoves

\* A write that is sent gets the next number, no other step sends one.
LEMMA SendIs ==
    ASSUME AdminTypes, SomeoneSends
    PROVE  /\ used.writes \in Nat /\ used'.writes = used.writes + 1
           /\ \E w : WellSent(w) /\ w.n = used.writes + 1 /\ w.reply = "none" /\ sent' = sent \cup {w}
           /\ UNCHANGED past
  <1>1. PICK kind \in Kind : \E id \in IdsOf(kind), arg \in ArgsOf(kind) : Submits(kind, id, arg)
    BY DEF SomeoneSends
  <1>2. PICK id \in IdsOf(kind), arg \in ArgsOf(kind) : Submits(kind, id, arg)
    BY <1>1
  <1>3. used.writes \in Nat
    BY AdminBounds DEF AdminTypes, UsedOf
  <1>4. sent' = sent \cup {NewSent(kind, id, arg)} /\ UNCHANGED past
    BY <1>2 DEF Submits, NewSent
  <1>5. used'.writes = used.writes + 1
    BY <1>2 DEF Submits, AdminTypes, UsedOf
  <1> QED
    BY <1>3, <1>4, <1>5, NewIsSent
LEMMA NoneSent ==
    ASSUME AdminTypes, AdminMoves, ~SomeoneSends
    PROVE  used'.writes = used.writes
  <1>1. AdminStep \/ AdminFault => used'.writes = used.writes
    BY DEF AdminStep, AdminFault, AdminTypes, UsedOf
  <1>2. (\E p \in {"libraries", "status"} : Visit(p)) \/ RefreshClick \/ TimerFires \/ CloseFix \/ UNCHANGED adminVars
        => used'.writes = used.writes
    BY <1>1, VisitIs DEF RefreshClick, TimerFires, CloseFix, adminVars
  <1>3. ASSUME NEW i \in 1 .. Len(reads)
        PROVE  (\E part \in AdminPart : ReadServed(i, part)) \/ ReadArrives(i) \/ ReadFails(i) => used'.writes = used.writes
    BY <1>1 DEF ReadServed, ReadArrives, ReadFails
  <1>4. (\E id \in LibId, name \in Typed : TypeName(id, name)) \/ (\E t \in Title : FixMatch(t)) => used'.writes = used.writes
    BY <1>1 DEF TypeName, FixMatch
  <1>5. ASSUME NEW w \in sent
        PROVE  EditServed(w) \/ EditAnswered(w) \/ EditRefused(w) \/ EditLost(w) => used'.writes = used.writes
    BY <1>1 DEF EditServed, EditAnswered, EditRefused, EditLost
  <1> QED
    BY <1>2, <1>3, <1>4, <1>5, SendersSend DEF AdminMoves
LEMMA ServedIs ==
    ASSUME AdminTypes, NEW w \in sent, EditServed(w)
    PROVE  \E x : /\ WellSent(x) /\ x.n = w.n /\ x.kind = w.kind /\ x.id = w.id /\ x.arg = w.arg
                  /\ x.owned = w.owned /\ x.paged = w.paged /\ x.reply = (IF Refuses(w) THEN "refused" ELSE "ok")
                  /\ sent' = (sent \ {w}) \cup {x}
  <1> DEFINE r == IF Refuses(w) THEN "refused" ELSE "ok"
             x == [w EXCEPT !.reply = r]
  <1>1. sent' = (sent \ {w}) \cup {x} /\ WellSent(w)
    BY DEF EditServed, AdminTypes
  <1>2. r \in {"none", "ok", "refused"}
    OBVIOUS
  <1> HIDE DEF r
  <1>3. /\ WellSent(x) /\ x.n = w.n /\ x.kind = w.kind /\ x.id = w.id /\ x.arg = w.arg
        /\ x.owned = w.owned /\ x.paged = w.paged /\ x.reply = r
    BY <1>1, <1>2, SentReplied
  <1> QED
    BY <1>1, <1>3 DEF r

\* Each state of the server but the first is the work of a write of its own.
LEMMA SentStep == ASSUME AdminTypes, SentInv, AdminMoves PROVE SentInv'
  <1> DEFINE m == used.writes
             S == ServedOf(m, sent)
  <1>1. m \in Nat /\ Len(past) \in Nat /\ Len(past) <= 1 + Cardinality(S) /\ Numbered(m, sent)
    BY AdminBounds DEF AdminTypes, UsedOf, SentInv
  <1>2. \A k \in Nat : \A T \in SUBSET (1 .. k) : S \subseteq T =>
          /\ Cardinality(S) \in Nat /\ Cardinality(T) \in Nat /\ Cardinality(S) <= Cardinality(T)
          /\ \A j \in T : j \notin S => Cardinality(S) + 1 <= Cardinality(T)
    BY Grown
  <1>3. ASSUME NEW k \in Nat, NEW V, S \subseteq ServedOf(k, V), Numbered(k, V), used'.writes = k, sent' = V, UNCHANGED past
        PROVE  SentInv'
    <2> DEFINE T == ServedOf(k, V)
    <2>1. T \subseteq 1 .. k
      BY DEF ServedOf
    <2>2. Cardinality(S) \in Nat /\ Cardinality(T) \in Nat /\ Cardinality(S) <= Cardinality(T)
      BY <1>2, <1>3, <2>1
    <2> HIDE DEF S, T
    <2>3. Len(past') <= 1 + Cardinality(T)
      BY <1>1, <1>3, <2>2
    <2> QED
      BY <1>3, <2>3 DEF SentInv, T
  <1>4. CASE SomeoneSends
    <2>1. PICK w : WellSent(w) /\ w.n = m + 1 /\ w.reply = "none" /\ sent' = sent \cup {w}
      BY <1>4, SendIs
    <2>2. used'.writes = m + 1 /\ UNCHANGED past
      BY <1>4, SendIs
    <2>3. Numbered(m + 1, sent')
      <3>1. \A v \in sent : v.n \in 1 .. m + 1 /\ v.n # m + 1
        BY <1>1 DEF Numbered
      <3>2. m + 1 \in 1 .. m + 1
        BY <1>1
      <3> HIDE DEF m
      <3> QED
        BY <1>1, <2>1, <3>1, <3>2 DEF Numbered
    <2>4. S \subseteq ServedOf(m + 1, sent')
      BY <1>1, <2>1 DEF ServedOf
    <2>5. m + 1 \in Nat
      BY <1>1
    <2> HIDE DEF S, m
    <2> QED
      BY <1>3, <2>2, <2>3, <2>4, <2>5
  <1>5. CASE ~SomeoneSends
    <2>1. used'.writes = m
      BY <1>5, NoneSent
    <2>2. ASSUME Thinned(sent', sent), UNCHANGED past PROVE SentInv'
      BY <1>1, <1>3, <2>1, <2>2, ThinnedKeeps
    <2>3. ASSUME NEW w \in sent, EditServed(w) PROVE SentInv'
      <3>1. PICK x : WellSent(x) /\ x.n = w.n /\ x.reply \in {"refused", "ok"} /\ sent' = (sent \ {w}) \cup {x}
        BY <2>3, ServedIs
      <3> DEFINE T == ServedOf(m, sent')
      <3>2. Numbered(m, sent')
        BY <1>1, <3>1 DEF Numbered
      <3>3. S \subseteq T /\ T \subseteq 1 .. m
        BY <1>1, <3>1 DEF ServedOf, Numbered
      <3>4. w.n \in T /\ w.n \notin S
        <4>1. w.n \in 1 .. m /\ w.reply = "none"
          BY <1>1, <2>3 DEF Numbered, EditServed
        <4> QED
          BY <1>1, <3>1, <4>1 DEF ServedOf, Numbered
      <3>5. Cardinality(S) \in Nat /\ Cardinality(T) \in Nat /\ Cardinality(S) + 1 <= Cardinality(T)
        BY <1>1, <1>2, <3>3, <3>4
      <3>6. Len(past') = Len(past) \/ Len(past') = Len(past) + 1
        BY HistoryIs
      <3> HIDE DEF S, T
      <3>7. Len(past') <= 1 + Cardinality(T)
        BY <1>1, <3>5, <3>6
      <3> QED
        BY <2>1, <3>2, <3>7 DEF SentInv, T
    <2>4. (\E p \in {"libraries", "status"} : Visit(p)) \/ (\E i \in 1 .. Len(reads) : ReadArrives(i)) \/ CloseFix
          \/ UNCHANGED sent \/ (\E w \in sent : EditAnswered(w) \/ EditRefused(w) \/ EditLost(w)) => Thinned(sent', sent)
      BY SentThins DEF SentInv
    <2>5. UNCHANGED past \/ \E w \in sent : EditServed(w)
      BY HistoryIs
    <2>6. RefreshClick \/ TimerFires \/ UNCHANGED adminVars => UNCHANGED sent
      BY DEF RefreshClick, TimerFires, adminVars
    <2>7. ASSUME NEW i \in 1 .. Len(reads) PROVE (\E part \in AdminPart : ReadServed(i, part)) \/ ReadFails(i) => UNCHANGED sent
      BY DEF ReadServed, ReadFails
    <2>8. (\E id \in LibId, name \in Typed : TypeName(id, name)) \/ (\E t \in Title : FixMatch(t)) => UNCHANGED sent
      BY DEF TypeName, FixMatch
    <2> QED
      BY <1>5, <2>2, <2>3, <2>4, <2>5, <2>6, <2>7, <2>8, SendersSend DEF AdminMoves
  <1> QED
    BY <1>4, <1>5

LEMMA AdminTypesStep == AdminTypes /\ SentInv /\ [Next]_webVars => (AdminTypes /\ SentInv)'
  <1> SUFFICES ASSUME AdminTypes, SentInv, [Next]_webVars PROVE (AdminTypes /\ SentInv)'
    OBVIOUS
  <1>1. AdminMoves
    BY AdminCases
  <1>2. past' \in Seq(Server) /\ Len(past') >= 1
    <2>1. past' \in Seq(Server) /\ Len(past') >= Len(past) /\ Len(past) >= 1 /\ Len(past) \in Nat /\ Len(past') \in Nat
      BY <1>1, HistoryIs, StatesAre DEF AdminTypes
    <2> QED
      BY <2>1
  <1> QED
    BY <1>1, <1>2, SentTypes, EditorTypes, PanelTypes, ReadTypes, RestTypes, SentStep DEF AdminTypes

LEMMA AdminStarts == Init => AdminTypes /\ SentInv
  <1> SUFFICES ASSUME Init PROVE AdminTypes /\ SentInv
    OBVIOUS
  <1> DEFINE first == CHOOSE name \in LibName : TRUE
             lib == [name |-> first, folders |-> Folder]
             start(j) == [libs |-> [id \in LibId |-> IF id > j THEN Gone ELSE lib], unmatched |-> Title]
  <1>1. PICK k \in LibId : past = <<start(k)>>
    BY DEF Init, AdminInit
  <1>2. /\ at \in {"libraries", "status"} /\ view = Unanswered /\ reads = <<Unanswered>>
        /\ editors = [id \in LibId |-> Blank] /\ panel = FreshPanel /\ sent = {}
        /\ excused = {} /\ used = [steps |-> 0, writes |-> 0, faults |-> 0]
    BY DEF Init, AdminInit
  <1>3. first \in LibName
    BY AdminAssumption
  <1> HIDE DEF first
  <1>4. lib \in Lib
    BY <1>3 DEF Lib
  <1> HIDE DEF lib
  <1>5. start(k) \in Server
    <2>1. [id \in LibId |-> IF id > k THEN Gone ELSE lib] \in [LibId -> Lib \cup {Gone}]
      BY <1>4
    <2> HIDE DEF Lib, LibId
    <2> QED
      BY <2>1 DEF Server
  <1> HIDE DEF start
  <1>6. past \in Seq(Server) /\ Len(past) = 1
    BY <1>1, <1>5
  <1>7. view \in ReadOf(1) /\ reads \in Seq(ReadOf(1))
    <2>1. Unanswered \in ReadOf(1)
      BY UnansweredIs
    <2> QED
      BY <1>2, <2>1
  <1>8. Blank \in EditorOf /\ FreshPanel \in PanelOf
    BY DEF Blank, EditorOf, Typed, FreshPanel, PanelOf
  <1>9. editors \in [LibId -> EditorOf]
    BY <1>2, <1>8
  <1>10. used \in UsedOf /\ used.writes = 0
    BY <1>2, AdminBounds DEF UsedOf
  <1>11. ServedOf(0, sent) = {} /\ Cardinality({}) = 0
    BY FS_EmptySet DEF ServedOf
  <1>12. Numbered(0, sent)
    BY <1>2 DEF Numbered
  <1>13. SentInv
    <2>1. Numbered(used.writes, sent) /\ Cardinality(ServedOf(used.writes, sent)) = 0
      BY <1>10, <1>11, <1>12
    <2> QED
      BY <1>6, <2>1 DEF SentInv
  <1> QED
    BY <1>2, <1>6, <1>7, <1>8, <1>9, <1>10, <1>13 DEF AdminTypes

LEMMA AdminTypesAlways == Spec => [](AdminTypes /\ SentInv)
  BY AdminStarts, AdminTypesStep, PTL DEF Spec

LEMMA AdminTyped == AdminTypes /\ SentInv => AdminTypeOK
  <1> SUFFICES ASSUME AdminTypes, SentInv PROVE AdminTypeOK
    OBVIOUS
  <1> DEFINE m == used.writes
             S == ServedOf(m, sent)
  <1>1. m \in 0 .. MaxAdminWrites /\ m \in Nat /\ MaxAdminWrites \in Nat
    BY AdminBounds DEF AdminTypes, UsedOf
  <1>2. Cardinality(S) \in Nat /\ Cardinality(S) <= m
    <2>1. S \subseteq 1 .. m
      BY DEF ServedOf
    <2> HIDE DEF S, m
    <2> QED
      BY <1>1, <2>1, Grown
  <1>3. Len(past) \in 1 .. MaxAdminWrites + 1
    <2>1. Len(past) \in Nat /\ Len(past) >= 1 /\ Len(past) <= 1 + Cardinality(S)
      BY DEF AdminTypes, SentInv
    <2> HIDE DEF S, m
    <2> QED
      BY <1>1, <1>2, <2>1
  <1>4. ReadOf(Len(past)) \subseteq [{"list", "counts"} -> 0 .. MaxAdminWrites + 1]
    <2>1. Len(past) \in Nat /\ MaxAdminWrites + 1 \in Nat /\ Len(past) <= MaxAdminWrites + 1
      BY <1>1, <1>3
    <2>2. ReadOf(Len(past)) \subseteq ReadOf(MaxAdminWrites + 1)
      BY <2>1, ReadsGrow
    <2> QED
      BY <2>2 DEF ReadOf, AdminPart
  <1>5. sent \subseteq Sent
    <2> SUFFICES ASSUME NEW w \in sent PROVE w \in Sent
      OBVIOUS
    <2>1. w \in SentOf /\ w.n \in 1 .. m
      BY DEF AdminTypes, WellSent, SentInv, Numbered
    <2>2. w.n \in 1 .. MaxAdminWrites
      BY <1>1, <2>1
    <2> HIDE DEF Typed, Kind
    <2> QED
      BY <2>1, <2>2 DEF Sent, SentOf
  <1>6. /\ view \in [{"list", "counts"} -> 0 .. MaxAdminWrites + 1]
        /\ reads \in Seq([{"list", "counts"} -> 0 .. MaxAdminWrites + 1])
    BY <1>4, SeqGrows DEF AdminTypes
  <1> QED
    BY <1>3, <1>5, <1>6 DEF AdminTypes, AdminTypeOK, Excuse, PanelOf, EditorOf, UsedOf

-----------------------------------------------------------------------------
(* The settings: what the answers and the other steps do, one by one *)

LEMMA PartsAre == at \in {"libraries", "status"} => PartsOf(at) \subseteq AdminPart /\ "list" \in PartsOf(at)
  BY DEF PartsOf, AdminPart

AllCurrent(i) == \A part \in PartsOf(at) : reads[i][part] = Len(past)
Overtaken(i) == \E part \in PartsOf(at) : reads[i][part] < view[part]
FoundLibs(i) == past[reads[i]["list"]].libs
LEMMA ArrivesIs ==
    ASSUME AdminTypes, NEW i \in 1 .. Len(reads), ReadArrives(i)
    PROVE  /\ \A part \in PartsOf(at) : reads[i][part] \in 1 .. Len(past)
           /\ reads[i]["list"] \in 1 .. Len(past) /\ FoundLibs(i) \in [LibId -> Lib \cup {Gone}]
           /\ reads' = Without(reads, i) /\ view' = reads[i]
           /\ at = "status" => UNCHANGED <<editors, sent>>
           /\ at = "libraries" => /\ editors' = [id \in LibId |-> Kept(ShownLibs, FoundLibs(i), id)]
                                  /\ sent' = {Staying(FoundLibs(i), w) : w \in sent}
           /\ AllCurrent(i) => excused' = excused \ {"lost", "outrun"}
           /\ ~AllCurrent(i) /\ Overtaken(i) => excused' = excused \cup {"outrun", "overtaken"}
           /\ ~AllCurrent(i) /\ ~Overtaken(i) => excused' = excused
           /\ UNCHANGED <<past, at, panel, used>>
  <1>1. /\ \A part \in PartsOf(at) : reads[i][part] > 0
        /\ reads' = Without(reads, i) /\ view' = reads[i] /\ UNCHANGED <<past, at, panel, used>>
    BY DEF ReadArrives
  <1>2. /\ at = "status" => UNCHANGED <<editors, sent>>
        /\ at # "status" => /\ editors' = [id \in LibId |-> Kept(ShownLibs, FoundLibs(i), id)]
                            /\ sent' = {Staying(FoundLibs(i), w) : w \in sent}
    BY ZenonT(30) DEF ReadArrives, Staying, FoundLibs
  <1>3. /\ AllCurrent(i) => excused' = excused \ {"lost", "outrun"}
        /\ ~AllCurrent(i) /\ Overtaken(i) => excused' = excused \cup {"outrun", "overtaken"}
        /\ ~AllCurrent(i) /\ ~Overtaken(i) => excused' = excused
    BY ZenonT(30) DEF ReadArrives, AllCurrent, Overtaken
  <1>4. at \in {"libraries", "status"} /\ Len(past) \in Nat /\ reads[i] \in ReadOf(Len(past))
    BY StatesAre DEF AdminTypes
  <1>5. \A part \in AdminPart : reads[i][part] \in 0 .. Len(past)
    BY <1>4 DEF ReadOf
  <1>6. \A part \in PartsOf(at) : reads[i][part] \in 1 .. Len(past)
    BY <1>1, <1>4, <1>5, PartsAre
  <1>7. reads[i]["list"] \in 1 .. Len(past)
    BY <1>4, <1>6, PartsAre
  <1>8. FoundLibs(i) \in [LibId -> Lib \cup {Gone}]
    BY <1>7, StatesAre DEF FoundLibs
  <1> QED
    BY <1>1, <1>2, <1>3, <1>4, <1>6, <1>7, <1>8

Others(w) == sent \ {w}
LEMMA AnsweredIs ==
    ASSUME NEW w \in sent, EditAnswered(w)
    PROVE  /\ w.reply = "ok" /\ Settles(w, TRUE)
           /\ Closes(w, TRUE) => sent' = {NoPin(x) : x \in Others(w)}
           /\ ~Closes(w, TRUE) => sent' = Others(w)
           /\ RefreshesAfter(w) => Refreshed
           /\ ~RefreshesAfter(w) => UNCHANGED reads
           /\ UNCHANGED <<past, at, view, excused, used>>
  BY ZenonT(30) DEF EditAnswered, DialogDisowned, NoPin, Closes, Others
LEMMA RefusedIs ==
    ASSUME NEW w \in sent, EditRefused(w)
    PROVE  /\ w.reply = "refused" /\ Settles(w, FALSE) /\ ~Closes(w, FALSE) /\ sent' = Others(w)
           /\ UNCHANGED <<past, at, view, reads, excused, used>>
  BY ZenonT(30) DEF EditRefused, Others, Closes
LEMMA LostIs ==
    ASSUME NEW w \in sent, EditLost(w)
    PROVE  /\ Settles(w, FALSE) /\ ~Closes(w, FALSE) /\ sent' = Others(w)
           /\ w.reply = "ok" => excused' = excused \cup {"lost"}
           /\ w.reply # "ok" => UNCHANGED excused
           /\ UNCHANGED <<past, at, view, reads>>
  BY ZenonT(30) DEF EditLost, Others, Closes
LEMMA CloseFixIs ==
    ASSUME CloseFix
    PROVE  /\ sent' = {NoPin(w) : w \in sent} /\ panel' = DialogClosed(panel)
           /\ UNCHANGED <<past, at, view, reads, editors, excused>>
  BY ZenonT(30) DEF CloseFix, DialogDisowned, NoPin

-----------------------------------------------------------------------------
(* The settings: with nothing in flight the page shows what the server has *)

\* Until a page is left, every write in flight is one of the page that is shown.
PagedInv == "left" \notin excused => \A w \in sent : w.paged
\* A write that is done will have the list asked for again.
Owing(w) == w.reply = "ok" /\ RefreshesAfter(w)
\* A part is the server's, or a GET that will make it so is under way.
Fresh(part) == view[part] = Len(past) \/ \E i \in 1 .. Len(reads) : reads[i][part] \in {0, Len(past)}
AllFresh == \A part \in PartsOf(at) : Fresh(part)
Excusing == {"lost", "left", "outrun"}
ListInv == excused \cap Excusing = {} => (\E w \in sent : Owing(w)) \/ AllFresh

\* A step that neither reads, nor changes the server's state, nor ends a write that owes a GET.
SameList ==
    /\ UNCHANGED <<past, at, view>> /\ (UNCHANGED reads \/ Refreshed)
    /\ excused \subseteq excused'
    /\ \A x \in sent' : x.paged \/ \E w \in sent : x.paged = w.paged
    /\ \A w \in sent : Owing(w) => Refreshed \/ \E x \in sent' : Owing(x)
LEMMA RefreshedIsFresh == ASSUME AdminTypes, Refreshed, UNCHANGED <<past, at, view>> PROVE AllFresh'
  <1>1. Len(past) \in Nat /\ reads \in Seq(ReadOf(Len(past))) /\ at \in {"libraries", "status"}
    BY StatesAre DEF AdminTypes
  <1>2. Unanswered \in ReadOf(Len(past))
    BY <1>1, UnansweredIs
  <1>3. Len(reads') = Len(reads) + 1 /\ reads'[Len(reads) + 1] = Unanswered /\ Len(reads) \in Nat
    BY <1>1, <1>2, AppendIs DEF Refreshed
  <1>4. Len(reads) + 1 \in 1 .. Len(reads')
    BY <1>3
  <1> SUFFICES ASSUME NEW part \in PartsOf(at) PROVE Fresh(part)'
    BY DEF AllFresh
  <1>5. reads'[Len(reads) + 1][part] = 0
    BY <1>1, <1>3, PartsAre DEF Unanswered, AdminPart
  <1> QED
    BY <1>4, <1>5 DEF Fresh
LEMMA SameListKeeps == ASSUME AdminTypes, PagedInv, ListInv, SameList PROVE PagedInv' /\ ListInv'
  <1>1. PagedInv'
    BY DEF PagedInv, SameList
  <1>2. UNCHANGED reads => (AllFresh => AllFresh')
    BY DEF SameList, AllFresh, Fresh
  <1>3. Refreshed => AllFresh'
    BY RefreshedIsFresh DEF SameList
  <1>4. ListInv'
    BY <1>2, <1>3 DEF ListInv, SameList
  <1> QED
    BY <1>1, <1>4

\* A GET under way that is served has found the server's state as it is.
LEMMA ReadServedIs ==
    ASSUME AdminTypes, NEW i \in 1 .. Len(reads), NEW part \in AdminPart, ReadServed(i, part)
    PROVE  /\ Len(reads') = Len(reads) /\ reads[i][part] = 0 /\ reads'[i][part] = Len(past)
           /\ \A j \in 1 .. Len(reads), p \in AdminPart : j # i \/ p # part => reads'[j][p] = reads[j][p]
           /\ UNCHANGED <<past, at, view, sent, editors, panel, excused, used>>
  <1> DEFINE m == Len(past)
             S == ReadOf(m)
             r == reads[i]
             x == [r EXCEPT ![part] = m]
  <1>1. /\ reads' = [reads EXCEPT ![i] = x] /\ reads[i][part] = 0
        /\ UNCHANGED <<past, at, view, sent, editors, panel, excused, used>>
    BY DEF ReadServed
  <1>2. m \in Nat /\ reads \in Seq(S) /\ r \in S
    BY StatesAre DEF AdminTypes
  <1> HIDE DEF S, m, r
  <1>3. x \in S /\ x[part] = m /\ \A p \in AdminPart : p # part => x[p] = r[p]
    BY <1>2 DEF S, ReadOf
  <1> HIDE DEF x
  <1>4. Len(reads') = Len(reads) /\ \A j \in 1 .. Len(reads) : reads'[j] = IF j = i THEN x ELSE reads[j]
    BY <1>1, <1>2, <1>3, ExceptSeq
  <1> QED
    BY <1>1, <1>3, <1>4 DEF m, r

LEMMA ListStep == ASSUME AdminTypes, SentInv, AdminMoves, PagedInv, ListInv PROVE PagedInv' /\ ListInv'
  <1> DEFINE Goal == PagedInv' /\ ListInv'
  <1> SUFFICES Goal
    OBVIOUS
  <1>1. SameList => Goal
    BY SameListKeeps
  <1>2. (\A w \in sent : WellSent(w)) /\ at \in {"libraries", "status"} /\ Len(past) \in Nat
    BY StatesAre DEF AdminTypes
  <1>3. ASSUME NEW p \in {"libraries", "status"}, Visit(p) PROVE Goal
    <2>1. sent = {} \/ "left" \in excused'
      BY <1>3, VisitIs
    <2>2. sent = {} => sent' = {}
      BY <1>3, VisitIs
    <2>3. PagedInv'
      BY <2>1, <2>2 DEF PagedInv
    <2>4. reads' = <<Unanswered>> /\ at' = p
      BY <1>3, VisitIs
    <2>5. 1 \in 1 .. Len(reads') /\ reads'[1] = Unanswered
      BY <2>4
    <2>6. \A part \in PartsOf(p) : Unanswered[part] = 0
      BY PartsAre DEF Unanswered, PartsOf
    <2>7. AllFresh'
      BY <2>4, <2>5, <2>6 DEF AllFresh, Fresh
    <2> QED
      BY <2>3, <2>7 DEF ListInv
  <1>4. RefreshClick \/ TimerFires \/ UNCHANGED adminVars => Goal
    <2>1. RefreshClick \/ TimerFires \/ UNCHANGED adminVars => SameList
      BY DEF RefreshClick, TimerFires, adminVars, SameList
    <2> QED
      BY <1>1, <2>1
  <1>5. ASSUME NEW i \in 1 .. Len(reads), NEW part \in AdminPart, ReadServed(i, part) PROVE Goal
    <2>1. PagedInv'
      BY <1>5, ReadServedIs DEF PagedInv
    <2>2. ASSUME NEW p \in PartsOf(at), Fresh(p) PROVE Fresh(p)'
      <3>1. p \in AdminPart
        BY <1>2, PartsAre
      <3>2. CASE view[p] = Len(past)
        BY <1>5, <3>2, ReadServedIs DEF Fresh
      <3>3. ASSUME NEW j \in 1 .. Len(reads), reads[j][p] \in {0, Len(past)} PROVE Fresh(p)'
        <4>1. reads'[j][p] = reads[j][p] \/ reads'[j][p] = Len(past)
          BY <1>5, <3>1, ReadServedIs
        <4>2. Len(reads') = Len(reads) /\ UNCHANGED past
          BY <1>5, ReadServedIs
        <4> QED
          BY <3>3, <4>1, <4>2 DEF Fresh
      <3> QED
        BY <2>2, <3>2, <3>3 DEF Fresh
    <2>3. AllFresh => AllFresh'
      BY <1>5, <2>2, ReadServedIs DEF AllFresh
    <2>4. ListInv'
      BY <1>5, <2>3, ReadServedIs DEF ListInv
    <2> QED
      BY <2>1, <2>4
  <1>6. ASSUME NEW i \in 1 .. Len(reads), ReadArrives(i) PROVE Goal
    <2>1. /\ \A part \in PartsOf(at) : reads[i][part] \in 1 .. Len(past)
          /\ reads' = Without(reads, i) /\ view' = reads[i] /\ UNCHANGED <<past, at>>
          /\ AllCurrent(i) => excused' = excused \ {"lost", "outrun"}
          /\ ~AllCurrent(i) /\ Overtaken(i) => excused' = excused \cup {"outrun", "overtaken"}
          /\ ~AllCurrent(i) /\ ~Overtaken(i) => excused' = excused
      BY <1>6, ArrivesIs
    <2>2. (\A x \in sent' : \E w \in sent : x.paged = w.paged) /\ (\A w \in sent : Owing(w) => \E x \in sent' : Owing(x))
      <3>1. CASE at = "status"
        BY <1>6, <3>1, ArrivesIs
      <3>2. CASE at = "libraries"
        <4>1. sent' = {Staying(FoundLibs(i), w) : w \in sent}
          BY <1>6, <3>2, ArrivesIs
        <4>2. ASSUME NEW w \in sent
              PROVE  LET x == Staying(FoundLibs(i), w)
                     IN  x.paged = w.paged /\ x.reply = w.reply /\ x.kind = w.kind
          BY <1>2, StayingIs DEF Alike
        <4>3. \A w \in sent : Owing(w) => Owing(Staying(FoundLibs(i), w))
          BY <4>2 DEF Owing, RefreshesAfter
        <4> QED
          BY <4>1, <4>2, <4>3
      <3> QED
        BY <1>2, <3>1, <3>2
    <2>3. PagedInv'
      BY <2>1, <2>2 DEF PagedInv
    <2>4. ASSUME excused' \cap Excusing = {}, ~\E x \in sent' : Owing(x), NEW p \in PartsOf(at) PROVE Fresh(p)'
      <3>1. CASE AllCurrent(i)
        BY <2>1, <3>1 DEF Fresh, AllCurrent
      <3>2. CASE ~AllCurrent(i)
        <4>1. ~Overtaken(i) /\ excused' = excused
          BY <2>1, <2>4, <3>2 DEF Excusing
        <4>2. Fresh(p)
          BY <2>2, <2>4, <4>1 DEF ListInv, AllFresh
        <4>3. view[p] \in Nat /\ ~(reads[i][p] < view[p]) /\ reads[i][p] \in 1 .. Len(past)
          <5>1. p \in AdminPart
            BY <1>2, PartsAre
          <5> QED
            BY <2>1, <4>1, <5>1, StatesAre DEF Overtaken, AdminPart
        <4>4. CASE view[p] = Len(past) \/ reads[i][p] \in {0, Len(past)}
          <5>1. reads[i][p] = Len(past)
            BY <1>2, <4>3, <4>4
          <5>2. view'[p] = Len(past')
            BY <2>1, <5>1
          <5> QED
            BY <5>2 DEF Fresh
        <4>5. ASSUME NEW j \in 1 .. Len(reads), j # i, reads[j][p] \in {0, Len(past)} PROVE Fresh(p)'
          <5>1. \E k \in 1 .. Len(reads') : reads'[k] = reads[j]
            <6>1. reads \in Seq(ReadOf(Len(past)))
              BY DEF AdminTypes
            <6>2. \A k \in 1 .. Len(reads) : k # i => \E m \in 1 .. Len(Without(reads, i)) : Without(reads, i)[m] = reads[k]
              BY <6>1, WithoutIs
            <6>3. reads' = Without(reads, i)
              BY <2>1
            <6> QED
              BY <4>5, <6>2, <6>3
          <5> QED
            BY <2>1, <4>5, <5>1 DEF Fresh
        <4> QED
          BY <4>2, <4>4, <4>5 DEF Fresh
      <3> QED
        BY <3>1, <3>2
    <2>5. ListInv'
      BY <2>1, <2>4 DEF ListInv, AllFresh
    <2> QED
      BY <2>3, <2>5
  <1>7. ASSUME NEW i \in 1 .. Len(reads), ReadFails(i) PROVE Goal
    <2>1. excused' = excused \cup {"lost"} /\ UNCHANGED sent
      BY <1>7 DEF ReadFails
    <2> QED
      BY <2>1 DEF PagedInv, ListInv, Excusing
  <1>8. SomeoneSends => Goal
    <2>1. SomeoneSends => /\ UNCHANGED <<past, at, view, reads, excused>> /\ sent \subseteq sent'
                          /\ \A x \in sent' : x \in sent \/ x.paged
      BY DEF SomeoneSends, Submits
    <2>2. SomeoneSends => SameList
      BY <2>1 DEF SameList
    <2> QED
      BY <1>1, <2>2
  <1>9. (\E id \in LibId, name \in Typed : TypeName(id, name)) \/ (\E t \in Title : FixMatch(t)) => Goal
    <2>1. (\E id \in LibId, name \in Typed : TypeName(id, name)) \/ (\E t \in Title : FixMatch(t)) => SameList
      BY DEF TypeName, FixMatch, SameList
    <2> QED
      BY <1>1, <2>1
  <1>10. CloseFix => Goal
    <2> SUFFICES ASSUME CloseFix PROVE Goal
      OBVIOUS
    <2>1. sent' = {NoPin(w) : w \in sent} /\ UNCHANGED <<past, at, view, reads, excused>>
      BY CloseFixIs
    <2>2. ASSUME NEW w \in sent PROVE NoPin(w).paged = w.paged /\ (Owing(w) => Owing(NoPin(w)))
      BY <1>2, NoPinIs DEF Alike, Owing, RefreshesAfter
    <2>3. SameList
      BY <2>1, <2>2 DEF SameList
    <2> QED
      BY <1>1, <2>3
  <1>11. ASSUME NEW w \in sent, EditServed(w) PROVE Goal
    <2>1. PICK x : /\ x.kind = w.kind /\ x.paged = w.paged /\ x.reply = (IF Refuses(w) THEN "refused" ELSE "ok")
                   /\ sent' = (sent \ {w}) \cup {x}
      BY <1>11, ServedIs
    <2>2. UNCHANGED <<at, view, reads>> /\ excused \subseteq excused' /\ w.reply = "none"
      BY <1>11, ZenonT(30) DEF EditServed
    <2>3. \A v \in sent : Owing(v) => v \in sent'
      BY <2>1, <2>2 DEF Owing
    <2>4. CASE UNCHANGED past
      <3>1. SameList
        BY <2>1, <2>2, <2>3, <2>4 DEF SameList
      <3> QED
        BY <1>1, <3>1
    <2>5. CASE ~UNCHANGED past
      <3>1. ~Refuses(w) /\ Effect(Now, w) # Now
        BY <1>11, <2>5, ZenonT(30) DEF EditServed
      <3>2. w.kind \notin {"backfill", "enrich"}
        BY <1>2, <3>1 DEF WellSent, IdsOf, Effect
      <3>3. PagedInv'
        BY <2>1, <2>2 DEF PagedInv
      <3>4. "left" \notin excused => Owing(x)
        BY <2>1, <3>1, <3>2 DEF PagedInv, Owing, RefreshesAfter
      <3>5. ListInv'
        BY <2>1, <2>2, <3>4 DEF ListInv, Excusing
      <3> QED
        BY <3>3, <3>5
    <2> QED
      BY <2>4, <2>5
  <1>12. ASSUME NEW w \in sent, EditAnswered(w) PROVE Goal
    <2>1. /\ UNCHANGED <<past, at, view, excused>> /\ (RefreshesAfter(w) => Refreshed) /\ (~RefreshesAfter(w) => UNCHANGED reads)
          /\ (Closes(w, TRUE) => sent' = {NoPin(x) : x \in Others(w)}) /\ (~Closes(w, TRUE) => sent' = Others(w))
      BY <1>12, AnsweredIs
    <2>2. ASSUME NEW v \in sent PROVE NoPin(v).paged = v.paged /\ (Owing(v) => Owing(NoPin(v)))
      BY <1>2, NoPinIs DEF Alike, Owing, RefreshesAfter
    <2>3. /\ \A x \in sent' : \E v \in sent : x.paged = v.paged
          /\ \A v \in Others(w) : Owing(v) => \E x \in sent' : Owing(x)
      <3>1. CASE Closes(w, TRUE)
        <4>1. sent' = {NoPin(x) : x \in Others(w)} /\ \A v \in Others(w) : v \in sent
          BY <2>1, <3>1 DEF Others
        <4> QED
          BY <2>2, <4>1
      <3>2. CASE ~Closes(w, TRUE)
        BY <2>1, <3>2 DEF Others
      <3> QED
        BY <3>1, <3>2
    <2>5. Owing(w) => Refreshed
      BY <2>1 DEF Owing
    <2>6. SameList
      BY <2>1, <2>3, <2>5 DEF SameList, Others
    <2> QED
      BY <1>1, <2>6
  <1>13. ASSUME NEW w \in sent, EditRefused(w) PROVE Goal
    <2>1. UNCHANGED <<past, at, view, reads, excused>> /\ sent' = Others(w) /\ ~Owing(w)
      BY <1>13, RefusedIs DEF Owing
    <2>2. SameList
      BY <2>1 DEF SameList, Others
    <2> QED
      BY <1>1, <2>2
  <1>14. ASSUME NEW w \in sent, EditLost(w) PROVE Goal
    <2>1. UNCHANGED <<past, at, view, reads>> /\ sent' = Others(w)
      BY <1>14, LostIs
    <2>2. CASE w.reply = "ok"
      <3>1. excused' = excused \cup {"lost"}
        BY <1>14, <2>2, LostIs
      <3> QED
        BY <2>1, <3>1 DEF PagedInv, ListInv, Excusing, Others
    <2>3. CASE w.reply # "ok"
      <3>1. SameList
        BY <1>14, <2>1, <2>3, LostIs DEF SameList, Others, Owing
      <3> QED
        BY <1>1, <3>1
    <2> QED
      BY <2>2, <2>3
  <1> HIDE DEF Goal
  <1> QED
    BY <1>3, <1>4, <1>5, <1>6, <1>7, <1>8, <1>9, <1>10, <1>11, <1>12, <1>13, <1>14, SendersSend DEF AdminMoves

\* With nothing in flight a settings page shows what the server has, however many
\* editors, the status page and its timers have written and asked (LibrariesPage,
\* StatusPage: every write is followed by a new GET).
THEOREM ListIsAlwaysServers == Spec => []ListIsServers
  <1>1. Init => PagedInv /\ ListInv
    <2> SUFFICES ASSUME Init PROVE PagedInv /\ ListInv
      OBVIOUS
    <2>1. sent = {} /\ reads = <<Unanswered>> /\ at \in {"libraries", "status"}
      BY DEF Init, AdminInit
    <2>2. 1 \in 1 .. Len(reads) /\ reads[1] = Unanswered
      BY <2>1
    <2>3. \A part \in PartsOf(at) : Unanswered[part] = 0
      BY <2>1, PartsAre DEF Unanswered, AdminPart
    <2> QED
      BY <2>1, <2>2, <2>3 DEF PagedInv, ListInv, AllFresh, Fresh
  <1>2. AdminTypes /\ SentInv /\ PagedInv /\ ListInv /\ [Next]_webVars => PagedInv' /\ ListInv'
    BY AdminCases, ListStep
  <1>3. ListInv => ListIsServers
    <2> SUFFICES ASSUME ListInv, reads = <<>>, sent = {}, excused \cap {"lost", "left", "outrun"} = {}, NEW part \in PartsOf(at)
                 PROVE  Content(view[part]) = Content(Len(past))
      BY DEF ListIsServers
    <2>1. Fresh(part)
      BY DEF ListInv, AllFresh, Excusing
    <2>2. view[part] = Len(past)
      BY <2>1 DEF Fresh
    <2> QED
      BY <2>2
  <1> QED
    BY <1>1, <1>2, <1>3, AdminTypesAlways, PTL DEF Spec

-----------------------------------------------------------------------------
(* The settings: a button is disabled exactly while what it started is under way *)

\* The numbers of the writes in flight that someone on the page waits for.
EditorWrites(W, id) == {w.n : w \in {v \in W : v.owned /\ v.id = id}}
Creates(W) == {w.n : w \in {v \in W : v.paged /\ v.kind = "create"}}
Passes(W) == {w.n : w \in {v \in W : v.paged /\ v.kind \in {"enrich", "backfill"}}}
Pins(W) == {w.n : w \in {v \in W : v.owned /\ v.kind = "pin"}}

With(W, x) == W \cup {x}
\* A flag stands for one write at most.
Flagged(flag, N) == (flag <=> N # {}) /\ \A m, n \in N : m = n
FlagInv ==
    /\ \A id \in LibId : Flagged(editors[id].busy, EditorWrites(sent, id))
    /\ \A id \in LibId : id \notin Mounted => ~editors[id].busy
    /\ Flagged(panel.creating, Creates(sent))
    /\ at = "status" => Flagged(panel.busy, Passes(sent))
    /\ at # "status" => ~panel.busy
    /\ Flagged(panel.fixBusy, Pins(sent))
    /\ at # "status" => Pins(sent) = {} /\ panel.fix = Gone

LEMMA FlagRaised ==
    ASSUME NEW b, NEW N, Flagged(b, N), NEW c, c = TRUE, b = FALSE, NEW k, NEW M, M = With(N, k) PROVE Flagged(c, M)
  BY DEF Flagged, With
LEMMA FlagLifted ==
    ASSUME NEW b, NEW N, Flagged(b, N), NEW k, NEW p \in BOOLEAN, p => k \in N,
           NEW c, c <=> (b /\ ~p), NEW M, M = IF p THEN N \ {k} ELSE N
    PROVE  Flagged(c, M)
  BY DEF Flagged
LEMMA FlagNone == ASSUME NEW b, ~b PROVE Flagged(b, {})
  BY DEF Flagged

\* Writes that are in flight for whom others were.
SameWriters(V, W) ==
    /\ \A id \in LibId : EditorWrites(V, id) = EditorWrites(W, id)
    /\ Creates(V) = Creates(W) /\ Passes(V) = Passes(W)
LEMMA ServedSameWriters ==
    ASSUME NEW W, NEW w \in W, NEW x, x.n = w.n, x.kind = w.kind, x.id = w.id, x.owned = w.owned, x.paged = w.paged,
           NEW V, V = (W \ {w}) \cup {x}
    PROVE  SameWriters(V, W) /\ Pins(V) = Pins(W)
  <1>1. \A id \in LibId : EditorWrites(V, id) = EditorWrites(W, id)
    BY DEF EditorWrites
  <1>2. Creates(V) = Creates(W)
    BY DEF Creates
  <1>3. Passes(V) = Passes(W)
    BY DEF Passes
  <1>4. Pins(V) = Pins(W)
    BY DEF Pins
  <1> QED
    BY <1>1, <1>2, <1>3, <1>4 DEF SameWriters

\* A write is over.
LEMMA NumbersLess == ASSUME NEW S, NEW k PROVE {v.n : v \in {x \in S : x.n # k}} = {v.n : v \in S} \ {k}
  OBVIOUS
LEMMA WriterGoes ==
    ASSUME NEW S, NEW T, NEW k, \A v \in T : v \in S, NEW p, p => \A v \in S : v \in T <=> v.n # k, ~p => S \subseteq T
    PROVE  {v.n : v \in T} = IF p THEN {v.n : v \in S} \ {k} ELSE {v.n : v \in S}
  <1>1. CASE p
    <2>1. T = {v \in S : v.n # k}
      BY <1>1
    <2> QED
      BY <1>1, <2>1, NumbersLess
  <1>2. CASE ~p
    <2>1. T = S
      BY <1>2
    <2> QED
      BY <1>2, <2>1
  <1> QED
    BY <1>1, <1>2
LEMMA OtherWriters ==
    ASSUME NEW w \in sent, NEW m, Numbered(m, sent)
    PROVE  /\ \A id \in LibId : EditorWrites(Others(w), id) = IF w.owned /\ w.id = id THEN EditorWrites(sent, id) \ {w.n} ELSE EditorWrites(sent, id)
           /\ Creates(Others(w)) = IF w.paged /\ w.kind = "create" THEN Creates(sent) \ {w.n} ELSE Creates(sent)
           /\ Passes(Others(w)) = IF w.paged /\ w.kind \in {"enrich", "backfill"} THEN Passes(sent) \ {w.n} ELSE Passes(sent)
           /\ Pins(Others(w)) = IF w.owned /\ w.kind = "pin" THEN Pins(sent) \ {w.n} ELSE Pins(sent)
  <1>1. \A v \in sent : v \in Others(w) <=> v.n # w.n
    BY DEF Numbered, Others
  <1>2. (\A v \in Others(w) : v \in sent) /\ \A v \in sent : v # w => v \in Others(w)
    BY DEF Others
  <1>3. ASSUME NEW id \in LibId
        PROVE  EditorWrites(Others(w), id) = IF w.owned /\ w.id = id THEN EditorWrites(sent, id) \ {w.n} ELSE EditorWrites(sent, id)
    <2> DEFINE S == {v \in sent : v.owned /\ v.id = id}
               T == {v \in Others(w) : v.owned /\ v.id = id}
               p == w.owned /\ w.id = id
    <2>1. (\A v \in T : v \in S) /\ (p => \A v \in S : v \in T <=> v.n # w.n) /\ (~p => S \subseteq T)
      BY <1>1, <1>2
    <2>2. EditorWrites(sent, id) = {v.n : v \in S} /\ EditorWrites(Others(w), id) = {v.n : v \in T}
      BY DEF EditorWrites
    <2> HIDE DEF S, T
    <2> QED
      BY <2>1, <2>2, WriterGoes
  <1>4. Creates(Others(w)) = IF w.paged /\ w.kind = "create" THEN Creates(sent) \ {w.n} ELSE Creates(sent)
    <2> DEFINE S == {v \in sent : v.paged /\ v.kind = "create"}
               T == {v \in Others(w) : v.paged /\ v.kind = "create"}
               p == w.paged /\ w.kind = "create"
    <2>1. (\A v \in T : v \in S) /\ (p => \A v \in S : v \in T <=> v.n # w.n) /\ (~p => S \subseteq T)
      BY <1>1, <1>2
    <2>2. Creates(sent) = {v.n : v \in S} /\ Creates(Others(w)) = {v.n : v \in T}
      BY DEF Creates
    <2> HIDE DEF S, T
    <2> QED
      BY <2>1, <2>2, WriterGoes
  <1>5. Passes(Others(w)) = IF w.paged /\ w.kind \in {"enrich", "backfill"} THEN Passes(sent) \ {w.n} ELSE Passes(sent)
    <2> DEFINE S == {v \in sent : v.paged /\ v.kind \in {"enrich", "backfill"}}
               T == {v \in Others(w) : v.paged /\ v.kind \in {"enrich", "backfill"}}
               p == w.paged /\ w.kind \in {"enrich", "backfill"}
    <2>1. (\A v \in T : v \in S) /\ (p => \A v \in S : v \in T <=> v.n # w.n) /\ (~p => S \subseteq T)
      BY <1>1, <1>2
    <2>2. Passes(sent) = {v.n : v \in S} /\ Passes(Others(w)) = {v.n : v \in T}
      BY DEF Passes
    <2> HIDE DEF S, T
    <2> QED
      BY <2>1, <2>2, WriterGoes
  <1>6. Pins(Others(w)) = IF w.owned /\ w.kind = "pin" THEN Pins(sent) \ {w.n} ELSE Pins(sent)
    <2> DEFINE S == {v \in sent : v.owned /\ v.kind = "pin"}
               T == {v \in Others(w) : v.owned /\ v.kind = "pin"}
               p == w.owned /\ w.kind = "pin"
    <2>1. (\A v \in T : v \in S) /\ (p => \A v \in S : v \in T <=> v.n # w.n) /\ (~p => S \subseteq T)
      BY <1>1, <1>2
    <2>2. Pins(sent) = {v.n : v \in S} /\ Pins(Others(w)) = {v.n : v \in T}
      BY DEF Pins
    <2> HIDE DEF S, T
    <2> QED
      BY <2>1, <2>2, WriterGoes
  <1> QED
    BY <1>3, <1>4, <1>5, <1>6

\* A write is added; writes are let go.
LEMMA NumbersMore == ASSUME NEW S, NEW x PROVE {v.n : v \in S \cup {x}} = {v.n : v \in S} \cup {x.n}
  OBVIOUS
LEMMA NumbersSame ==
    ASSUME NEW S, NEW T, \A x \in T : \E v \in S : v.n = x.n, \A v \in S : \E x \in T : x.n = v.n
    PROVE  {v.n : v \in T} = {v.n : v \in S}
  OBVIOUS
LEMMA AddedWriters ==
    ASSUME NEW W, NEW x, NEW V, V = With(W, x)
    PROVE  /\ \A id \in LibId : EditorWrites(V, id) = IF x.owned /\ x.id = id THEN With(EditorWrites(W, id), x.n) ELSE EditorWrites(W, id)
           /\ Creates(V) = IF x.paged /\ x.kind = "create" THEN With(Creates(W), x.n) ELSE Creates(W)
           /\ Passes(V) = IF x.paged /\ x.kind \in {"enrich", "backfill"} THEN With(Passes(W), x.n) ELSE Passes(W)
           /\ Pins(V) = IF x.owned /\ x.kind = "pin" THEN With(Pins(W), x.n) ELSE Pins(W)
  <1>1. ASSUME NEW id \in LibId
        PROVE  EditorWrites(V, id) = IF x.owned /\ x.id = id THEN With(EditorWrites(W, id), x.n) ELSE EditorWrites(W, id)
    <2> DEFINE S == {v \in W : v.owned /\ v.id = id}
    <2>1. {v \in V : v.owned /\ v.id = id} = IF x.owned /\ x.id = id THEN S \cup {x} ELSE S
      BY DEF With
    <2> HIDE DEF S
    <2> QED
      BY <2>1, NumbersMore DEF EditorWrites, S, With
  <1>2. Creates(V) = IF x.paged /\ x.kind = "create" THEN With(Creates(W), x.n) ELSE Creates(W)
    <2> DEFINE S == {v \in W : v.paged /\ v.kind = "create"}
    <2>1. {v \in V : v.paged /\ v.kind = "create"} = IF x.paged /\ x.kind = "create" THEN S \cup {x} ELSE S
      BY DEF With
    <2> HIDE DEF S
    <2> QED
      BY <2>1, NumbersMore DEF Creates, S, With
  <1>3. Passes(V) = IF x.paged /\ x.kind \in {"enrich", "backfill"} THEN With(Passes(W), x.n) ELSE Passes(W)
    <2> DEFINE S == {v \in W : v.paged /\ v.kind \in {"enrich", "backfill"}}
    <2>1. {v \in V : v.paged /\ v.kind \in {"enrich", "backfill"}} = IF x.paged /\ x.kind \in {"enrich", "backfill"} THEN S \cup {x} ELSE S
      BY DEF With
    <2> HIDE DEF S
    <2> QED
      BY <2>1, NumbersMore DEF Passes, S, With
  <1>4. Pins(V) = IF x.owned /\ x.kind = "pin" THEN With(Pins(W), x.n) ELSE Pins(W)
    <2> DEFINE S == {v \in W : v.owned /\ v.kind = "pin"}
    <2>1. {v \in V : v.owned /\ v.kind = "pin"} = IF x.owned /\ x.kind = "pin" THEN S \cup {x} ELSE S
      BY DEF With
    <2> HIDE DEF S
    <2> QED
      BY <2>1, NumbersMore DEF Pins, S, With
  <1> QED
    BY <1>1, <1>2, <1>3, <1>4

LEMMA PagedWriters ==
    ASSUME NEW W, NEW V, \A x \in V : \E w \in W : x.n = w.n /\ x.kind = w.kind /\ x.paged = w.paged,
           \A w \in W : \E x \in V : x.n = w.n /\ x.kind = w.kind /\ x.paged = w.paged
    PROVE  Creates(V) = Creates(W) /\ Passes(V) = Passes(W)
  <1>1. Creates(V) = Creates(W)
    <2> DEFINE S == {w \in W : w.paged /\ w.kind = "create"}
               T == {w \in V : w.paged /\ w.kind = "create"}
    <2>1. (\A x \in T : \E v \in S : v.n = x.n) /\ (\A v \in S : \E x \in T : x.n = v.n)
      OBVIOUS
    <2> HIDE DEF S, T
    <2> QED
      BY <2>1, NumbersSame DEF Creates, S, T
  <1>2. Passes(V) = Passes(W)
    <2> DEFINE S == {w \in W : w.paged /\ w.kind \in {"enrich", "backfill"}}
               T == {w \in V : w.paged /\ w.kind \in {"enrich", "backfill"}}
    <2>1. (\A x \in T : \E v \in S : v.n = x.n) /\ (\A v \in S : \E x \in T : x.n = v.n)
      OBVIOUS
    <2> HIDE DEF S, T
    <2> QED
      BY <2>1, NumbersSame DEF Passes, S, T
  <1> QED
    BY <1>1, <1>2

LEMMA NoPinWriters ==
    ASSUME NEW W, \A w \in W : WellSent(w), NEW V, V = {NoPin(w) : w \in W}
    PROVE  SameWriters(V, W) /\ Pins(V) = {}
  <1>1. ASSUME NEW w \in W
        PROVE  LET x == NoPin(w)
               IN  /\ x.n = w.n /\ x.kind = w.kind /\ x.id = w.id /\ x.paged = w.paged
                   /\ x.owned <=> w.owned /\ w.kind # "pin"
    BY NoPinIs DEF Alike
  <1>2. \A x \in V : \E w \in W : x = NoPin(w)
    OBVIOUS
  <1>3. \A w \in W : NoPin(w) \in V
    OBVIOUS
  <1>4. \A w \in W : w.kind = "pin" => w.id \notin LibId
    BY AdminBounds DEF WellSent, IdsOf
  <1> HIDE DEF NoPin
  <1>5. Creates(V) = Creates(W) /\ Passes(V) = Passes(W)
    <2>1. \A x \in V : \E w \in W : x.n = w.n /\ x.kind = w.kind /\ x.paged = w.paged
      BY <1>1, <1>2
    <2>2. \A w \in W : \E x \in V : x.n = w.n /\ x.kind = w.kind /\ x.paged = w.paged
      BY <1>1, <1>3
    <2> QED
      BY <2>1, <2>2, PagedWriters
  <1>6. ASSUME NEW id \in LibId PROVE EditorWrites(V, id) = EditorWrites(W, id)
    <2> DEFINE S == {w \in W : w.owned /\ w.id = id}
               T == {w \in V : w.owned /\ w.id = id}
    <2>1. \A x \in T : \E v \in S : v.n = x.n
      BY <1>1, <1>2
    <2>2. \A v \in S : \E x \in T : x.n = v.n
      BY <1>1, <1>3, <1>4
    <2> HIDE DEF S, T
    <2> QED
      BY <2>1, <2>2, NumbersSame DEF EditorWrites, S, T
  <1>7. Pins(V) = {}
    <2>1. \A x \in V : ~(x.owned /\ x.kind = "pin")
      BY <1>1, <1>2
    <2> QED
      BY <2>1 DEF Pins
  <1> QED
    BY <1>5, <1>6, <1>7 DEF SameWriters

AllStaying(libs, W) == {Staying(libs, w) : w \in W}
LEMMA StayingWriters ==
    ASSUME NEW W, \A w \in W : WellSent(w), NEW libs, NEW V, V = AllStaying(libs, W)
    PROVE  /\ \A id \in LibId : EditorWrites(V, id) = IF libs[id] # Gone THEN EditorWrites(W, id) ELSE {}
           /\ Creates(V) = Creates(W) /\ Passes(V) = Passes(W) /\ (Pins(W) = {} => Pins(V) = {})
  <1>1. ASSUME NEW w \in W
        PROVE  LET x == Staying(libs, w)
               IN  /\ x.n = w.n /\ x.kind = w.kind /\ x.id = w.id /\ x.paged = w.paged
                   /\ x.owned <=> w.owned /\ (w.kind = "create" \/ w.id = Gone \/ libs[w.id] # Gone)
    BY StayingIs DEF Alike
  <1>2. \A x \in V : \E w \in W : x = Staying(libs, w)
    BY DEF AllStaying
  <1>3. \A w \in W : Staying(libs, w) \in V
    BY DEF AllStaying
  <1>4. \A w \in W : w.id \in LibId => w.kind # "create" /\ w.id # Gone
    BY AdminBounds DEF WellSent, IdsOf
  <1> HIDE DEF Staying
  <1>5. Creates(V) = Creates(W) /\ Passes(V) = Passes(W)
    <2>1. \A x \in V : \E w \in W : x.n = w.n /\ x.kind = w.kind /\ x.paged = w.paged
      BY <1>1, <1>2
    <2>2. \A w \in W : \E x \in V : x.n = w.n /\ x.kind = w.kind /\ x.paged = w.paged
      BY <1>1, <1>3
    <2> QED
      BY <2>1, <2>2, PagedWriters
  <1>6. ASSUME NEW id \in LibId PROVE EditorWrites(V, id) = IF libs[id] # Gone THEN EditorWrites(W, id) ELSE {}
    <2> DEFINE S == {w \in W : w.owned /\ w.id = id}
               T == {w \in V : w.owned /\ w.id = id}
    <2>1. CASE libs[id] # Gone
      <3>1. \A x \in T : \E v \in S : v.n = x.n
        BY <1>1, <1>2
      <3>2. \A v \in S : \E x \in T : x.n = v.n
        BY <1>1, <1>3, <2>1
      <3> HIDE DEF S, T
      <3> QED
        BY <2>1, <3>1, <3>2, NumbersSame DEF EditorWrites, S, T
    <2>2. CASE libs[id] = Gone
      <3>1. \A x \in V : ~(x.owned /\ x.id = id)
        BY <1>1, <1>2, <1>4, <2>2
      <3> QED
        BY <2>2, <3>1 DEF EditorWrites
    <2> QED
      BY <2>1, <2>2
  <1>7. ASSUME Pins(W) = {} PROVE Pins(V) = {}
    <2>1. \A w \in W : ~(w.owned /\ w.kind = "pin")
      BY <1>7 DEF Pins
    <2>2. \A x \in V : ~(x.owned /\ x.kind = "pin")
      BY <1>1, <1>2, <2>1
    <2> QED
      BY <2>2 DEF Pins
  <1> QED
    BY <1>5, <1>6, <1>7

LEMMA UnpagedWriters ==
    ASSUME NEW W, \A w \in W : WellSent(w), NEW V, V = {Unpaged(w) : w \in W}
    PROVE  (\A id \in LibId : EditorWrites(V, id) = {}) /\ Creates(V) = {} /\ Passes(V) = {} /\ Pins(V) = {}
  <1>1. \A x \in V : ~x.owned /\ ~x.paged
    BY AlikeUnpaged
  <1> QED
    BY <1>1 DEF EditorWrites, Creates, Passes, Pins

\* The library list stays as it is until an answer arrives or the page is left.
LEMMA MountedStays ==
    ASSUME AdminTypes, AdminMoves, UNCHANGED <<at, view>>
    PROVE  Mounted' = Mounted /\ Loaded' = Loaded /\ (Loaded => Shown' = Shown) /\ ShownLibs' = ShownLibs
  <1>1. view["list"] \in 0 .. Len(past) /\ \A n \in 1 .. Len(past) : past'[n] = past[n]
    BY StatesAre, HistoryIs
  <1>2. Loaded' = Loaded
    BY DEF Loaded
  <1>3. Loaded => Shown' = Shown
    <2> SUFFICES ASSUME Loaded PROVE Shown' = Shown
      OBVIOUS
    <2>1. view["list"] \in 1 .. Len(past)
      BY <1>1, StatesAre DEF Loaded
    <2> QED
      BY <1>1, <2>1 DEF Shown
  <1>4. ShownLibs' = ShownLibs
    BY <1>2, <1>3 DEF ShownLibs, NoLibs
  <1>5. Mounted' = Mounted
    BY <1>2, <1>3 DEF Mounted
  <1> QED
    BY <1>2, <1>3, <1>4, <1>5

\* What an answer makes of the editors (LibraryEditor.run's finally).
LEMMA EditorSettles ==
    ASSUME editors \in [LibId -> EditorOf], NEW w, NEW ok, Settles(w, ok)
    PROVE  \A id \in LibId : /\ editors'[id].busy <=> editors[id].busy /\ ~(w.owned /\ w.id = id)
                             /\ editors'[id].box = editors[id].box /\ editors'[id].edited = editors[id].edited
  <1>1. editors' = IF w.id \in LibId /\ w.owned THEN [editors EXCEPT ![w.id].busy = FALSE] ELSE editors
    BY ZenonT(30) DEF Settles, Lifted
  <1>2. \A e \in EditorOf : LET x == [e EXCEPT !.busy = FALSE] IN ~x.busy /\ x.box = e.box /\ x.edited = e.edited
    BY DEF EditorOf
  <1>3. CASE w.id \in LibId /\ w.owned
    <2> DEFINE e == editors[w.id]
               x == [e EXCEPT !.busy = FALSE]
    <2>1. editors' = [editors EXCEPT ![w.id] = x]
      BY <1>1, <1>3
    <2>2. ~x.busy /\ x.box = e.box /\ x.edited = e.edited
      BY <1>2, <1>3
    <2> HIDE DEF x, EditorOf
    <2> QED
      BY <1>3, <2>1, <2>2
  <1>4. CASE ~(w.id \in LibId /\ w.owned)
    BY <1>1, <1>4
  <1> QED
    BY <1>3, <1>4

LEMMA SettlesKeepsFlags ==
    ASSUME AdminTypes, SentInv, FlagInv, NEW w \in sent, NEW ok, Settles(w, ok), UNCHANGED at, Mounted' = Mounted,
           Closes(w, ok) => sent' = {NoPin(x) : x \in Others(w)}, ~Closes(w, ok) => sent' = Others(w)
    PROVE  FlagInv'
  <1> DEFINE U == Others(w)
  <1>1. Numbered(used.writes, sent) /\ (\A x \in sent : WellSent(x)) /\ editors \in [LibId -> EditorOf] /\ panel \in PanelOf
    BY DEF SentInv, AdminTypes
  <1>2. \A x \in U : WellSent(x)
    BY <1>1 DEF Others
  <1>3. w.owned \in BOOLEAN /\ w.paged \in BOOLEAN /\ WellSent(w)
    BY <1>1 DEF WellSent, SentOf
  <1>4. SameWriters(sent', U) /\ (Closes(w, ok) => Pins(sent') = {}) /\ (~Closes(w, ok) => Pins(sent') = Pins(U))
    <2>1. Closes(w, ok) => SameWriters(sent', U) /\ Pins(sent') = {}
      BY <1>2, NoPinWriters
    <2>2. ~Closes(w, ok) => SameWriters(sent', U) /\ Pins(sent') = Pins(U)
      BY DEF SameWriters
    <2> QED
      BY <2>1, <2>2
  <1>5. /\ \A id \in LibId : EditorWrites(U, id) = IF w.owned /\ w.id = id THEN EditorWrites(sent, id) \ {w.n} ELSE EditorWrites(sent, id)
        /\ Creates(U) = IF w.paged /\ w.kind = "create" THEN Creates(sent) \ {w.n} ELSE Creates(sent)
        /\ Passes(U) = IF w.paged /\ w.kind \in {"enrich", "backfill"} THEN Passes(sent) \ {w.n} ELSE Passes(sent)
        /\ Pins(U) = IF w.owned /\ w.kind = "pin" THEN Pins(sent) \ {w.n} ELSE Pins(sent)
    BY <1>1, OtherWriters
  <1> HIDE DEF U
  <1>6. \A id \in LibId : editors'[id].busy <=> editors[id].busy /\ ~(w.owned /\ w.id = id)
    BY <1>1, EditorSettles
  <1>7. ASSUME NEW id \in LibId PROVE Flagged(editors[id].busy, EditorWrites(sent, id))'
    <2> DEFINE p == w.owned /\ w.id = id
               c == editors'[id].busy
    <2>1. Flagged(editors[id].busy, EditorWrites(sent, id)) /\ EditorWrites(sent', id) = EditorWrites(U, id)
      BY <1>4 DEF FlagInv, SameWriters
    <2>2. EditorWrites(sent', id) = IF p THEN EditorWrites(sent, id) \ {w.n} ELSE EditorWrites(sent, id)
      BY <1>5, <2>1
    <2>3. p \in BOOLEAN /\ (c <=> editors[id].busy /\ ~p)
      BY <1>3, <1>6
    <2>4. p => w.n \in EditorWrites(sent, id)
      BY DEF EditorWrites
    <2> HIDE DEF p, c
    <2>5. Flagged(c, EditorWrites(sent', id))
      BY <2>1, <2>2, <2>3, <2>4, FlagLifted
    <2> QED
      BY <2>5 DEF c
  <1>8. \A id \in LibId : id \notin Mounted' => ~editors'[id].busy
    BY <1>6 DEF FlagInv
  <1>9. /\ panel'.creating <=> panel.creating /\ ~(w.paged /\ w.kind = "create")
        /\ panel'.busy <=> panel.busy /\ ~(w.paged /\ w.kind \in {"backfill", "enrich"} /\ at = "status")
        /\ Closes(w, ok) => ~panel'.fixBusy /\ panel'.fix = Gone
        /\ ~Closes(w, ok) => (panel'.fixBusy <=> panel.fixBusy /\ ~(w.owned /\ w.kind = "pin")) /\ panel'.fix = panel.fix
    BY <1>1, PanelSettles
  <1>10. Flagged(panel'.creating, Creates(sent'))
    <2> DEFINE p == w.paged /\ w.kind = "create"
    <2>1. Flagged(panel.creating, Creates(sent)) /\ p \in BOOLEAN /\ (panel'.creating <=> panel.creating /\ ~p)
      BY <1>3, <1>9 DEF FlagInv
    <2>2. Creates(sent') = IF p THEN Creates(sent) \ {w.n} ELSE Creates(sent)
      BY <1>4, <1>5 DEF SameWriters
    <2>3. p => w.n \in Creates(sent)
      BY DEF Creates
    <2> HIDE DEF p
    <2> QED
      BY <2>1, <2>2, <2>3, FlagLifted
  <1>11. (at = "status" => Flagged(panel'.busy, Passes(sent'))) /\ (at # "status" => ~panel'.busy)
    <2> DEFINE p == w.paged /\ w.kind \in {"enrich", "backfill"}
    <2>1. CASE at = "status"
      <3>1. Flagged(panel.busy, Passes(sent)) /\ p \in BOOLEAN /\ (panel'.busy <=> panel.busy /\ ~p)
        BY <1>3, <1>9, <2>1 DEF FlagInv
      <3>2. Passes(sent') = IF p THEN Passes(sent) \ {w.n} ELSE Passes(sent)
        BY <1>4, <1>5 DEF SameWriters
      <3>3. p => w.n \in Passes(sent)
        BY DEF Passes
      <3> HIDE DEF p
      <3> QED
        BY <2>1, <3>1, <3>2, <3>3, FlagLifted
    <2>2. CASE at # "status"
      BY <1>9, <2>2 DEF FlagInv
    <2> QED
      BY <2>1, <2>2
  <1>12. Flagged(panel'.fixBusy, Pins(sent'))
    <2> DEFINE p == w.owned /\ w.kind = "pin"
    <2>1. CASE Closes(w, ok)
      BY <1>4, <1>9, <2>1, FlagNone
    <2>2. CASE ~Closes(w, ok)
      <3>1. Flagged(panel.fixBusy, Pins(sent)) /\ p \in BOOLEAN /\ (panel'.fixBusy <=> panel.fixBusy /\ ~p)
        BY <1>3, <1>9, <2>2 DEF FlagInv
      <3>2. Pins(sent') = IF p THEN Pins(sent) \ {w.n} ELSE Pins(sent)
        BY <1>4, <1>5, <2>2
      <3>3. p => w.n \in Pins(sent)
        BY DEF Pins
      <3> HIDE DEF p
      <3> QED
        BY <3>1, <3>2, <3>3, FlagLifted
    <2> QED
      BY <2>1, <2>2
  <1>13. at # "status" => Pins(sent') = {} /\ panel'.fix = Gone
    BY <1>4, <1>5, <1>9 DEF FlagInv
  <1> QED
    BY <1>7, <1>8, <1>10, <1>11, <1>12, <1>13 DEF FlagInv

LEMMA SubmitsIs ==
    ASSUME AdminTypes, NEW kind \in Kind, NEW id \in IdsOf(kind), NEW arg \in ArgsOf(kind), Submits(kind, id, arg)
    PROVE  /\ \E x : /\ WellSent(x) /\ x.n = used.writes + 1 /\ x.kind = kind /\ x.id = id /\ x.arg = arg
                     /\ x.owned /\ x.paged /\ x.reply = "none" /\ sent' = With(sent, x)
           /\ UNCHANGED <<past, at, view, reads, excused>>
  <1>1. used.writes \in Nat
    BY AdminBounds DEF AdminTypes, UsedOf
  <1>2. sent' = sent \cup {NewSent(kind, id, arg)} /\ UNCHANGED <<past, at, view, reads, excused>>
    BY DEF Submits, NewSent
  <1> QED
    BY <1>1, <1>2, NewIsSent DEF With

\* A step that touches neither a flag nor a write someone waits for.
LEMMA SameFlags ==
    ASSUME FlagInv, UNCHANGED at, Mounted' = Mounted, SameWriters(sent', sent), Pins(sent') = Pins(sent),
           \A id \in LibId : editors'[id].busy = editors[id].busy,
           panel'.creating = panel.creating, panel'.busy = panel.busy, panel'.fixBusy = panel.fixBusy,
           panel'.fix = panel.fix \/ at = "status"
    PROVE  FlagInv'
  BY DEF FlagInv, SameWriters
LEMMA StillSame == ASSUME UNCHANGED sent PROVE SameWriters(sent', sent) /\ Pins(sent') = Pins(sent)
  BY DEF SameWriters

LEMMA FlagSends ==
    ASSUME AdminTypes, AdminMoves, FlagInv,
           \/ \E id \in LibId, kind \in EditorKind : \E arg : EditorSends(id, kind, arg)
           \/ Create \/ Backfill \/ (\E kind \in {"enrich", "backfill"} : RunPass(kind)) \/ PinFix
    PROVE  FlagInv'
  <1>1. editors \in [LibId -> EditorOf] /\ panel \in PanelOf /\ Gone \notin LibId
    BY AdminBounds DEF AdminTypes
  <1>2. ASSUME NEW id \in LibId, NEW kind \in EditorKind, NEW arg, EditorSends(id, kind, arg) PROVE FlagInv'
    <2>1. /\ id \in Mounted /\ ~editors[id].busy /\ Submits(kind, id, arg) /\ arg \in ArgsOf(kind)
          /\ editors' = [editors EXCEPT ![id].busy = TRUE] /\ UNCHANGED panel
      BY <1>2 DEF EditorSends, Runs
    <2>2. kind \in Kind /\ id \in IdsOf(kind)
      BY DEF EditorKind, Kind, IdsOf
    <2>3. PICK x : x.kind = kind /\ x.id = id /\ sent' = With(sent, x) /\ x.owned
      BY <2>1, <2>2, SubmitsIs
    <2>4. UNCHANGED <<past, at, view>>
      BY <2>1, <2>2, SubmitsIs
    <2>5. Mounted' = Mounted
      BY <2>4, MountedStays
    <2>6. x.kind \notin {"create", "enrich", "backfill", "pin"}
      BY <2>3 DEF EditorKind
    <2>7. /\ \A j \in LibId : EditorWrites(sent', j) = IF j = id THEN With(EditorWrites(sent, j), x.n) ELSE EditorWrites(sent, j)
          /\ Creates(sent') = Creates(sent) /\ Passes(sent') = Passes(sent) /\ Pins(sent') = Pins(sent)
      <3>1. /\ \A j \in LibId : EditorWrites(sent', j) = IF x.owned /\ x.id = j THEN With(EditorWrites(sent, j), x.n) ELSE EditorWrites(sent, j)
            /\ Creates(sent') = IF x.paged /\ x.kind = "create" THEN With(Creates(sent), x.n) ELSE Creates(sent)
            /\ Passes(sent') = IF x.paged /\ x.kind \in {"enrich", "backfill"} THEN With(Passes(sent), x.n) ELSE Passes(sent)
            /\ Pins(sent') = IF x.owned /\ x.kind = "pin" THEN With(Pins(sent), x.n) ELSE Pins(sent)
        BY <2>3, AddedWriters
      <3> QED
        BY <2>3, <2>6, <3>1
    <2>8. editors'[id].busy = TRUE /\ \A j \in LibId : j # id => editors'[j] = editors[j]
      <3>1. \A e \in EditorOf : [e EXCEPT !.busy = TRUE].busy = TRUE
        BY DEF EditorOf
      <3> DEFINE e == editors[id]
                 y == [e EXCEPT !.busy = TRUE]
      <3>2. editors' = [editors EXCEPT ![id] = y] /\ y.busy = TRUE
        BY <1>1, <2>1, <3>1
      <3> HIDE DEF y
      <3> QED
        BY <1>1, <3>2
    <2>9. ASSUME NEW j \in LibId PROVE Flagged(editors'[j].busy, EditorWrites(sent', j))
      <3>1. Flagged(editors[j].busy, EditorWrites(sent, j))
        BY DEF FlagInv
      <3>2. CASE j = id
        <4>1. editors'[j].busy = TRUE /\ editors[j].busy = FALSE
          BY <1>1, <2>1, <2>8, <3>2 DEF EditorOf
        <4>2. EditorWrites(sent', j) = With(EditorWrites(sent, j), x.n)
          BY <2>7, <3>2
        <4> QED
          BY <3>1, <4>1, <4>2, FlagRaised
      <3>3. CASE j # id
        BY <2>7, <2>8, <3>1, <3>3
      <3> QED
        BY <3>2, <3>3
    <2>10. \A j \in LibId : j \notin Mounted => ~editors'[j].busy
      BY <2>1, <2>8 DEF FlagInv
    <2> QED
      BY <2>1, <2>4, <2>5, <2>7, <2>9, <2>10 DEF FlagInv
  <1>3. ASSUME NEW kind \in Kind, NEW id \in IdsOf(kind), id \notin LibId, NEW arg \in ArgsOf(kind), Submits(kind, id, arg)
        PROVE  /\ Mounted' = Mounted /\ UNCHANGED at /\ \A j \in LibId : EditorWrites(sent', j) = EditorWrites(sent, j)
               /\ \E k : /\ Creates(sent') = IF kind = "create" THEN With(Creates(sent), k) ELSE Creates(sent)
                         /\ Passes(sent') = IF kind \in {"enrich", "backfill"} THEN With(Passes(sent), k) ELSE Passes(sent)
                         /\ Pins(sent') = IF kind = "pin" THEN With(Pins(sent), k) ELSE Pins(sent)
    <2>1. PICK x : x.kind = kind /\ x.id = id /\ x.owned /\ x.paged /\ sent' = With(sent, x)
      BY <1>3, SubmitsIs
    <2>2. UNCHANGED <<past, at, view>>
      BY <1>3, SubmitsIs
    <2>3. Mounted' = Mounted
      BY <2>2, MountedStays
    <2>4. /\ \A j \in LibId : EditorWrites(sent', j) = EditorWrites(sent, j)
          /\ Creates(sent') = IF kind = "create" THEN With(Creates(sent), x.n) ELSE Creates(sent)
          /\ Passes(sent') = IF kind \in {"enrich", "backfill"} THEN With(Passes(sent), x.n) ELSE Passes(sent)
          /\ Pins(sent') = IF kind = "pin" THEN With(Pins(sent), x.n) ELSE Pins(sent)
      BY <1>3, <2>1, AddedWriters
    <2> QED
      BY <2>2, <2>3, <2>4
  <1>4. CASE Create
    <2>1. PICK name \in LibName : Submits("create", Gone, name)
      BY <1>4 DEF Create
    <2>2. /\ ~panel.creating /\ panel' = [panel EXCEPT !.creating = TRUE] /\ UNCHANGED editors
      BY <1>4 DEF Create
    <2>3. /\ panel'.creating /\ panel'.busy = panel.busy /\ panel'.fixBusy = panel.fixBusy /\ panel'.fix = panel.fix
      BY <1>1, <2>2 DEF PanelOf
    <2>4. "create" \in Kind /\ Gone \in IdsOf("create") /\ name \in ArgsOf("create")
      BY DEF Kind, IdsOf, ArgsOf
    <2>5. /\ Mounted' = Mounted /\ UNCHANGED at /\ \A j \in LibId : EditorWrites(sent', j) = EditorWrites(sent, j)
          /\ Passes(sent') = Passes(sent) /\ Pins(sent') = Pins(sent) /\ \E k : Creates(sent') = With(Creates(sent), k)
      BY <1>1, <1>3, <2>1, <2>4
    <2>6. Flagged(panel'.creating, Creates(sent'))
      <3>1. Flagged(panel.creating, Creates(sent)) /\ panel'.creating = TRUE /\ panel.creating = FALSE
        BY <1>1, <2>2, <2>3 DEF FlagInv, PanelOf
      <3>2. PICK k : Creates(sent') = With(Creates(sent), k)
        BY <2>5
      <3> QED
        BY <3>1, <3>2, FlagRaised
    <2> QED
      BY <2>2, <2>3, <2>5, <2>6 DEF FlagInv
  <1>5. CASE Backfill
    <2>1. at = "libraries" /\ Submits("backfill", Gone, NoName)
      BY <1>5 DEF Backfill
    <2>2. panel' = [panel EXCEPT !.backfilling = TRUE] /\ UNCHANGED editors
      BY <1>5 DEF Backfill
    <2>3. /\ panel'.creating = panel.creating /\ panel'.busy = panel.busy /\ panel'.fixBusy = panel.fixBusy /\ panel'.fix = panel.fix
      BY <1>1, <2>2 DEF PanelOf
    <2>4. "backfill" \in Kind /\ Gone \in IdsOf("backfill") /\ NoName \in ArgsOf("backfill")
      BY DEF Kind, IdsOf, ArgsOf
    <2>5. /\ Mounted' = Mounted /\ UNCHANGED at /\ \A j \in LibId : EditorWrites(sent', j) = EditorWrites(sent, j)
          /\ Creates(sent') = Creates(sent) /\ Pins(sent') = Pins(sent)
      BY <1>1, <1>3, <2>1, <2>4
    <2> QED
      BY <2>1, <2>2, <2>3, <2>5 DEF FlagInv
  <1>6. ASSUME NEW kind \in {"enrich", "backfill"}, RunPass(kind) PROVE FlagInv'
    <2>1. at = "status" /\ ~panel.busy /\ Submits(kind, Gone, NoName)
      BY <1>6 DEF RunPass
    <2>2. panel' = [panel EXCEPT !.busy = TRUE] /\ UNCHANGED editors
      BY <1>6 DEF RunPass
    <2>3. /\ panel'.creating = panel.creating /\ panel'.busy /\ panel'.fixBusy = panel.fixBusy /\ panel'.fix = panel.fix
      BY <1>1, <2>2 DEF PanelOf
    <2>4. kind \in Kind /\ Gone \in IdsOf(kind) /\ NoName \in ArgsOf(kind)
      BY DEF Kind, IdsOf, ArgsOf
    <2>5. /\ Mounted' = Mounted /\ UNCHANGED at /\ \A j \in LibId : EditorWrites(sent', j) = EditorWrites(sent, j)
          /\ Creates(sent') = Creates(sent) /\ Pins(sent') = Pins(sent) /\ \E k : Passes(sent') = With(Passes(sent), k)
      BY <1>1, <1>3, <2>1, <2>4
    <2>6. Flagged(panel'.busy, Passes(sent'))
      <3>1. Flagged(panel.busy, Passes(sent)) /\ panel'.busy = TRUE /\ panel.busy = FALSE
        BY <1>1, <2>1, <2>3 DEF FlagInv, PanelOf
      <3>2. PICK k : Passes(sent') = With(Passes(sent), k)
        BY <2>5
      <3> QED
        BY <3>1, <3>2, FlagRaised
    <2> QED
      BY <2>1, <2>2, <2>3, <2>5, <2>6 DEF FlagInv
  <1>7. CASE PinFix
    <2>1. panel.fix \in Title /\ ~panel.fixBusy /\ Submits("pin", panel.fix, NoName)
      BY <1>1, <1>7 DEF PinFix, PanelOf
    <2>2. panel' = [panel EXCEPT !.fixBusy = TRUE] /\ UNCHANGED editors
      BY <1>7 DEF PinFix
    <2>3. /\ panel'.creating = panel.creating /\ panel'.busy = panel.busy /\ panel'.fixBusy /\ panel'.fix = panel.fix
      BY <1>1, <2>2 DEF PanelOf
    <2>4. /\ "pin" \in Kind /\ panel.fix \in IdsOf("pin") /\ NoName \in ArgsOf("pin") /\ panel.fix \notin LibId
          /\ panel.fix # Gone
      BY <2>1, AdminBounds DEF Kind, IdsOf, ArgsOf
    <2>5. /\ Mounted' = Mounted /\ UNCHANGED at /\ \A j \in LibId : EditorWrites(sent', j) = EditorWrites(sent, j)
          /\ Creates(sent') = Creates(sent) /\ Passes(sent') = Passes(sent) /\ \E k : Pins(sent') = With(Pins(sent), k)
      BY <1>3, <2>1, <2>4
    <2>6. Flagged(panel'.fixBusy, Pins(sent'))
      <3>1. Flagged(panel.fixBusy, Pins(sent)) /\ panel'.fixBusy = TRUE /\ panel.fixBusy = FALSE
        BY <1>1, <2>1, <2>3 DEF FlagInv, PanelOf
      <3>2. PICK k : Pins(sent') = With(Pins(sent), k)
        BY <2>5
      <3> QED
        BY <3>1, <3>2, FlagRaised
    <2>7. at = "status"
      BY <2>4 DEF FlagInv
    <2> QED
      BY <2>2, <2>3, <2>5, <2>6, <2>7 DEF FlagInv
  <1> QED
    BY <1>2, <1>4, <1>5, <1>6, <1>7

LEMMA FlagVisit == ASSUME AdminTypes, NEW p, Visit(p) PROVE FlagInv'
  <1>1. /\ at' = p /\ view' = Unanswered /\ editors' = [id \in LibId |-> Blank] /\ panel' = FreshPanel
        /\ sent' = {Unpaged(w) : w \in sent}
    BY VisitIs
  <1>2. /\ \A id \in LibId : EditorWrites(sent', id) = {}
        /\ Creates(sent') = {} /\ Passes(sent') = {} /\ Pins(sent') = {}
    BY <1>1, UnpagedWriters DEF AdminTypes
  <1>3. ~Blank.busy /\ ~FreshPanel.creating /\ ~FreshPanel.busy /\ ~FreshPanel.fixBusy /\ FreshPanel.fix = Gone
    BY DEF Blank, FreshPanel
  <1>4. \A id \in LibId : Flagged(editors'[id].busy, EditorWrites(sent', id)) /\ ~editors'[id].busy
    BY <1>1, <1>2, <1>3, FlagNone
  <1>5. Flagged(panel'.creating, Creates(sent')) /\ Flagged(panel'.busy, Passes(sent')) /\ Flagged(panel'.fixBusy, Pins(sent'))
    BY <1>1, <1>2, <1>3, FlagNone
  <1> QED
    BY <1>1, <1>2, <1>3, <1>4, <1>5 DEF FlagInv

\* An editor that goes away takes its writes along, one that comes has none.
LEMMA FlagArrives == ASSUME AdminTypes, FlagInv, NEW i \in 1 .. Len(reads), ReadArrives(i) PROVE FlagInv'
  <1>1. UNCHANGED <<past, at, panel>> /\ view' = reads[i] /\ reads[i]["list"] \in 1 .. Len(past)
    BY ArrivesIs
  <1>2. at \in {"libraries", "status"} /\ \A w \in sent : WellSent(w)
    BY DEF AdminTypes
  <1>3. CASE at = "status"
    <2>1. UNCHANGED <<editors, sent>>
      BY <1>3, ArrivesIs
    <2>2. Mounted = {} /\ Mounted' = {}
      BY <1>1, <1>3 DEF Mounted
    <2>3. SameWriters(sent', sent) /\ Pins(sent') = Pins(sent)
      BY <2>1, StillSame
    <2> QED
      BY <1>1, <2>1, <2>2, <2>3, SameFlags
  <1>4. CASE at = "libraries"
    <2> DEFINE new == FoundLibs(i)
    <2>1. editors' = [id \in LibId |-> Kept(ShownLibs, new, id)]
      BY <1>4, ArrivesIs
    <2>7. sent' = AllStaying(new, sent)
      BY <1>4, ArrivesIs DEF AllStaying
    <2>2. /\ \A id \in LibId : EditorWrites(sent', id) = IF new[id] # Gone THEN EditorWrites(sent, id) ELSE {}
          /\ Creates(sent') = Creates(sent) /\ Passes(sent') = Passes(sent) /\ (Pins(sent) = {} => Pins(sent') = {})
      BY <1>2, <2>7, StayingWriters
    <2>3. \A id \in LibId : id \in Mounted' <=> new[id] # Gone
      <3>1. Loaded' /\ Shown'.libs = new
        BY <1>1 DEF Loaded, Shown, FoundLibs
      <3> QED
        BY <1>1, <1>4, <3>1 DEF Mounted
    <2>4. \A id \in LibId : ShownLibs[id] = Gone => id \notin Mounted
      BY DEF ShownLibs, Mounted
    <2> HIDE DEF new
    <2>5. ~Blank.busy /\ \A id : ~Named(new, id).busy
      BY DEF Blank, Named
    <2>6. ASSUME NEW id \in LibId
          PROVE  Flagged(editors'[id].busy, EditorWrites(sent', id)) /\ (id \notin Mounted' => ~editors'[id].busy)
      <3>1. editors'[id] = Kept(ShownLibs, new, id)
        BY <2>1
      <3>2. CASE new[id] = Gone
        <4>1. editors'[id] = Blank /\ EditorWrites(sent', id) = {}
          BY <2>2, <3>1, <3>2 DEF Kept
        <4> QED
          BY <2>5, <4>1, FlagNone
      <3>3. CASE new[id] # Gone /\ ShownLibs[id] = Gone
        <4>1. editors'[id] = Named(new, id) /\ EditorWrites(sent', id) = EditorWrites(sent, id)
          BY <2>2, <3>1, <3>3 DEF Kept
        <4>2. EditorWrites(sent, id) = {}
          BY <2>4, <3>3 DEF FlagInv, Flagged
        <4> QED
          BY <2>5, <4>1, <4>2, FlagNone
      <3>4. CASE new[id] # Gone /\ ShownLibs[id] # Gone
        <4>1. editors'[id] = editors[id] /\ EditorWrites(sent', id) = EditorWrites(sent, id)
          BY <2>2, <3>1, <3>4 DEF Kept
        <4> QED
          BY <2>3, <3>4, <4>1 DEF FlagInv
      <3> QED
        BY <3>2, <3>3, <3>4
    <2> QED
      BY <1>1, <1>4, <2>2, <2>6 DEF FlagInv
  <1> QED
    BY <1>2, <1>3, <1>4

LEMMA FlagStep == ASSUME AdminTypes, SentInv, AdminMoves, FlagInv PROVE FlagInv'
  <1>1. editors \in [LibId -> EditorOf] /\ panel \in PanelOf /\ \A w \in sent : WellSent(w)
    BY DEF AdminTypes
  <1>2. UNCHANGED <<at, view>> => Mounted' = Mounted
    BY MountedStays
  <1>3. ASSUME UNCHANGED <<at, view, sent, editors>>, panel'.creating = panel.creating, panel'.busy = panel.busy,
               panel'.fixBusy = panel.fixBusy, panel'.fix = panel.fix \/ at = "status"
        PROVE  FlagInv'
    <2>1. Mounted' = Mounted /\ SameWriters(sent', sent) /\ Pins(sent') = Pins(sent)
      BY <1>2, <1>3, StillSame
    <2>2. \A id \in LibId : editors'[id].busy = editors[id].busy
      BY <1>3
    <2> QED
      BY <1>3, <2>1, <2>2, SameFlags
  <1>4. (\E p \in {"libraries", "status"} : Visit(p)) => FlagInv'
    BY FlagVisit
  <1>5. RefreshClick \/ UNCHANGED adminVars => FlagInv'
    BY <1>3 DEF RefreshClick, adminVars
  <1>6. TimerFires => FlagInv'
    <2> SUFFICES ASSUME TimerFires PROVE FlagInv'
      OBVIOUS
    <2>1. /\ panel'.creating = panel.creating /\ panel'.busy = panel.busy /\ panel'.fixBusy = panel.fixBusy
          /\ panel'.fix = panel.fix
      BY <1>1 DEF TimerFires, PanelOf
    <2>2. UNCHANGED <<at, view, sent, editors>>
      BY DEF TimerFires
    <2> QED
      BY <1>3, <2>1, <2>2
  <1>7. ASSUME NEW i \in 1 .. Len(reads)
        PROVE  (\E part \in AdminPart : ReadServed(i, part)) \/ ReadFails(i) => FlagInv'
    BY <1>3 DEF ReadServed, ReadFails
  <1>8. (\E i \in 1 .. Len(reads) : ReadArrives(i)) => FlagInv'
    BY FlagArrives
  <1>9. ASSUME NEW id \in LibId, NEW name \in Typed, TypeName(id, name) PROVE FlagInv'
    <2>1. UNCHANGED <<at, view, sent, panel>>
      BY <1>9 DEF TypeName
    <2>2. \A j \in LibId : editors'[j].busy = editors[j].busy
      <3> DEFINE e == editors[id]
                 x == [e EXCEPT !.box = name, !.edited = TRUE]
      <3>1. x.busy = e.busy
        BY <1>1 DEF EditorOf
      <3>2. editors' = [editors EXCEPT ![id] = x]
        BY <1>1, <1>9 DEF TypeName
      <3> HIDE DEF x, EditorOf
      <3> QED
        BY <1>1, <3>1, <3>2
    <2>3. Mounted' = Mounted /\ SameWriters(sent', sent) /\ Pins(sent') = Pins(sent)
      BY <1>2, <2>1, StillSame
    <2> QED
      BY <2>1, <2>2, <2>3, SameFlags
  <1>10. ASSUME NEW t \in Title, FixMatch(t) PROVE FlagInv'
    <2>1. UNCHANGED <<at, view, sent, editors>> /\ at = "status" /\ panel' = [panel EXCEPT !.fix = t]
      BY <1>10 DEF FixMatch
    <2>2. panel'.creating = panel.creating /\ panel'.busy = panel.busy /\ panel'.fixBusy = panel.fixBusy
      BY <1>1, <2>1 DEF PanelOf
    <2> QED
      BY <1>3, <2>1, <2>2
  <1>11. CloseFix => FlagInv'
    <2> SUFFICES ASSUME CloseFix PROVE FlagInv'
      OBVIOUS
    <2>1. sent' = {NoPin(w) : w \in sent} /\ panel' = DialogClosed(panel) /\ UNCHANGED <<at, view, editors>>
      BY CloseFixIs
    <2>2. panel'.creating = panel.creating /\ panel'.busy = panel.busy /\ ~panel'.fixBusy /\ panel'.fix = Gone
      BY <1>1, <2>1 DEF DialogClosed, PanelOf
    <2>3. SameWriters(sent', sent) /\ Pins(sent') = {}
      BY <1>1, <2>1, NoPinWriters
    <2>4. Flagged(panel'.fixBusy, Pins(sent'))
      BY <2>2, <2>3, FlagNone
    <2> QED
      BY <1>2, <2>1, <2>2, <2>3, <2>4 DEF FlagInv, SameWriters
  <1>12. ASSUME NEW w \in sent, EditServed(w) PROVE FlagInv'
    <2>1. PICK x : /\ x.n = w.n /\ x.kind = w.kind /\ x.id = w.id /\ x.owned = w.owned /\ x.paged = w.paged
                   /\ sent' = (sent \ {w}) \cup {x}
      BY <1>12, ServedIs
    <2>2. SameWriters(sent', sent) /\ Pins(sent') = Pins(sent)
      BY <2>1, ServedSameWriters
    <2>3. UNCHANGED <<at, view, editors, panel>>
      BY <1>12 DEF EditServed
    <2> QED
      BY <1>2, <2>2, <2>3, SameFlags
  <1>13. ASSUME NEW w \in sent, EditAnswered(w) \/ EditRefused(w) \/ EditLost(w) PROVE FlagInv'
    <2>1. UNCHANGED <<at, view>>
      BY <1>13, AnsweredIs, RefusedIs, LostIs
    <2>2. \/ Settles(w, TRUE) /\ (Closes(w, TRUE) => sent' = {NoPin(x) : x \in Others(w)}) /\ (~Closes(w, TRUE) => sent' = Others(w))
          \/ Settles(w, FALSE) /\ ~Closes(w, FALSE) /\ sent' = Others(w)
      BY <1>13, AnsweredIs, RefusedIs, LostIs
    <2> QED
      BY <1>2, <2>1, <2>2, SettlesKeepsFlags
  <1> QED
    BY <1>4, <1>5, <1>6, <1>7, <1>8, <1>9, <1>10, <1>11, <1>12, <1>13, FlagSends DEF AdminMoves

LEMMA FlagsAlways == Spec => []FlagInv
  <1>1. Init => FlagInv
    <2> SUFFICES ASSUME Init PROVE FlagInv
      OBVIOUS
    <2>1. sent = {} /\ editors = [id \in LibId |-> Blank] /\ panel = FreshPanel
      BY DEF Init, AdminInit
    <2>2. ~Blank.busy /\ ~FreshPanel.creating /\ ~FreshPanel.busy /\ ~FreshPanel.fixBusy /\ FreshPanel.fix = Gone
      BY DEF Blank, FreshPanel
    <2>3. (\A id \in LibId : EditorWrites(sent, id) = {}) /\ Creates(sent) = {} /\ Passes(sent) = {} /\ Pins(sent) = {}
      BY <2>1 DEF EditorWrites, Creates, Passes, Pins
    <2>4. \A id \in LibId : Flagged(editors[id].busy, EditorWrites(sent, id)) /\ ~editors[id].busy
      BY <2>1, <2>2, <2>3, FlagNone
    <2>5. Flagged(panel.creating, Creates(sent)) /\ Flagged(panel.busy, Passes(sent)) /\ Flagged(panel.fixBusy, Pins(sent))
      BY <2>1, <2>2, <2>3, FlagNone
    <2> QED
      BY <2>1, <2>2, <2>3, <2>4, <2>5 DEF FlagInv
  <1>2. AdminTypes /\ SentInv /\ FlagInv /\ [Next]_webVars => FlagInv'
    BY AdminCases, FlagStep
  <1> QED
    BY <1>1, <1>2, AdminTypesAlways, PTL DEF Spec

LEMMA FlagsAreTrue == ASSUME AdminTypes, FlagInv PROVE BusyIsTrue
  <1>1. \A id \in LibId : editors[id].busy <=> \E w \in sent : w.owned /\ w.id = id
    BY DEF FlagInv, Flagged, EditorWrites
  <1>2. panel.creating <=> \E w \in sent : w.paged /\ w.kind = "create"
    BY DEF FlagInv, Flagged, Creates
  <1>3. panel.busy <=> at = "status" /\ \E w \in sent : w.paged /\ w.kind \in {"enrich", "backfill"}
    BY DEF FlagInv, Flagged, Passes
  <1>4. panel.fixBusy <=> \E w \in sent : w.owned /\ w.kind = "pin"
    BY DEF FlagInv, Flagged, Pins
  <1>5. \A id \in Mounted : id \in LibId
    BY MountedAre
  <1> QED
    BY <1>1, <1>2, <1>3, <1>4, <1>5 DEF BusyIsTrue

-----------------------------------------------------------------------------
(* The settings: a box nobody typed in holds the name of its library *)

\* A library is created at a number that is free (INTEGER PRIMARY KEY).
LEMMA NextIsFree ==
    ASSUME NEW libs, NEW id \in LibId, id = NextId(libs)
    PROVE  libs[id] = Gone
  <1> DEFINE J == {j \in LibId : \E k \in j .. MaxLibs : libs[k] # Gone}
  <1> SUFFICES ASSUME libs[id] # Gone PROVE FALSE
    OBVIOUS
  <1>1. IsFiniteSet(LibId) /\ J \subseteq LibId
    BY AdminBounds, FS_Interval DEF LibId
  <1>2. IsFiniteSet(J) /\ Cardinality(J) \in Nat
    BY <1>1, FS_Subset, FS_CardinalityType
  <1>3. MaxLibs \in Nat /\ id \in Nat /\ id \in 1 .. MaxLibs
    BY AdminBounds DEF LibId
  <1>4. 1 .. id \subseteq J
    <2> SUFFICES ASSUME NEW j \in 1 .. id PROVE j \in J
      OBVIOUS
    <2>1. j \in LibId /\ id \in j .. MaxLibs
      BY <1>3 DEF LibId
    <2> QED
      BY <2>1
  <1>5. id = 1 + Cardinality(J)
    BY DEF NextId
  <1> HIDE DEF J
  <1>6. Cardinality(1 .. id) = id /\ Cardinality(1 .. id) <= Cardinality(J)
    <2>1. Cardinality(1 .. id) = id
      BY <1>3, FS_Interval
    <2>2. Cardinality(1 .. id) <= Cardinality(J)
      BY <1>2, <1>4, FS_Subset
    <2> QED
      BY <2>1, <2>2
  <1> QED
    BY <1>2, <1>3, <1>5, <1>6

\* A library's name is changed by a rename of it alone, one that is gone comes
\* back by a creation alone.
LEMMA EffectAt ==
    ASSUME AdminTypes, NEW w, WellSent(w), ~Refuses(w), NEW id \in LibId
    PROVE  LET old == Now.libs[id]
               new == Effect(Now, w).libs[id]
           IN  /\ old # Gone /\ new # Gone /\ ~(w.kind = "rename" /\ w.id = id) => new.name = old.name
               /\ old = Gone /\ new # Gone => w.kind = "create" /\ id = NextId(Now.libs)
  <1> DEFINE s == Now
  <1>1. s \in Server /\ s.libs \in [LibId -> Lib \cup {Gone}]
    BY StatesAre DEF Server
  <1> HIDE DEF s
  <1>2. CASE w.kind = "create"
    <2> DEFINE k == NextId(s.libs)
               lib == [name |-> w.arg, folders |-> Folder]
    <2>1. Effect(s, w) = [s EXCEPT !.libs = [s.libs EXCEPT ![k] = lib]]
      BY <1>2 DEF Effect
    <2> HIDE DEF lib, k
    <2>2. Effect(s, w).libs = [s.libs EXCEPT ![k] = lib]
      BY <1>1, <2>1 DEF Server
    <2>3. Effect(s, w).libs[id] = IF id = k THEN lib ELSE s.libs[id]
      BY <1>1, <2>2
    <2>4. id = k => s.libs[id] = Gone
      BY NextIsFree DEF k
    <2> QED
      BY <1>2, <2>3, <2>4 DEF s, k
  <1>3. CASE w.kind = "pin"
    <2>1. Effect(s, w) = [s EXCEPT !.unmatched = s.unmatched \ {w.id}]
      BY <1>3 DEF Effect
    <2>2. Effect(s, w).libs = s.libs
      BY <1>1, <2>1 DEF Server
    <2> QED
      BY <2>2 DEF s
  <1>4. CASE w.kind \notin {"create", "pin"} /\ w.id = Gone
    <2>1. Effect(s, w) = s
      BY <1>4 DEF Effect
    <2> QED
      BY <2>1 DEF s
  <1>5. CASE w.kind \notin {"create", "pin"} /\ w.id # Gone
    <2> DEFINE k == w.id
               lib == Renamed(s.libs[k], w)
    <2>1. k \in LibId
      BY <1>5 DEF WellSent, IdsOf
    <2>2. s.libs[k] \in Lib
      <3>1. s.libs[k] # Gone
        BY <2>1 DEF Refuses, s
      <3> QED
        BY <1>1, <2>1, <3>1
    <2>3. Effect(s, w) = [s EXCEPT !.libs = [s.libs EXCEPT ![k] = lib]]
      BY <1>5 DEF Effect
    <2>4. lib # Gone /\ w.kind # "rename" => lib.name = s.libs[k].name
      BY <2>2 DEF Renamed, Lib
    <2>5. s.libs[k] # Gone
      BY <2>1 DEF Refuses, s
    <2> HIDE DEF lib, k, Lib
    <2>6. Effect(s, w).libs = [s.libs EXCEPT ![k] = lib]
      BY <1>1, <2>3 DEF Server
    <2>7. Effect(s, w).libs[id] = IF id = k THEN lib ELSE s.libs[id]
      BY <1>1, <2>1, <2>6
    <2> QED
      BY <2>4, <2>5, <2>7 DEF s, k
  <1> QED
    BY <1>2, <1>3, <1>4, <1>5

LibAt(n, id) == past[n].libs[id]
ListSeen == view["list"]
\* The library list is up, and neither a number used twice, nor a write of an
\* earlier visit, nor an answer out of order was ever in play.
Clean == at = "libraries" /\ excused \cap {"reused", "left", "overtaken"} = {}
\* Before the first answer nothing was written.
FirstInv == Clean /\ ListSeen = 0 => sent = {} /\ \A i \in 1 .. Len(reads) : reads[i]["list"] \in {0, Len(past)}
\* A library that has gone since it was shown stays away.
NoReuse ==
    Clean /\ ListSeen > 0 =>
        \A m \in ListSeen .. Len(past), j \in 1 .. Len(past), n \in 1 .. Len(past), id \in LibId :
            j <= m /\ m <= n /\ LibAt(j, id) # Gone /\ LibAt(m, id) = Gone => LibAt(n, id) = Gone
\* A box nobody typed in has the name its library has had since it was shown,
\* and one that comes will find the same name in whichever answer brings it.
BoxInv ==
    Clean /\ ListSeen > 0 => \A id \in LibId :
        /\ LibAt(ListSeen, id) # Gone /\ ~editors[id].edited =>
             \A n \in ListSeen .. Len(past) : LibAt(n, id) # Gone => LibAt(n, id).name = editors[id].box
        /\ LibAt(ListSeen, id) = Gone =>
             \A m, n \in ListSeen .. Len(past) : LibAt(m, id) # Gone /\ LibAt(n, id) # Gone => LibAt(m, id).name = LibAt(n, id).name
\* A rename under way is of a library that was shown, from a box someone typed in.
RenameInv ==
    Clean => \A w \in sent : w.kind = "rename" /\ w.reply = "none" =>
        /\ ListSeen > 0 /\ \E j \in 1 .. ListSeen : LibAt(j, w.id) # Gone
        /\ LibAt(ListSeen, w.id) # Gone => editors[w.id].edited
NameInv == FirstInv /\ NoReuse /\ BoxInv /\ RenameInv

LEMMA FirstStep == ASSUME AdminTypes, SentInv, FlagInv, AdminMoves, FirstInv PROVE FirstInv'
  <1> DEFINE S == ReadOf(Len(past))
  <1>1. Len(past) \in Nat /\ reads \in Seq(S) /\ Unanswered \in S /\ view["list"] \in 0 .. Len(past)
    BY StatesAre, UnansweredIs DEF AdminTypes
  <1>2. Unanswered["list"] = 0
    BY DEF Unanswered
  <1> HIDE DEF S
  <1>3. ASSUME UNCHANGED <<past, at, view>>, excused \cap {"reused", "left", "overtaken"} \subseteq excused', sent = {} => sent' = {},
               \A i \in 1 .. Len(reads') : \/ reads'[i]["list"] \in {0, Len(past)}
                                           \/ \E j \in 1 .. Len(reads) : reads'[i]["list"] = reads[j]["list"]
        PROVE  FirstInv'
    BY <1>3 DEF FirstInv, Clean, ListSeen
  <1>4. ASSUME UNCHANGED reads \/ Refreshed, NEW i \in 1 .. Len(reads')
        PROVE  reads'[i]["list"] \in {0, Len(past)} \/ \E j \in 1 .. Len(reads) : reads'[i]["list"] = reads[j]["list"]
    <2>1. CASE UNCHANGED reads
      BY <1>4, <2>1
    <2>2. CASE Refreshed
      <3>1. Len(reads') = Len(reads) + 1 /\ reads'[Len(reads) + 1] = Unanswered /\ \A j \in 1 .. Len(reads) : reads'[j] = reads[j]
        BY <1>1, <2>2, AppendIs DEF Refreshed
      <3>2. i \in 1 .. Len(reads) \/ i = Len(reads) + 1
        BY <1>1, <1>4, <3>1
      <3> QED
        BY <1>2, <3>1, <3>2
    <2> QED
      BY <1>4, <2>1, <2>2
  <1>5. ASSUME NEW p, Visit(p) PROVE FirstInv'
    <2>1. /\ reads' = <<Unanswered>> /\ excused' = (IF sent = {} THEN {} ELSE {"left"}) /\ sent' = {Unpaged(w) : w \in sent}
      BY <1>5, VisitIs
    <2>2. Clean' => sent' = {}
      BY <2>1 DEF Clean
    <2>3. \A i \in 1 .. Len(reads') : reads'[i]["list"] = 0
      BY <1>2, <2>1
    <2> QED
      BY <2>2, <2>3 DEF FirstInv
  <1>6. RefreshClick \/ TimerFires \/ UNCHANGED adminVars => FirstInv'
    <2>1. RefreshClick \/ TimerFires \/ UNCHANGED adminVars =>
            UNCHANGED <<past, at, view, sent, excused>> /\ (UNCHANGED reads \/ Refreshed)
      BY DEF RefreshClick, TimerFires, adminVars
    <2> QED
      BY <1>3, <1>4, <2>1
  <1>7. ASSUME NEW i \in 1 .. Len(reads), NEW part \in AdminPart, ReadServed(i, part) PROVE FirstInv'
    <2>1. "list" \in AdminPart /\ UNCHANGED <<past, at, view, sent, excused>> /\ Len(reads') = Len(reads)
      BY <1>7, ReadServedIs DEF AdminPart
    <2>2. \A j \in 1 .. Len(reads') : reads'[j]["list"] \in {0, Len(past)} \/ reads'[j]["list"] = reads[j]["list"]
      BY <1>7, <2>1, ReadServedIs
    <2> QED
      BY <1>3, <2>1, <2>2
  <1>8. ASSUME NEW i \in 1 .. Len(reads), ReadArrives(i) PROVE FirstInv'
    <2>1. view' = reads[i] /\ reads[i]["list"] \in 1 .. Len(past)
      BY <1>8, ArrivesIs
    <2> QED
      BY <1>1, <2>1 DEF FirstInv, ListSeen
  <1>9. ASSUME NEW i \in 1 .. Len(reads), ReadFails(i) PROVE FirstInv'
    <2>1. UNCHANGED <<past, at, view, sent>> /\ excused \subseteq excused' /\ reads' = Without(reads, i)
      BY <1>9 DEF ReadFails
    <2>2. \A j \in 1 .. Len(reads') : \E k \in 1 .. Len(reads) : reads'[j] = reads[k]
      BY <1>1, <2>1, WithoutIs
    <2> QED
      BY <1>3, <2>1, <2>2
  <1>10. ASSUME Loaded \/ at = "status", UNCHANGED <<at, view>> PROVE FirstInv'
    BY <1>10 DEF FirstInv, Clean, ListSeen, Loaded
  <1>11. (\E id \in LibId, kind \in EditorKind : \E arg : EditorSends(id, kind, arg))
         \/ Create \/ Backfill \/ (\E kind \in {"enrich", "backfill"} : RunPass(kind)) \/ PinFix => FirstInv'
    <2>1. SomeoneSends => UNCHANGED <<at, view>>
      BY DEF SomeoneSends, Submits
    <2>2. (\E id \in LibId, kind \in EditorKind : \E arg : EditorSends(id, kind, arg)) => Loaded
      BY MountedAre DEF EditorSends, Runs
    <2>3. Create \/ Backfill \/ (\E kind \in {"enrich", "backfill"} : RunPass(kind)) => Loaded
      BY DEF Create, Backfill, RunPass
    <2>4. PinFix => at = "status"
      BY DEF PinFix, FlagInv
    <2> QED
      BY <1>10, <2>1, <2>2, <2>3, <2>4, SendersSend
  <1>12. (\E id \in LibId, name \in Typed : TypeName(id, name)) \/ (\E t \in Title : FixMatch(t)) => FirstInv'
    <2>1. (\E id \in LibId, name \in Typed : TypeName(id, name)) \/ (\E t \in Title : FixMatch(t)) =>
            UNCHANGED <<past, at, view, reads, sent, excused>>
      BY DEF TypeName, FixMatch
    <2> QED
      BY <1>3, <1>4, <2>1
  <1>13. CloseFix => FirstInv'
    <2> SUFFICES ASSUME CloseFix PROVE FirstInv'
      OBVIOUS
    <2>1. sent' = {NoPin(w) : w \in sent} /\ UNCHANGED <<past, at, view, reads, excused>>
      BY CloseFixIs
    <2>2. sent = {} => sent' = {}
      BY <2>1
    <2> QED
      BY <1>3, <1>4, <2>1, <2>2
  <1>14. ASSUME NEW w \in sent, EditServed(w) \/ EditAnswered(w) \/ EditRefused(w) \/ EditLost(w) PROVE FirstInv'
    <2>1. UNCHANGED <<at, view>> /\ excused \subseteq excused'
      BY <1>14, ZenonT(30) DEF EditServed, EditAnswered, EditRefused, EditLost
    <2> QED
      BY <1>14, <2>1 DEF FirstInv, Clean, ListSeen
  <1> QED
    BY <1>5, <1>6, <1>7, <1>8, <1>9, <1>11, <1>12, <1>13, <1>14 DEF AdminMoves

\* A step in which no library changes and no answer arrives.
SameBoxes ==
    /\ UNCHANGED <<past, at, view>> /\ excused \cap {"reused", "left", "overtaken"} \subseteq excused'
    /\ \A id \in LibId : \/ editors'[id].edited
                         \/ ~editors[id].edited /\ ~editors'[id].edited /\ editors'[id].box = editors[id].box
    /\ \A x \in sent' : x.kind = "rename" /\ x.reply = "none" =>
         \/ \E w \in sent : w.kind = "rename" /\ w.reply = "none" /\ w.id = x.id
         \/ x.id \in Mounted /\ (Clean => editors'[x.id].edited)
LEMMA SameBoxesKeep == ASSUME AdminTypes, NameInv, SameBoxes PROVE NoReuse' /\ BoxInv' /\ RenameInv'
  <1>1. \A n, id : LibAt(n, id)' = LibAt(n, id)
    BY DEF SameBoxes, LibAt
  <1>2. ListSeen' = ListSeen /\ Len(past') = Len(past) /\ (Clean' => Clean)
    BY DEF SameBoxes, ListSeen, Clean
  <1>3. NoReuse'
    BY <1>1, <1>2 DEF NameInv, NoReuse
  <1>4. BoxInv'
    BY <1>1, <1>2 DEF NameInv, BoxInv, SameBoxes
  <1>5. ASSUME Clean', NEW x \in sent', x.kind = "rename", x.reply = "none"
        PROVE  /\ ListSeen > 0 /\ \E j \in 1 .. ListSeen : LibAt(j, x.id) # Gone
               /\ LibAt(ListSeen, x.id) # Gone => editors'[x.id].edited
    <2>1. Clean
      BY <1>2, <1>5
    <2>2. ASSUME NEW w \in sent, w.kind = "rename", w.reply = "none", w.id = x.id
          PROVE  /\ ListSeen > 0 /\ \E j \in 1 .. ListSeen : LibAt(j, x.id) # Gone
                 /\ LibAt(ListSeen, x.id) # Gone => editors'[x.id].edited
      <3>1. w.id \in LibId
        BY <2>2 DEF AdminTypes, WellSent, IdsOf
      <3>2. editors[w.id].edited => editors'[w.id].edited
        BY <3>1 DEF SameBoxes
      <3> QED
        BY <2>1, <2>2, <3>2 DEF NameInv, RenameInv
    <2>3. ASSUME x.id \in Mounted, editors'[x.id].edited
          PROVE  /\ ListSeen > 0 /\ \E j \in 1 .. ListSeen : LibAt(j, x.id) # Gone
                 /\ LibAt(ListSeen, x.id) # Gone => editors'[x.id].edited
      <3>1. Loaded /\ Shown.libs[x.id] # Gone
        BY <2>3, MountedAre
      <3>2. ListSeen > 0 /\ LibAt(ListSeen, x.id) # Gone /\ ListSeen \in 1 .. ListSeen
        BY <3>1, StatesAre DEF Loaded, Shown, LibAt, ListSeen
      <3> QED
        BY <2>3, <3>2
    <2> QED
      BY <1>5, <2>1, <2>2, <2>3 DEF SameBoxes
  <1>6. RenameInv'
    BY <1>1, <1>2, <1>5 DEF RenameInv
  <1> QED
    BY <1>3, <1>4, <1>6

\* The server serves a write: a library's name changes by a rename alone, which
\* finds the box typed in or the library gone; one that comes back is noticed.
LEMMA GrownBoxes ==
    ASSUME AdminTypes, AdminMoves, NameInv, NEW w \in sent, EditServed(w), ~Refuses(w), Len(past') = Len(past) + 1,
           past'[Len(past) + 1] = Effect(Now, w), \A n \in 1 .. Len(past) : past'[n] = past[n]
    PROVE  NoReuse' /\ BoxInv' /\ RenameInv'
  <1>0. PICK m, v : m = Len(past) /\ v = ListSeen
    OBVIOUS
  <1> DEFINE k == m + 1
             NewAt(id) == Effect(Now, w).libs[id]
  <1>1. m \in Nat \ {0} /\ view["list"] \in 0 .. m /\ WellSent(w)
    BY <1>0, StatesAre DEF AdminTypes
  <1>2. ListSeen' = v /\ ListSeen = v /\ v \in 0 .. m /\ UNCHANGED <<at, view, editors>> /\ w.reply = "none"
    BY <1>0, <1>1 DEF EditServed, ListSeen
  <1>3. excused' = excused \/ excused' = excused \cup {"reused"}
    BY ZenonT(30) DEF EditServed
  <1>4. Clean' => Clean
    BY <1>2, <1>3 DEF Clean
  <1>5. \A n \in 1 .. m, id \in LibId : LibAt(n, id)' = LibAt(n, id)
    BY <1>0 DEF LibAt
  <1>6. \A id : LibAt(k, id)' = NewAt(id)
    BY <1>0 DEF LibAt
  <1>7. \A id : LibAt(m, id) = Now.libs[id]
    BY <1>0 DEF LibAt, Now
  <1>8. ASSUME Clean', NEW id \in LibId, LibAt(m, id) = Gone, NewAt(id) # Gone, NEW j \in 1 .. m PROVE LibAt(j, id) = Gone
    <2>1. w.kind = "create" /\ id = NextId(Now.libs)
      BY <1>1, <1>7, <1>8, EffectAt
    <2>2. ~\E i \in 1 .. Len(past) : past[i].libs[NextId(Now.libs)] # Gone
      <3>1. "reused" \notin excused'
        BY <1>8 DEF Clean
      <3>2. w.kind = "create" /\ ~Refuses(w) /\ (\E i \in 1 .. Len(past) : past[i].libs[NextId(Now.libs)] # Gone)
            => "reused" \in excused'
        BY ZenonT(30) DEF EditServed
      <3> QED
        BY <2>1, <3>1, <3>2
    <2> QED
      BY <1>0, <2>1, <2>2 DEF LibAt
  <1>9. \A id \in LibId : LibAt(m, id) # Gone /\ NewAt(id) # Gone /\ ~(w.kind = "rename" /\ w.id = id)
                          => NewAt(id).name = LibAt(m, id).name
    BY <1>1, <1>7, EffectAt
  <1>10. ASSUME Clean, w.kind = "rename", w.id \in LibId
         PROVE  v > 0 /\ LibAt(v, w.id) # Gone /\ editors[w.id].edited
    <2>1. v > 0 /\ (LibAt(v, w.id) # Gone => editors[w.id].edited) /\ \E j \in 1 .. v : LibAt(j, w.id) # Gone
      BY <1>0, <1>2, <1>10 DEF NameInv, RenameInv
    <2>2. LibAt(m, w.id) # Gone
      BY <1>7, <1>10 DEF Refuses
    <2>3. LibAt(v, w.id) # Gone
      <3> SUFFICES ASSUME LibAt(v, w.id) = Gone PROVE FALSE
        OBVIOUS
      <3>1. PICK j \in 1 .. v : LibAt(j, w.id) # Gone
        BY <2>1
      <3>2. v \in v .. m /\ j \in 1 .. m /\ m \in 1 .. m /\ j <= v /\ v <= m
        BY <1>1, <1>2, <2>1
      <3> QED
        BY <1>0, <1>2, <1>10, <2>1, <2>2, <3>1, <3>2 DEF NameInv, NoReuse
    <2> QED
      BY <2>1, <2>3
  <1> HIDE DEF NewAt
  <1>11. \A n \in 1 .. k : n \in 1 .. m \/ n = k
    BY <1>1
  <1>a. m \in Nat /\ v \in Nat
    BY <1>1, <1>2
  <1>12. \A n \in v .. k : v > 0 => n \in v .. m \/ n = k
    BY <1>a
  <1>13. \A n \in v .. m : v > 0 => n \in 1 .. m
    BY <1>a
  <1>14. NoReuse'
    <2> SUFFICES ASSUME Clean', v > 0, NEW i \in v .. k, NEW j \in 1 .. k, NEW n \in 1 .. k, NEW id \in LibId,
                        j <= i, i <= n, LibAt(j, id)' # Gone, LibAt(i, id)' = Gone
                 PROVE  LibAt(n, id)' = Gone
      BY <1>0, <1>2 DEF NoReuse
    <2>1. CASE n \in 1 .. m
      <3>1. i \in v .. m /\ j \in 1 .. m /\ i \in 1 .. m
        BY <1>1, <1>2, <2>1
      <3>2. LibAt(j, id) # Gone /\ LibAt(i, id) = Gone
        BY <1>5, <3>1
      <3>3. LibAt(n, id) = Gone
        BY <1>0, <1>2, <1>4, <2>1, <3>1, <3>2 DEF NameInv, NoReuse
      <3> QED
        BY <1>5, <2>1, <3>3
    <2>2. CASE n = k
      <3> SUFFICES ASSUME NewAt(id) # Gone PROVE FALSE
        BY <1>6, <2>2
      <3>1. i \in v .. m /\ i \in 1 .. m
        BY <1>1, <1>2, <1>6, <1>12, <1>13
      <3>2. j \in 1 .. m /\ i <= m /\ m \in 1 .. m
        BY <1>1, <3>1
      <3>3. LibAt(j, id) # Gone /\ LibAt(i, id) = Gone
        BY <1>5, <3>1, <3>2
      <3>4. LibAt(m, id) = Gone
        BY <1>0, <1>2, <1>4, <3>1, <3>2, <3>3 DEF NameInv, NoReuse
      <3> QED
        BY <1>8, <3>2, <3>3, <3>4
    <2> QED
      BY <1>11, <2>1, <2>2
  <1>15. ASSUME Clean', v > 0, NEW id \in LibId, NewAt(id) # Gone, LibAt(m, id) # Gone,
                LibAt(v, id) # Gone => ~editors[id].edited
         PROVE  NewAt(id).name = LibAt(m, id).name
    BY <1>4, <1>9, <1>10, <1>15
  <1>16. BoxInv'
    <2> SUFFICES ASSUME Clean', v > 0, NEW id \in LibId
                 PROVE  /\ LibAt(v, id) # Gone /\ ~editors[id].edited =>
                             \A n \in v .. k : LibAt(n, id)' # Gone => LibAt(n, id)'.name = editors[id].box
                        /\ LibAt(v, id) = Gone =>
                             \A i, n \in v .. k : LibAt(i, id)' # Gone /\ LibAt(n, id)' # Gone
                                                       => LibAt(i, id)'.name = LibAt(n, id)'.name
      <3>1. v > 0 => v \in 1 .. m
        BY <1>1, <1>2
      <3>2. v > 0 => \A id \in LibId : LibAt(v, id)' = LibAt(v, id)
        BY <1>5, <3>1
      <3>3. Len(past') = k
        BY <1>0
      <3> HIDE DEF k
      <3> QED
        BY <1>2, <3>2, <3>3 DEF BoxInv
    <2>1. /\ LibAt(v, id) # Gone /\ ~editors[id].edited =>
                \A n \in v .. m : LibAt(n, id) # Gone => LibAt(n, id).name = editors[id].box
          /\ LibAt(v, id) = Gone =>
                \A i, n \in v .. m : LibAt(i, id) # Gone /\ LibAt(n, id) # Gone => LibAt(i, id).name = LibAt(n, id).name
      BY <1>0, <1>2, <1>4 DEF NameInv, BoxInv
    <2>2. m \in v .. m /\ v \in 1 .. m
      BY <1>1, <1>2
    <2>3. ASSUME LibAt(v, id) # Gone, ~editors[id].edited, NEW n \in v .. k, LibAt(n, id)' # Gone
          PROVE  LibAt(n, id)'.name = editors[id].box
      <3>1. CASE n \in v .. m
        BY <1>5, <1>13, <2>1, <2>3, <3>1
      <3>2. CASE n = k
        <4>1. NewAt(id) # Gone
          BY <1>6, <2>3, <3>2
        <4>2. LibAt(m, id) # Gone
          BY <1>8, <2>2, <2>3, <4>1
        <4>3. NewAt(id).name = LibAt(m, id).name
          BY <1>15, <2>3, <4>1, <4>2
        <4> QED
          BY <1>6, <2>1, <2>2, <2>3, <3>2, <4>2, <4>3
      <3> QED
        BY <1>12, <3>1, <3>2
    <2>4. ASSUME LibAt(v, id) = Gone, NEW n \in v .. m, LibAt(n, id) # Gone, NewAt(id) # Gone
          PROVE  NewAt(id).name = LibAt(n, id).name
      <3>1. LibAt(m, id) # Gone
        BY <1>8, <1>13, <2>4
      <3>2. NewAt(id).name = LibAt(m, id).name
        BY <1>15, <2>4, <3>1
      <3> QED
        BY <2>1, <2>2, <2>4, <3>1, <3>2
    <2>5. ASSUME LibAt(v, id) = Gone, NEW i \in v .. k, NEW n \in v .. k, LibAt(i, id)' # Gone, LibAt(n, id)' # Gone
          PROVE  LibAt(i, id)'.name = LibAt(n, id)'.name
      <3>1. i \in v .. m \/ i = k
        BY <1>12
      <3>2. n \in v .. m \/ n = k
        BY <1>12
      <3>3. CASE i \in v .. m /\ n \in v .. m
        BY <1>5, <1>13, <2>1, <2>5, <3>3
      <3>4. CASE i = k /\ n \in v .. m
        BY <1>5, <1>6, <1>13, <2>4, <2>5, <3>4
      <3>5. CASE i \in v .. m /\ n = k
        BY <1>5, <1>6, <1>13, <2>4, <2>5, <3>5
      <3> QED
        BY <3>1, <3>2, <3>3, <3>4, <3>5
    <2> QED
      BY <2>3, <2>5
  <1>17. RenameInv'
    <2> SUFFICES ASSUME Clean', NEW x \in sent', x.kind = "rename", x.reply = "none"
                 PROVE  /\ v > 0 /\ \E j \in 1 .. v : LibAt(j, x.id)' # Gone
                        /\ LibAt(v, x.id)' # Gone => editors[x.id].edited
      BY <1>2 DEF RenameInv
    <2>1. x \in sent
      BY ServedIs
    <2>2. x.id \in LibId
      BY <2>1 DEF AdminTypes, WellSent, IdsOf
    <2>3. /\ v > 0 /\ \E j \in 1 .. v : LibAt(j, x.id) # Gone
          /\ LibAt(v, x.id) # Gone => editors[x.id].edited
      BY <1>0, <1>2, <1>4, <2>1 DEF NameInv, RenameInv
    <2>4. v \in 1 .. m /\ \A j \in 1 .. v : j \in 1 .. m
      BY <1>1, <1>2, <2>3
    <2> QED
      BY <1>5, <2>2, <2>3, <2>4
  <1> QED
    BY <1>14, <1>16, <1>17

\* An answer arrives: it is no older than what was shown; an editor that comes
\* is filled with a name that has not changed since the answer was given.
LEMMA ArrivesBoxes ==
    ASSUME AdminTypes, NameInv, NEW i \in 1 .. Len(reads), ReadArrives(i)
    PROVE  NoReuse' /\ BoxInv' /\ RenameInv'
  <1>0. PICK m, v, g : m = Len(past) /\ v = ListSeen /\ g = reads[i]["list"]
    OBVIOUS
  <1>1. m \in Nat \ {0} /\ v \in 0 .. m /\ g \in 1 .. m
    BY <1>0, StatesAre, ArrivesIs DEF ListSeen
  <1>2. ListSeen' = g /\ Len(past') = m /\ \A n, id : LibAt(n, id)' = LibAt(n, id)
    BY <1>0, ArrivesIs DEF ListSeen, LibAt
  <1>3. ASSUME Clean' PROVE Clean /\ v <= g
    <2>1. at = "libraries" /\ excused' \cap {"reused", "left", "overtaken"} = {}
      BY <1>3, ArrivesIs DEF Clean
    <2>2. excused \cap {"reused", "left", "overtaken"} = {}
      BY <2>1, ArrivesIs
    <2>3. "list" \in PartsOf(at)
      BY <2>1, PartsAre
    <2>4. CASE AllCurrent(i)
      <3>1. g = m
        BY <1>0, <2>3, <2>4 DEF AllCurrent
      <3> QED
        BY <1>1, <2>1, <2>2, <3>1 DEF Clean
    <2>5. CASE ~AllCurrent(i)
      <3>1. ~Overtaken(i)
        BY <2>1, <2>5, ArrivesIs
      <3>2. ~(g < v)
        BY <1>0, <2>3, <3>1 DEF Overtaken, ListSeen
      <3>3. v <= g
        BY <1>1, <3>2
      <3> QED
        BY <2>1, <2>2, <3>3 DEF Clean
    <2> QED
      BY <2>4, <2>5
  <1>4. ASSUME Clean', v = 0 PROVE g = m
    <2>1. \A k \in 1 .. Len(reads) : reads[k]["list"] \in {0, Len(past)}
      BY <1>0, <1>3, <1>4 DEF NameInv, FirstInv
    <2> QED
      BY <1>0, <1>1, <2>1
  <1>5. /\ v > 0 => ShownLibs = past[v].libs
        /\ v = 0 => \A id \in LibId : ShownLibs[id] = Gone
    BY <1>0 DEF ShownLibs, Shown, Loaded, ListSeen, NoLibs
  <1>6. ASSUME Clean', NEW id \in LibId, LibAt(g, id) # Gone
        PROVE  /\ v > 0 /\ LibAt(v, id) # Gone => editors'[id] = editors[id]
               /\ v = 0 \/ LibAt(v, id) = Gone => editors'[id].box = LibAt(g, id).name
    <2>1. at = "libraries"
      BY <1>3, <1>6 DEF Clean
    <2>2. editors' = [k \in LibId |-> Kept(ShownLibs, FoundLibs(i), k)]
      BY <2>1, ArrivesIs
    <2>3. editors'[id] = Kept(ShownLibs, FoundLibs(i), id)
      BY <2>2
    <2>4. FoundLibs(i)[id] = LibAt(g, id)
      BY <1>0 DEF FoundLibs, LibAt
    <2>5. v > 0 /\ LibAt(v, id) # Gone => editors'[id] = editors[id]
      BY <1>5, <1>6, <2>3, <2>4 DEF Kept, LibAt
    <2>6. ASSUME v = 0 \/ LibAt(v, id) = Gone PROVE editors'[id].box = LibAt(g, id).name
      <3>1. ShownLibs[id] = Gone
        BY <1>1, <1>5, <2>6 DEF LibAt
      <3>2. editors'[id] = Named(FoundLibs(i), id)
        BY <1>6, <2>3, <2>4, <3>1 DEF Kept
      <3> QED
        BY <2>4, <3>2 DEF Named, Blank
    <2> QED
      BY <2>5, <2>6
  <1>7. \A n \in g .. m : v <= g => n \in v .. m /\ n \in 1 .. m
    BY <1>1
  <1>8. ASSUME v > 0 PROVE v \in v .. m /\ v \in 1 .. m
    BY <1>1, <1>8
  <1>9. g \in g .. m /\ \A n \in g .. m : g <= n /\ (g = m => n = m)
    BY <1>1
  <1>10. ASSUME Clean', v > 0
         PROVE  /\ \A k \in v .. m, j \in 1 .. m, n \in 1 .. m, id \in LibId :
                     j <= k /\ k <= n /\ LibAt(j, id) # Gone /\ LibAt(k, id) = Gone => LibAt(n, id) = Gone
                /\ \A id \in LibId :
                     /\ LibAt(v, id) # Gone /\ ~editors[id].edited =>
                          \A n \in v .. m : LibAt(n, id) # Gone => LibAt(n, id).name = editors[id].box
                     /\ LibAt(v, id) = Gone =>
                          \A k, n \in v .. m : LibAt(k, id) # Gone /\ LibAt(n, id) # Gone => LibAt(k, id).name = LibAt(n, id).name
    BY <1>0, <1>3, <1>10 DEF NameInv, NoReuse, BoxInv
  <1>11. v > 0 \/ v = 0
    BY <1>1
  <1>12. NoReuse'
    <2> SUFFICES ASSUME Clean', NEW k \in g .. m, NEW j \in 1 .. m, NEW n \in 1 .. m, NEW id \in LibId,
                        j <= k, k <= n, LibAt(j, id) # Gone, LibAt(k, id) = Gone
                 PROVE  LibAt(n, id) = Gone
      BY <1>2 DEF NoReuse
    <2>1. CASE v > 0
      BY <1>3, <1>7, <1>10, <2>1
    <2>2. CASE v = 0
      <3>1. k = m /\ n = m
        BY <1>1, <1>4, <1>9, <2>2
      <3> QED
        BY <3>1
    <2> QED
      BY <1>11, <2>1, <2>2
  <1>13. BoxInv'
    <2> SUFFICES ASSUME Clean', NEW id \in LibId
                 PROVE  /\ LibAt(g, id) # Gone /\ ~editors'[id].edited =>
                             \A n \in g .. m : LibAt(n, id) # Gone => LibAt(n, id).name = editors'[id].box
                        /\ LibAt(g, id) = Gone =>
                             \A k, n \in g .. m : LibAt(k, id) # Gone /\ LibAt(n, id) # Gone => LibAt(k, id).name = LibAt(n, id).name
      BY <1>2 DEF BoxInv
    <2>1. ASSUME LibAt(g, id) # Gone, ~editors'[id].edited, NEW n \in g .. m, LibAt(n, id) # Gone
          PROVE  LibAt(n, id).name = editors'[id].box
      <3>1. CASE v > 0 /\ LibAt(v, id) # Gone
        <4>1. editors'[id] = editors[id]
          BY <1>6, <2>1, <3>1
        <4> QED
          BY <1>3, <1>7, <1>10, <2>1, <3>1, <4>1
      <3>2. CASE v > 0 /\ LibAt(v, id) = Gone
        <4>1. editors'[id].box = LibAt(g, id).name
          BY <1>6, <2>1, <3>2
        <4> QED
          BY <1>3, <1>7, <1>9, <1>10, <2>1, <3>2, <4>1
      <3>3. CASE v = 0
        BY <1>4, <1>6, <1>9, <2>1, <3>3
      <3> QED
        BY <1>11, <3>1, <3>2, <3>3
    <2>2. ASSUME LibAt(g, id) = Gone, NEW k \in g .. m, NEW n \in g .. m, LibAt(k, id) # Gone, LibAt(n, id) # Gone
          PROVE  LibAt(k, id).name = LibAt(n, id).name
      <3>1. CASE v > 0 /\ LibAt(v, id) # Gone
        <4>1. v \in 1 .. m /\ g \in v .. m /\ n \in 1 .. m /\ v <= g /\ g <= n
          BY <1>3, <1>7, <1>8, <1>9, <3>1
        <4>2. LibAt(n, id) = Gone
          BY <1>10, <2>2, <3>1, <4>1
        <4> QED
          BY <2>2, <4>2
      <3>2. CASE v > 0 /\ LibAt(v, id) = Gone
        BY <1>3, <1>7, <1>10, <2>2, <3>2
      <3>3. CASE v = 0
        BY <1>4, <1>9, <2>2, <3>3
      <3> QED
        BY <1>11, <3>1, <3>2, <3>3
    <2> QED
      BY <2>1, <2>2
  <1>14. RenameInv'
    <2> SUFFICES ASSUME Clean', NEW x \in sent', x.kind = "rename", x.reply = "none"
                 PROVE  /\ g > 0 /\ \E j \in 1 .. g : LibAt(j, x.id) # Gone
                        /\ LibAt(g, x.id) # Gone => editors'[x.id].edited
      BY <1>2 DEF RenameInv
    <2>1. at = "libraries"
      BY <1>3 DEF Clean
    <2>2. PICK w \in sent : x = Staying(FoundLibs(i), w)
      BY <2>1, ArrivesIs
    <2>3. Alike(x, w)
      BY <2>2, StayingIs DEF AdminTypes
    <2>4. w.kind = "rename" /\ w.reply = "none" /\ w.id = x.id /\ x.id \in LibId
      BY <2>3 DEF Alike, WellSent, IdsOf
    <2>5. /\ v > 0 /\ \E j \in 1 .. v : LibAt(j, x.id) # Gone
          /\ LibAt(v, x.id) # Gone => editors[x.id].edited
      BY <1>0, <1>3, <2>4 DEF NameInv, RenameInv
    <2>6. PICK j \in 1 .. v : LibAt(j, x.id) # Gone
      BY <2>5
    <2>7. v <= g
      BY <1>3
    <2>8. j \in 1 .. g /\ j \in 1 .. m /\ j <= v /\ v \in v .. m /\ g > 0 /\ g \in 1 .. m
      BY <1>1, <2>5, <2>7
    <2>9. LibAt(v, x.id) = Gone => LibAt(g, x.id) = Gone
      BY <1>10, <2>4, <2>5, <2>6, <2>7, <2>8
    <2>10. LibAt(g, x.id) # Gone => editors'[x.id] = editors[x.id]
      BY <1>6, <2>4, <2>5, <2>9
    <2> QED
      BY <2>5, <2>6, <2>8, <2>9, <2>10
  <1> QED
    BY <1>12, <1>13, <1>14


\* Renaming is offered only where someone typed: a box nobody typed in holds
\* the name shown (LibraryEditor.rename).
LEMMA RenamesTyped ==
    ASSUME AdminTypes, BoxInv, Clean, NEW id \in Mounted, MayRename(id)
    PROVE  editors[id].edited
  <1>1. id \in LibId /\ Loaded /\ Shown.libs[id] # Gone
    BY MountedAre
  <1>2. ListSeen \in 1 .. Len(past) /\ ListSeen > 0 /\ Len(past) \in Nat
    BY <1>1, StatesAre DEF Loaded, ListSeen
  <1>3. LibAt(ListSeen, id) = Shown.libs[id] /\ ListSeen \in ListSeen .. Len(past)
    BY <1>2 DEF LibAt, Shown, ListSeen
  <1>4. ~editors[id].edited => Shown.libs[id].name = editors[id].box
    BY <1>1, <1>2, <1>3 DEF BoxInv
  <1> QED
    BY <1>4 DEF MayRename

LEMMA SendsBoxes ==
    ASSUME AdminTypes, NameInv,
           \/ \E id \in LibId, kind \in EditorKind : \E arg : EditorSends(id, kind, arg)
           \/ Create \/ Backfill \/ (\E kind \in {"enrich", "backfill"} : RunPass(kind)) \/ PinFix
    PROVE  SameBoxes
  <1>1. ASSUME NEW id \in LibId, NEW kind \in EditorKind, NEW arg, EditorSends(id, kind, arg) PROVE SameBoxes
    <2>1. /\ id \in Mounted /\ Submits(kind, id, arg) /\ arg \in ArgsOf(kind) /\ (kind = "rename" => MayRename(id))
          /\ editors' = [editors EXCEPT ![id].busy = TRUE]
      BY <1>1 DEF EditorSends, Runs
    <2>2. kind \in Kind /\ id \in IdsOf(kind)
      BY DEF EditorKind, Kind, IdsOf
    <2>3. PICK y : y.kind = kind /\ y.id = id /\ sent' = With(sent, y)
      BY <2>1, <2>2, SubmitsIs
    <2>4. UNCHANGED <<past, at, view, excused>>
      BY <2>1, <2>2, SubmitsIs
    <2>5. \A j \in LibId : editors'[j].edited = editors[j].edited /\ editors'[j].box = editors[j].box
      <3>1. editors \in [LibId -> EditorOf]
        BY DEF AdminTypes
      <3>2. \A e \in EditorOf : LET x == [e EXCEPT !.busy = TRUE] IN x.edited = e.edited /\ x.box = e.box
        BY DEF EditorOf
      <3> DEFINE e == editors[id]
                 x == [e EXCEPT !.busy = TRUE]
      <3>3. editors' = [editors EXCEPT ![id] = x] /\ x.edited = e.edited /\ x.box = e.box
        BY <2>1, <3>1, <3>2
      <3> HIDE DEF x
      <3> QED
        BY <3>1, <3>3
    <2>6. Clean /\ kind = "rename" => editors'[id].edited
      BY <2>1, <2>5, RenamesTyped DEF NameInv
    <2>7. ASSUME NEW x \in sent', x.kind = "rename", x.reply = "none"
          PROVE  \/ \E w \in sent : w.kind = "rename" /\ w.reply = "none" /\ w.id = x.id
                 \/ x.id \in Mounted /\ (Clean => editors'[x.id].edited)
      <3>1. x \in sent \/ x = y
        BY <2>3 DEF With
      <3> QED
        BY <2>1, <2>3, <2>6, <2>7, <3>1
    <2> QED
      BY <2>4, <2>5, <2>7 DEF SameBoxes
  <1>2. ASSUME Create \/ Backfill \/ (\E kind \in {"enrich", "backfill"} : RunPass(kind)) \/ PinFix PROVE SameBoxes
    <2>1. UNCHANGED editors
      BY <1>2 DEF Create, Backfill, RunPass, PinFix
    <2>2. PICK kind \in Kind \ {"rename"} : \E id \in IdsOf(kind), arg \in ArgsOf(kind) : Submits(kind, id, arg)
      <3>1. CASE Create
        BY <3>1 DEF Create, Kind, IdsOf, ArgsOf
      <3>2. CASE Backfill
        BY <3>2 DEF Backfill, Kind, IdsOf, ArgsOf
      <3>3. CASE \E kind \in {"enrich", "backfill"} : RunPass(kind)
        BY <3>3 DEF RunPass, Kind, IdsOf, ArgsOf
      <3>4. CASE PinFix
        <4>1. panel.fix \in Title /\ Submits("pin", panel.fix, NoName)
          BY <3>4 DEF PinFix, AdminTypes, PanelOf
        <4> QED
          BY <4>1 DEF Kind, IdsOf, ArgsOf
      <3> QED
        BY <1>2, <3>1, <3>2, <3>3, <3>4
    <2>3. PICK id \in IdsOf(kind), arg \in ArgsOf(kind) : Submits(kind, id, arg)
      BY <2>2
    <2>4. PICK y : y.kind = kind /\ sent' = With(sent, y)
      BY <2>3, SubmitsIs
    <2>5. UNCHANGED <<past, at, view, excused>>
      BY <2>3, SubmitsIs
    <2>6. \A x \in sent' : x.kind = "rename" => x \in sent
      BY <2>2, <2>4 DEF With
    <2> QED
      BY <2>1, <2>5, <2>6 DEF SameBoxes
  <1> QED
    BY <1>1, <1>2

LEMMA AnswersBoxes ==
    ASSUME AdminTypes, NEW w \in sent, EditAnswered(w) \/ EditRefused(w) \/ EditLost(w)
    PROVE  SameBoxes
  <1>1. UNCHANGED <<past, at, view>> /\ excused \subseteq excused'
    BY AnsweredIs, RefusedIs, LostIs
  <1>2. editors \in [LibId -> EditorOf]
    BY DEF AdminTypes
  <1>3. \A id \in LibId : editors'[id].box = editors[id].box /\ editors'[id].edited = editors[id].edited
    <2>1. Settles(w, TRUE) \/ Settles(w, FALSE)
      BY AnsweredIs, RefusedIs, LostIs
    <2> QED
      BY <1>2, <2>1, EditorSettles
  <1>4. sent' = Others(w) \/ sent' = {NoPin(x) : x \in Others(w)}
    BY AnsweredIs, RefusedIs, LostIs
  <1>5. ASSUME NEW x \in sent' PROVE \E y \in sent : y.kind = x.kind /\ y.reply = x.reply /\ y.id = x.id
    <2>1. CASE sent' = Others(w)
      BY <1>5, <2>1 DEF Others
    <2>2. CASE sent' = {NoPin(y) : y \in Others(w)}
      <3>1. PICK y \in Others(w) : x = NoPin(y)
        BY <1>5, <2>2
      <3>2. y \in sent /\ Alike(x, y)
        BY <3>1, NoPinIs DEF Others, AdminTypes
      <3> QED
        BY <3>2 DEF Alike
    <2> QED
      BY <1>4, <2>1, <2>2
  <1> QED
    BY <1>1, <1>3, <1>5 DEF SameBoxes

LEMMA NameStep == ASSUME AdminTypes, SentInv, FlagInv, AdminMoves, NameInv PROVE NameInv'
  <1> DEFINE Goal == NoReuse' /\ BoxInv' /\ RenameInv'
  <1>1. FirstInv'
    BY FirstStep DEF NameInv
  <1>2. SameBoxes => Goal
    BY SameBoxesKeep
  <1>3. ASSUME NEW p, Visit(p) PROVE Goal
    <2>1. ListSeen' = 0
      BY <1>3, VisitIs DEF ListSeen, Unanswered
    <2>2. Clean' => sent' = {}
      BY <1>3, VisitIs DEF Clean
    <2> QED
      BY <2>1, <2>2 DEF NoReuse, BoxInv, RenameInv
  <1>4. RefreshClick \/ TimerFires \/ UNCHANGED adminVars => Goal
    <2>1. RefreshClick \/ TimerFires \/ UNCHANGED adminVars => UNCHANGED <<past, at, view, sent, editors, excused>>
      BY DEF RefreshClick, TimerFires, adminVars
    <2> QED
      BY <1>2, <2>1 DEF SameBoxes
  <1>5. ASSUME NEW i \in 1 .. Len(reads), NEW part \in AdminPart, ReadServed(i, part) PROVE Goal
    BY <1>2, <1>5, ReadServedIs DEF SameBoxes
  <1>6. ASSUME NEW i \in 1 .. Len(reads), ReadArrives(i) PROVE Goal
    BY <1>6, ArrivesBoxes
  <1>7. ASSUME NEW i \in 1 .. Len(reads), ReadFails(i) PROVE Goal
    <2>1. UNCHANGED <<past, at, view, sent, editors>> /\ excused \subseteq excused'
      BY <1>7 DEF ReadFails
    <2> QED
      BY <1>2, <2>1 DEF SameBoxes
  <1>8. ASSUME NEW id \in LibId, NEW name \in Typed, TypeName(id, name) PROVE Goal
    <2>1. UNCHANGED <<past, at, view, sent, excused>>
      BY <1>8 DEF TypeName
    <2>2. \A j \in LibId : editors'[j].edited \/ editors'[j] = editors[j]
      <3>1. editors \in [LibId -> EditorOf]
        BY DEF AdminTypes
      <3>2. \A e \in EditorOf : [e EXCEPT !.box = name, !.edited = TRUE].edited
        BY DEF EditorOf
      <3> DEFINE e == editors[id]
                 x == [e EXCEPT !.box = name, !.edited = TRUE]
      <3>3. editors' = [editors EXCEPT ![id] = x]
        BY <1>8, <3>1 DEF TypeName
      <3>4. x.edited
        BY <3>1, <3>2
      <3> HIDE DEF x
      <3> QED
        BY <3>1, <3>3, <3>4
    <2> QED
      BY <1>2, <2>1, <2>2 DEF SameBoxes
  <1>9. (\E t \in Title : FixMatch(t)) => Goal
    <2>1. (\E t \in Title : FixMatch(t)) => UNCHANGED <<past, at, view, sent, editors, excused>>
      BY DEF FixMatch
    <2> QED
      BY <1>2, <2>1 DEF SameBoxes
  <1>10. CloseFix => Goal
    <2> SUFFICES ASSUME CloseFix PROVE Goal
      OBVIOUS
    <2>1. sent' = {NoPin(w) : w \in sent} /\ UNCHANGED <<past, at, view, editors, excused>>
      BY CloseFixIs
    <2>2. ASSUME NEW x \in sent' PROVE \E w \in sent : w.kind = x.kind /\ w.reply = x.reply /\ w.id = x.id
      <3>1. PICK w \in sent : x = NoPin(w)
        BY <2>1
      <3>2. Alike(x, w)
        BY <3>1, NoPinIs DEF AdminTypes
      <3> QED
        BY <3>2 DEF Alike
    <2> QED
      BY <1>2, <2>1, <2>2 DEF SameBoxes
  <1>11. (\E id \in LibId, kind \in EditorKind : \E arg : EditorSends(id, kind, arg))
         \/ Create \/ Backfill \/ (\E kind \in {"enrich", "backfill"} : RunPass(kind)) \/ PinFix => Goal
    BY <1>2, SendsBoxes
  <1>12. ASSUME NEW w \in sent, EditAnswered(w) \/ EditRefused(w) \/ EditLost(w) PROVE Goal
    BY <1>2, <1>12, AnswersBoxes
  <1>13. ASSUME NEW w \in sent, EditServed(w) PROVE Goal
    <2>1. UNCHANGED <<at, view, editors>> /\ excused \subseteq excused'
      BY <1>13, ZenonT(30) DEF EditServed
    <2>2. CASE UNCHANGED past
      <3>1. PICK x : x.reply # "none" /\ sent' = (sent \ {w}) \cup {x}
        BY <1>13, ServedIs
      <3> QED
        BY <1>2, <2>1, <2>2, <3>1 DEF SameBoxes
    <2>3. CASE ~UNCHANGED past
      <3>1. PICK y \in sent : /\ EditServed(y) /\ ~Refuses(y)
                              /\ Len(past') = Len(past) + 1 /\ past'[Len(past) + 1] = Effect(Now, y)
        BY <2>3, HistoryIs
      <3>2. \A n \in 1 .. Len(past) : past'[n] = past[n]
        BY HistoryIs
      <3> QED
        BY <3>1, <3>2, GrownBoxes
    <2> QED
      BY <2>2, <2>3
  <1> HIDE DEF Goal
  <1>14. Goal
    BY <1>3, <1>4, <1>5, <1>6, <1>7, <1>8, <1>9, <1>10, <1>11, <1>12, <1>13 DEF AdminMoves
  <1> QED
    BY <1>1, <1>14 DEF NameInv, Goal

LEMMA NamesAlways == Spec => []NameInv
  <1>1. Init => NameInv
    <2> SUFFICES ASSUME Init PROVE NameInv
      OBVIOUS
    <2>1. sent = {} /\ view = Unanswered /\ reads = <<Unanswered>>
      BY DEF Init, AdminInit
    <2>2. ListSeen = 0 /\ \A i \in 1 .. Len(reads) : reads[i]["list"] = 0
      BY <2>1 DEF ListSeen, Unanswered
    <2> QED
      BY <2>1, <2>2 DEF NameInv, FirstInv, NoReuse, BoxInv, RenameInv
  <1>2. AdminTypes /\ SentInv /\ FlagInv /\ NameInv /\ [Next]_webVars => NameInv'
    BY AdminCases, NameStep
  <1> QED
    BY <1>1, <1>2, AdminTypesAlways, FlagsAlways, PTL DEF Spec

LEMMA BoxesAreTrue == ASSUME AdminTypes, BoxInv PROVE BoxIsTrue
  <1> SUFFICES ASSUME excused \cap {"reused", "left", "overtaken"} = {}, NEW id \in Mounted, ~editors[id].edited
               PROVE  editors[id].box = Shown.libs[id].name
    BY DEF BoxIsTrue
  <1>1. id \in LibId /\ at = "libraries" /\ Loaded /\ Shown.libs[id] # Gone
    BY MountedAre
  <1>2. ListSeen \in 1 .. Len(past) /\ ListSeen > 0 /\ Len(past) \in Nat
    BY <1>1, StatesAre DEF Loaded, ListSeen
  <1>3. LibAt(ListSeen, id) = Shown.libs[id] /\ ListSeen \in ListSeen .. Len(past)
    BY <1>2 DEF LibAt, Shown, ListSeen
  <1> QED
    BY <1>1, <1>2, <1>3 DEF BoxInv, Clean

\* Name boxes and buttons are those of the libraries shown beside them
\* (LibraryEditor's name box, its run and the busy flags of the settings).
THEOREM EditorsAreAlwaysTrue == Spec => []EditorsAreTrue
  <1>1. AdminTypes /\ FlagInv /\ NameInv => EditorsAreTrue
    BY BoxesAreTrue, FlagsAreTrue DEF EditorsAreTrue, NameInv
  <1> QED
    BY <1>1, AdminTypesAlways, FlagsAlways, NamesAlways, PTL


-----------------------------------------------------------------------------
(* The grid: how many pages it asks for and keeps *)

\* A cursor stays within the listing; while there is more it is at a page.
Sized(refs) == refs.cursor \in 1 .. Pages + 1 /\ (refs.more => refs.cursor <= Pages)
\* What is kept is behind the cursor.  A sentinel that fired between an answer
\* and its render fetched one page twice, and it does so once (raced).
Behind(items, cursor) == Len(items) <= cursor /\ (~raced => Len(items) < cursor)
SizeInv ==
    /\ Sized(pager.now) /\ Sized(pager.refs)
    /\ \A i \in 1 .. Len(pager.items) : pager.items[i].page \in 1 .. Pages
    /\ \A r \in asks : r.page \in 1 .. Pages
    /\ Behind(pager.items, pager.now.cursor)
    /\ \A r \in asks : Live(r) =>
         /\ r.page <= pager.now.cursor /\ pager.now.cursor <= r.page + 1
         /\ ~r.initial => Behind(pager.items, r.page)
    /\ ~pager.inFlight => pager.refs.cursor <= pager.now.cursor /\ pager.now.cursor <= pager.refs.cursor + 1

LEMMA StartSizes == Sized(FromStart) /\ \A v : FirstPage(v).page \in 1 .. Pages
  BY BrowseAssumption DEF Sized, FromStart, FirstPage

LEMMA SizeStarts ==
    ASSUME NEW v \in View, StartsWith(pager', v), Sized(pager.refs), pager'.refs \in {pager.refs, FromStart},
           \A r \in asks' : r.page \in 1 .. Pages /\ (Live(r) => r = FirstPage(v))
    PROVE  SizeInv'
  <1>1. pager'.items = <<>> /\ pager'.now = FromStart /\ pager'.inFlight
    BY DEF StartsWith
  <1>2. FromStart.cursor = 1 /\ Sized(FromStart) /\ Sized(pager'.refs)
    BY StartSizes DEF FromStart
  <1>3. Behind(pager.items, pager.now.cursor)' /\ Len(pager'.items) = 0
    BY <1>1, <1>2 DEF Behind
  <1>4. \A r \in asks' : Live(r) => r.page = 1 /\ r.initial
    BY DEF FirstPage
  <1> QED
    BY <1>1, <1>2, <1>3, <1>4 DEF SizeInv, Live, Sized

LEMMA SizeQuiet ==
    ASSUME SizeInv, PagerType, pager' \in PagerOf, UNCHANGED <<asks, raced>>,
           pager'.items = pager.items, pager'.now = pager.now, pager'.inFlight = pager.inFlight,
           pager'.refs = pager.refs \/ pager'.refs = pager.now
    PROVE  SizeInv'
  <1>1. Sized(pager'.refs) /\ Sized(pager'.now)
    BY DEF SizeInv
  <1>2. pager.now.cursor \in Nat
    BY DEF PagerType, PagerOf, RefsOf
  <1>3. ~pager'.inFlight => pager'.refs.cursor <= pager'.now.cursor /\ pager'.now.cursor <= pager'.refs.cursor + 1
    BY <1>2 DEF SizeInv
  <1> QED
    BY <1>1, <1>3 DEF SizeInv, Behind, Sized, Live

\* What an answer leaves of the refs.
LEMMA AnswerRefs ==
    ASSUME NEW p \in PagerOf, NEW r \in AskOf
    PROVE  /\ Settled(p, r).refs = p.refs
           /\ Appended(p, r).refs = p.refs
           /\ Appended(p, r).now.more => r.page < Pages
  <1>1. Settled(p, r).refs = p.refs
    BY DEF Settled, PagerOf
  <1>2. Appended(p, r).refs = p.refs
    BY DEF Appended, PagerOf
  <1> DEFINE m == r.page < Pages /\ r.key \notin Slug \ Listed
             now == [cursor |-> r.page + 1, more |-> m]
  <1>3. Appended(p, r).now = now
    BY DEF Appended, PagerOf
  <1>4. m => r.page < Pages
    OBVIOUS
  <1> HIDE DEF m
  <1>5. now.more = m
    OBVIOUS
  <1> HIDE DEF now
  <1> QED
    BY <1>1, <1>2, <1>3, <1>4, <1>5
Failed(p) == [p EXCEPT !.error = TRUE, !.now.more = FALSE]
LEMMA FailedRefs ==
    ASSUME NEW p \in PagerOf
    PROVE  /\ Failed(p) \in PagerOf /\ Failed(p).items = p.items /\ ~Failed(p).now.more
           /\ Failed(p).refs = p.refs /\ Failed(p).now.cursor = p.now.cursor
  <1> DEFINE q == Failed(p)
             now == [p.now EXCEPT !.more = FALSE]
  <1>1. now \in RefsOf /\ ~now.more /\ now.cursor = p.now.cursor
    BY DEF PagerOf, RefsOf
  <1>2. q = [p EXCEPT !.error = TRUE, !.now = now]
    BY DEF PagerOf, Failed
  <1> HIDE DEF now, RefsOf, q
  <1>3. q \in PagerOf /\ q.items = p.items /\ q.refs = p.refs /\ q.now = now
    BY <1>1, <1>2 DEF PagerOf
  <1> QED
    BY <1>1, <1>3 DEF q

LEMMA SizeAnswers ==
    ASSUME GridInv, SizeInv, raced \in BOOLEAN, NEW r \in asks, PageArrives(r) \/ PageFails(r)
    PROVE  SizeInv'
  <1>1. PagerType /\ pager \in PagerOf /\ asks \subseteq AskOf /\ r \in AskOf
    BY DEF GridInv, PagerType
  <1>2. asks' = asks \ {r} /\ UNCHANGED raced
    BY DEF PageArrives, PageFails
  <1>3. CASE r.aborted
    <2>1. pager' = Settled(pager, r)
      BY <1>3 DEF PageArrives, PageFails, Taken
    <2>2. /\ pager'.items = pager.items /\ pager'.now = pager.now /\ pager'.refs = pager.refs
          /\ pager'.inFlight = (pager.inFlight /\ r.aborted)
      BY <1>1, <2>1, SettledTypes, AnswerRefs
    <2>3. pager'.inFlight = pager.inFlight
      BY <1>1, <1>3, <2>2 DEF PagerOf, AskOf
    <2> QED
      BY <1>2, <2>2, <2>3 DEF SizeInv, Sized, Behind, Live
  <1>4. CASE ~r.aborted
    <2>1. /\ r.page \in 1 .. Pages /\ r.page <= pager.now.cursor /\ pager.now.cursor <= r.page + 1
          /\ ~r.initial => Behind(pager.items, r.page)
      BY <1>4 DEF SizeInv, Live
    <2>2. \A q \in asks' : ~Live(q) /\ q.page \in 1 .. Pages
      BY <1>2, <1>4 DEF GridInv, FlightInv, SizeInv, Live
    <2>3. pager.refs = pager.now /\ Pages \in Nat \ {0} /\ pager.now.cursor \in Nat
      BY <1>1, <1>4, BrowseAssumption DEF PageArrives, PageFails, UpToDate, PagerOf, RefsOf
    <2>4. CASE PageFails(r)
      <3> DEFINE q == Failed(pager)
      <3>1. pager' = Settled(q, r)
        BY <2>4 DEF PageFails, Failed
      <3>2. q \in PagerOf /\ q.items = pager.items /\ q.now.cursor = pager.now.cursor /\ ~q.now.more /\ q.refs = pager.refs
        BY <1>1, FailedRefs
      <3> HIDE DEF q
      <3>3. pager'.items = q.items /\ pager'.now = q.now /\ pager'.refs = q.refs
        BY <1>1, <3>1, <3>2, SettledTypes, AnswerRefs
      <3>4. /\ pager'.items = pager.items /\ pager'.now.cursor = pager.now.cursor /\ ~pager'.now.more
            /\ pager'.refs = pager.refs
        BY <3>2, <3>3
      <3> QED
        BY <1>2, <2>2, <2>3, <3>4 DEF SizeInv, Sized, Behind, Live
    <2>5. CASE PageArrives(r)
      <3> DEFINE q == Appended(pager, r)
      <3>1. pager' = Settled(q, r)
        BY <1>4, <2>5 DEF PageArrives, Taken
      <3>2. /\ q \in PagerOf /\ q.items = (IF r.initial THEN Got(r) ELSE pager.items \o Got(r))
            /\ q.now.cursor = r.page + 1 /\ (q.now.more => r.page < Pages) /\ q.refs = pager.refs
        BY <1>1, AppendedTypes, AnswerRefs
      <3> HIDE DEF q
      <3>3. pager'.items = q.items /\ pager'.now = q.now /\ pager'.refs = q.refs
        BY <1>1, <3>1, <3>2, SettledTypes, AnswerRefs
      <3>4. Sized(pager'.now) /\ Sized(pager'.refs) /\ pager'.refs.cursor <= pager'.now.cursor
            /\ pager'.now.cursor <= pager'.refs.cursor + 1
        <4>1. Sized(pager.refs) /\ pager'.refs = pager.refs /\ pager'.now.cursor = r.page + 1
              /\ (pager'.now.more => r.page < Pages)
          BY <3>2, <3>3 DEF SizeInv
        <4> HIDE DEF SizeInv
        <4> QED
          BY <2>1, <2>3, <4>1 DEF Sized
      <3>5. /\ Got(r) \in Seq(ItemOf) /\ Len(Got(r)) <= 1
            /\ \A i \in 1 .. Len(Got(r)) : Got(r)[i].page = r.page
        <4> DEFINE item == [key |-> r.key, page |-> r.page]
        <4>1. Got(r) \in Seq(ItemOf) /\ (Got(r) = <<>> \/ Got(r) = <<item>>) /\ item.page = r.page
          BY <1>1, GotTypes
        <4> HIDE DEF item
        <4>2. CASE Got(r) = <<>>
          <5>1. Len(Got(r)) = 0
            BY <4>2
          <5> QED
            BY <4>1, <5>1
        <4>3. CASE Got(r) = <<item>>
          <5>1. Len(Got(r)) = 1 /\ Got(r)[1] = item
            BY <4>3
          <5> QED
            BY <4>1, <5>1
        <4> QED
          BY <4>1, <4>2, <4>3
      <3>6. pager.items \in Seq(ItemOf) /\ Len(pager.items) \in Nat /\ Len(Got(r)) \in Nat
        BY <1>1, <3>5, LenProperties DEF PagerOf
      <3>7. /\ Behind(pager.items, pager.now.cursor)'
            /\ \A i \in 1 .. Len(pager'.items) : pager'.items[i].page \in 1 .. Pages
        <4>1. CASE r.initial
          <5>1. pager'.items = Got(r) /\ pager'.now.cursor = r.page + 1
            BY <3>2, <3>3, <4>1
          <5>2. Len(Got(r)) < r.page + 1
            BY <2>1, <3>5, <3>6
          <5>3. Behind(pager.items, pager.now.cursor)'
            BY <2>1, <3>6, <5>1, <5>2 DEF Behind
          <5> QED
            BY <2>1, <3>5, <5>1, <5>3
        <4>2. CASE ~r.initial
          <5>1. pager'.items = pager.items \o Got(r) /\ pager'.now.cursor = r.page + 1
            BY <3>2, <3>3, <4>2
          <5>2. /\ Len(pager'.items) = Len(pager.items) + Len(Got(r))
                /\ \A i \in 1 .. Len(pager'.items) :
                     pager'.items[i] = IF i <= Len(pager.items) THEN pager.items[i] ELSE Got(r)[i - Len(pager.items)]
            BY <3>5, <3>6, <5>1, ConcatProperties
          <5>3. ASSUME NEW i \in 1 .. Len(pager'.items) PROVE pager'.items[i].page \in 1 .. Pages
            <6>1. CASE i <= Len(pager.items)
              BY <3>6, <5>2, <6>1 DEF SizeInv
            <6>2. CASE ~(i <= Len(pager.items))
              <7>1. i - Len(pager.items) \in 1 .. Len(Got(r))
                BY <3>6, <5>2, <6>2
              <7> QED
                BY <2>1, <3>5, <5>2, <6>2, <7>1
            <6> QED
              BY <6>1, <6>2
          <5>4. Behind(pager.items, pager.now.cursor)'
            BY <1>2, <2>1, <3>5, <3>6, <4>2, <5>1, <5>2 DEF Behind
          <5> QED
            BY <5>3, <5>4
        <4> QED
          BY <4>1, <4>2
      <3> QED
        BY <2>2, <3>4, <3>7 DEF SizeInv, Live
    <2> QED
      BY <2>4, <2>5
  <1> QED
    BY <1>1, <1>3, <1>4 DEF AskOf

LEMMA SizeFires ==
    ASSUME GridInv, SizeInv, raced \in BOOLEAN, SentinelFires
    PROVE  SizeInv'
  <1>1. PagerType /\ pager \in PagerOf /\ asks \subseteq AskOf
    BY DEF GridInv, PagerType
  <1>2. CASE pager.inFlight \/ ~pager.refs.more
    BY <1>1, <1>2, SizeQuiet DEF SentinelFires
  <1>3. CASE ~pager.inFlight /\ pager.refs.more
    <2> DEFINE new == [key |-> Serving, page |-> pager.refs.cursor, initial |-> FALSE, aborted |-> FALSE]
    <2>1. /\ raced => pager.refs = pager.now
          /\ pager' = [pager EXCEPT !.inFlight = TRUE, !.more = TRUE]
          /\ asks' = asks \cup {new} /\ raced' = (raced \/ pager.refs # pager.now)
      BY <1>3 DEF SentinelFires
    <2>2. pager'.items = pager.items /\ pager'.now = pager.now /\ pager'.refs = pager.refs /\ pager'.inFlight
      BY <1>1, <2>1 DEF PagerOf
    <2>3. new.page = pager.refs.cursor
      OBVIOUS
    <2> HIDE DEF new
    <2>4. \A r \in asks : ~Live(r)
      BY <1>3 DEF GridInv, FlightInv, InFlightTrue, Live
    <2>5. pager.refs.cursor \in 1 .. Pages /\ pager.now.cursor \in Nat /\ Len(pager.items) \in Nat /\ Pages \in Nat
      <3>1. pager.items \in Seq(ItemOf) /\ pager.now.cursor \in Nat /\ Pages \in Nat
        BY <1>1, BrowseAssumption DEF PagerOf, RefsOf
      <3>2. pager.refs.cursor \in 1 .. Pages
        BY <1>3, <3>1 DEF SizeInv, Sized
      <3> QED
        BY <3>1, <3>2, LenProperties
    <2>6. pager.refs.cursor <= pager.now.cursor /\ pager.now.cursor <= pager.refs.cursor + 1
      BY <1>3 DEF SizeInv
    <2>7. Behind(pager.items, pager.now.cursor)' /\ Behind(pager.items, pager.refs.cursor)'
      <3>1. Len(pager.items) <= pager.now.cursor /\ (~raced => Len(pager.items) < pager.now.cursor)
        BY DEF SizeInv, Behind
      <3>2. CASE pager.refs = pager.now
        BY <2>1, <2>2, <3>1, <3>2 DEF Behind
      <3>3. CASE pager.refs # pager.now
        <4>1. ~raced /\ raced'
          BY <2>1, <3>3
        <4>2. Len(pager.items) <= pager.refs.cursor
          BY <2>5, <2>6, <3>1, <4>1
        <4> QED
          BY <2>2, <3>1, <4>1, <4>2 DEF Behind
      <3> QED
        BY <3>2, <3>3
    <2>8. \A r \in asks' : r = new \/ (r \in asks /\ ~Live(r))
      BY <2>1, <2>4
    <2>9. ASSUME NEW r \in asks' PROVE /\ r.page \in 1 .. Pages
                                       /\ Live(r) => /\ r.page <= pager'.now.cursor /\ pager'.now.cursor <= r.page + 1
                                                     /\ Behind(pager.items, r.page)'
      <3>1. CASE r = new
        BY <2>2, <2>3, <2>5, <2>6, <2>7, <3>1 DEF Behind
      <3>2. CASE r \in asks /\ ~Live(r)
        BY <3>2 DEF SizeInv
      <3> QED
        BY <2>8, <3>1, <3>2
    <2> QED
      BY <2>2, <2>7, <2>9 DEF SizeInv, Sized, Live, Behind
  <1> QED
    BY <1>2, <1>3


\* What the observer, the rows and the bounds consist of.
SentinelOf == [seen : [on : BOOLEAN, len : -1 .. 2 * Pages], due : BOOLEAN, inView : BOOLEAN]
WatchInv ==
    /\ sentinel \in SentinelOf /\ raced \in BOOLEAN
    /\ rows \in {"loading", "ready", "withContinue", "error"}
    /\ browsed \in [changes : 0 .. MaxChanges, faults : 0 .. MaxBrowseFaults]

LEMMA SizeStep == GridInv /\ SizeInv /\ WatchInv /\ [Next]_webVars => SizeInv'
  <1> SUFFICES ASSUME GridInv, SizeInv, WatchInv, [Next]_webVars PROVE SizeInv'
    OBVIOUS
  <1> DEFINE Goal == SizeInv'
  <1> SUFFICES Goal
    OBVIOUS
  <1>1. /\ PagerType /\ pager \in PagerOf /\ asks \subseteq AskOf /\ raced \in BOOLEAN /\ Sized(pager.refs)
        /\ \A r \in asks : r.page \in 1 .. Pages
    BY DEF GridInv, PagerType, WatchInv, SizeInv
  <1>2. UNCHANGED <<pager, asks, raced>> => Goal
    BY <1>1, SizeQuiet
  <1>3. CASE Render
    <2>1. pager' = [pager EXCEPT !.refs = pager.now] /\ UNCHANGED <<asks, raced>>
      BY <1>3 DEF Render
    <2>2. /\ pager' \in PagerOf /\ pager'.items = pager.items /\ pager'.refs = pager.now
          /\ pager'.now = pager.now /\ pager'.inFlight = pager.inFlight
      BY <1>1, <2>1 DEF PagerOf
    <2> QED
      BY <1>1, <2>1, <2>2, SizeQuiet
  <1>4. CASE Mounts
    <2>1. pager' = Started(Wanted) /\ asks' = {FirstPage(Wanted)}
      BY <1>4 DEF Mounts
    <2>2. Wanted \in View
      BY <1>1, BrowseFacts
    <2> HIDE DEF Wanted
    <2>3. StartsWith(pager', Wanted) /\ pager'.refs = FromStart
      BY <1>1, <2>1, <2>2, StartTypes DEF Started
    <2> QED
      BY <1>1, <2>1, <2>2, <2>3, SizeStarts, StartSizes
  <1>5. CASE Restarts
    <2>1. /\ pager' = Restarted(pager, Wanted)
          /\ asks' = {[r EXCEPT !.aborted = TRUE] : r \in asks} \cup {FirstPage(Wanted)}
      BY <1>5 DEF Restarts
    <2>2. Wanted \in View
      BY <1>1, BrowseFacts
    <2> HIDE DEF Wanted
    <2>3. StartsWith(pager', Wanted) /\ pager'.refs = pager.refs
      <3>1. StartsWith(pager', Wanted)
        BY <1>1, <2>1, <2>2, StartTypes
      <3>2. pager'.refs = pager.refs
        BY <1>1, <2>1 DEF Restarted, PagerOf
      <3> QED
        BY <3>1, <3>2
    <2>4. \A r \in AskOf : LET q == [r EXCEPT !.aborted = TRUE] IN q.page = r.page /\ ~Live(q)
      BY DEF AskOf, Live
    <2>5. ASSUME NEW r \in asks' PROVE r.page \in 1 .. Pages /\ (Live(r) => r = FirstPage(Wanted))
      <3>1. CASE r = FirstPage(Wanted)
        BY <3>1, StartSizes
      <3>2. CASE r # FirstPage(Wanted)
        <4>1. PICK q \in asks : r = [q EXCEPT !.aborted = TRUE]
          BY <2>1, <3>2
        <4> QED
          BY <1>1, <2>4, <4>1
      <3> QED
        BY <3>1, <3>2
    <2> QED
      BY <1>1, <2>2, <2>3, <2>5, SizeStarts
  <1>6. CASE BackFromPlayer
    <2>1. /\ pager' = Started(Wanted') /\ asks' = {FirstPage(Wanted')}
          /\ browse' \in [route : {"library"} \cup Slug, query : Text \ {"blank"}, sort : Sort]
      BY <1>6 DEF BackFromPlayer, Text, Sort
    <2>2. Wanted' \in View
      BY <2>1 DEF Wanted, View, Sort
    <2> DEFINE v == Wanted'
    <2>3. pager' = Started(v) /\ asks' = {FirstPage(v)} /\ v \in View
      BY <2>1, <2>2
    <2> HIDE DEF v
    <2>4. StartsWith(pager', v) /\ pager'.refs = FromStart
      BY <1>1, <2>3, StartTypes DEF Started
    <2> QED
      BY <1>1, <2>3, <2>4, SizeStarts, StartSizes
  <1>7. CASE SentinelFires
    BY <1>1, <1>7, SizeFires
  <1>8. CASE \E r \in asks : PageArrives(r) \/ PageFails(r)
    BY <1>1, <1>8, SizeAnswers
  <1> HIDE DEF Goal
  <1> DEFINE Quiet == UNCHANGED <<pager, asks, raced>>
  <1>9. UNCHANGED browseVars \/ (\E t \in Text : Type(t)) \/ Escape \/ ToggleSearch \/ DebounceFires \/ QueryEffect
        \/ (\E s \in Sort : SetSort(s)) \/ (\E route \in {"library"} \cup Slug : Navigate(route))
        \/ Observes \/ Scroll \/ RowsArrive \/ RowsFail \/ ContinueArrives => Quiet
    BY DEF browseVars, Type, Escape, ToggleSearch, DebounceFires, QueryEffect, SetSort, Navigate,
           Observes, Scroll, RowsArrive, RowsFail, ContinueArrives
  <1> HIDE DEF Quiet
  <1>10. Quiet => Goal
    BY <1>2 DEF Quiet
  <1> QED
    BY <1>3, <1>4, <1>5, <1>6, <1>7, <1>8, <1>9, <1>10, PartsStep DEF BrowseNext

LEMMA KeptSize == ASSUME GridInv, SizeInv, raced \in BOOLEAN PROVE Len(pager.items) \in 0 .. 2 * Pages
  <1>1. pager.items \in Seq(ItemOf) /\ pager.now.cursor \in 1 .. Pages + 1 /\ Pages \in Nat \ {0}
    BY BrowseAssumption DEF GridInv, PagerType, PagerOf, SizeInv, Sized
  <1>2. Len(pager.items) \in Nat /\ Len(pager.items) <= pager.now.cursor
    BY <1>1, LenProperties DEF SizeInv, Behind
  <1> QED
    BY <1>1, <1>2

LEMMA WatchStep == GridInv /\ SizeInv /\ WatchInv /\ [Next]_webVars => WatchInv'
  <1> SUFFICES ASSUME GridInv, SizeInv, WatchInv, [Next]_webVars PROVE WatchInv'
    OBVIOUS
  <1> DEFINE ChangesOf == [changes : 0 .. MaxChanges, faults : 0 .. MaxBrowseFaults]
             RowsOf == {"loading", "ready", "withContinue", "error"}
  <1>0. /\ sentinel \in SentinelOf /\ raced \in BOOLEAN /\ rows \in RowsOf /\ browsed \in ChangesOf
        /\ WatchInv' <=> sentinel' \in SentinelOf /\ raced' \in BOOLEAN /\ rows' \in RowsOf /\ browsed' \in ChangesOf
    BY DEF WatchInv, SentinelOf
  <1>1. MaxChanges \in Nat /\ MaxBrowseFaults \in Nat /\ Pages \in Nat \ {0}
    BY BrowseAssumption
  <1>2. browsed' \in ChangesOf
    <2>1. Changes \/ BrowseFault \/ UNCHANGED browsed => browsed' \in ChangesOf
      BY <1>0, <1>1 DEF Changes, BrowseFault
    <2>2. UNCHANGED browseVars \/ BrowseNext => Changes \/ BrowseFault \/ UNCHANGED browsed
      BY DEF browseVars, BrowseNext, Type, Escape, ToggleSearch, DebounceFires, QueryEffect, SetSort, Navigate, Mounts, Restarts,
             Render, PageArrives, PageFails, Observes, Scroll, SentinelFires, RowsArrive, RowsFail, ContinueArrives, BackFromPlayer
    <2> QED
      BY <2>1, <2>2, PartsStep
  <1>3. rows' \in RowsOf
    <2>1. UNCHANGED browseVars \/ BrowseNext => rows' \in {rows, "loading", "ready", "error", "withContinue"}
      BY DEF browseVars, BrowseNext, Type, Escape, ToggleSearch, DebounceFires, QueryEffect, SetSort, Navigate, Mounts, Restarts,
             Render, PageArrives, PageFails, Observes, Scroll, SentinelFires, RowsArrive, RowsFail, ContinueArrives, BackFromPlayer
    <2> QED
      BY <1>0, <2>1, PartsStep
  <1>4. raced' \in BOOLEAN
    <2>1. UNCHANGED browseVars \/ BrowseNext => UNCHANGED raced \/ raced' = (raced \/ pager.refs # pager.now)
      BY DEF browseVars, BrowseNext, Type, Escape, ToggleSearch, DebounceFires, QueryEffect, SetSort, Navigate, Mounts, Restarts,
             Render, PageArrives, PageFails, Observes, Scroll, SentinelFires, RowsArrive, RowsFail, ContinueArrives, BackFromPlayer
    <2> QED
      BY <1>0, <2>1, PartsStep
  <1>5. sentinel' \in SentinelOf
    <2>1. Unwatched \in [on : BOOLEAN, len : -1 .. 2 * Pages]
      BY <1>1 DEF Unwatched
    <2>2. GridDeps \in [on : BOOLEAN, len : -1 .. 2 * Pages]
      <3>1. Len(pager.items) \in -1 .. 2 * Pages
        <4>1. Len(pager.items) \in 0 .. 2 * Pages
          BY <1>0, KeptSize
        <4> QED
          BY <1>1, <4>1
      <3>2. Paging \in BOOLEAN
        BY DEF Paging, GridInv, PagerType, PagerOf, RefsOf
      <3> QED
        BY <2>1, <3>1, <3>2 DEF GridDeps
    <2>3. Observes => sentinel' \in SentinelOf
      <3> SUFFICES ASSUME Observes PROVE sentinel' \in SentinelOf
        OBVIOUS
      <3> DEFINE deps == GridDeps
      <3>1. PICK inView \in BOOLEAN : sentinel' = [seen |-> deps, due |-> inView /\ deps.on, inView |-> inView]
        BY DEF Observes
      <3>2. deps \in [on : BOOLEAN, len : -1 .. 2 * Pages]
        BY <2>2
      <3> HIDE DEF deps
      <3>3. (inView /\ deps.on) \in BOOLEAN
        OBVIOUS
      <3> QED
        BY <3>1, <3>2, <3>3 DEF SentinelOf
    <2>4. Scroll => sentinel' \in SentinelOf
      <3> SUFFICES ASSUME Scroll PROVE sentinel' \in SentinelOf
        OBVIOUS
      <3> DEFINE v == ~sentinel.inView
                 d == ~sentinel.inView /\ sentinel.seen.on
      <3>1. v \in BOOLEAN /\ d \in BOOLEAN
        OBVIOUS
      <3>2. sentinel' = [sentinel EXCEPT !.inView = v, !.due = d]
        BY DEF Scroll
      <3> HIDE DEF v, d
      <3> QED
        BY <1>0, <3>1, <3>2 DEF SentinelOf
    <2>5. SentinelFires => sentinel' \in SentinelOf
      BY <1>0 DEF SentinelFires, SentinelOf
    <2>6. Mounts => sentinel' \in SentinelOf
      BY <1>0, <2>1 DEF Mounts, SentinelOf
    <2>7. BackFromPlayer => sentinel' \in SentinelOf
      BY <2>1 DEF BackFromPlayer, SentinelOf
    <2>8. UNCHANGED browseVars \/ BrowseNext => UNCHANGED sentinel \/ Observes \/ Scroll \/ SentinelFires \/ Mounts \/ BackFromPlayer
      BY DEF browseVars, BrowseNext, Type, Escape, ToggleSearch, DebounceFires, QueryEffect, SetSort, Navigate, Restarts,
             Render, PageArrives, PageFails, RowsArrive, RowsFail, ContinueArrives
    <2> QED
      BY <1>0, <2>3, <2>4, <2>5, <2>6, <2>7, <2>8, PartsStep
  <1> QED
    BY <1>0, <1>2, <1>3, <1>4, <1>5

LEMMA SizesAlways == Spec => [](SizeInv /\ WatchInv)
  <1>1. Init => SizeInv /\ WatchInv
    <2> SUFFICES ASSUME Init PROVE SizeInv /\ WatchInv
      OBVIOUS
    <2>1. /\ pager = Started(Home) /\ asks = {FirstPage(Home)} /\ raced = FALSE /\ rows = "loading"
          /\ sentinel = [seen |-> Unwatched, due |-> FALSE, inView |-> FALSE] /\ browsed = [changes |-> 0, faults |-> 0]
      BY DEF Init, BrowseInit
    <2>2. pager.items = <<>> /\ pager.now = FromStart /\ pager.refs = FromStart /\ pager.inFlight
      BY <2>1 DEF Started
    <2>3. FromStart.cursor = 1 /\ Sized(FromStart) /\ Len(pager.items) = 0
      BY <2>2, StartSizes DEF FromStart
    <2>4. \A r \in asks : r.page \in 1 .. Pages /\ r.page = 1 /\ r.initial
      BY <2>1, StartSizes DEF FirstPage
    <2>5. SizeInv
      BY <2>1, <2>2, <2>3, <2>4 DEF SizeInv, Behind
    <2>6. WatchInv
      <3>1. MaxChanges \in Nat /\ MaxBrowseFaults \in Nat /\ Pages \in Nat \ {0}
        BY BrowseAssumption
      <3>2. Unwatched \in [on : BOOLEAN, len : -1 .. 2 * Pages]
        BY <3>1 DEF Unwatched
      <3>3. sentinel \in SentinelOf
        BY <2>1, <3>2 DEF SentinelOf
      <3>4. browsed \in [changes : 0 .. MaxChanges, faults : 0 .. MaxBrowseFaults]
        BY <2>1, <3>1
      <3> QED
        BY <2>1, <3>3, <3>4 DEF WatchInv
    <2> QED
      BY <2>5, <2>6
  <1>2. BrowseKept /\ SizeInv /\ WatchInv /\ [Next]_webVars => (SizeInv /\ WatchInv)'
    BY SizeStep, WatchStep DEF BrowseKept
  <1> QED
    BY <1>1, <1>2, BrowseAlways, PTL DEF Spec

LEMMA BrowseTyped == BrowseKept /\ SizeInv /\ WatchInv => BrowseTypeOK
  <1> SUFFICES ASSUME SearchInv, GridInv, SizeInv, WatchInv PROVE BrowseTypeOK
    BY DEF BrowseKept
  <1>1. pager \in PagerOf /\ asks \subseteq AskOf /\ Pages \in Nat \ {0}
    BY BrowseAssumption DEF GridInv, PagerType
  <1>2. pager.items \in Seq(Item)
    <2>1. pager.items \in Seq(ItemOf) /\ \A i \in 1 .. Len(pager.items) : pager.items[i].page \in 1 .. Pages
      BY <1>1 DEF PagerOf, SizeInv
    <2>2. pager.items \in [1 .. Len(pager.items) -> ItemOf] /\ Len(pager.items) \in Nat
      BY <2>1
    <2>3. \A i \in 1 .. Len(pager.items) : pager.items[i] \in Item
      BY <2>1, <2>2 DEF ItemOf, Item, AnyKey
    <2>4. pager.items \in [1 .. Len(pager.items) -> Item]
      BY <2>2, <2>3
    <2> QED
      BY <2>2, <2>4
  <1>3. pager.now \in Refs /\ pager.refs \in Refs
    BY <1>1 DEF PagerOf, RefsOf, Refs, SizeInv, Sized
  <1>4. pager \in [view : View, items : Seq(Item), now : Refs, refs : Refs, inFlight : BOOLEAN,
                   initial : BOOLEAN, more : BOOLEAN, error : BOOLEAN]
    <2> HIDE DEF Item, Refs, View
    <2> QED
      BY <1>1, <1>2, <1>3 DEF PagerOf
  <1>5. asks \subseteq Ask
    <2> SUFFICES ASSUME NEW r \in asks PROVE r \in Ask
      OBVIOUS
    <2>1. r \in AskOf /\ r.page \in 1 .. Pages + 1
      BY <1>1 DEF SizeInv
    <2> QED
      BY <2>1 DEF AskOf, Ask, AnyKey
  <1> QED
    BY <1>4, <1>5 DEF BrowseTypeOK, SearchInv, GridInv, PagerType, WatchInv, SentinelOf

\* Every part of the web client is well formed: no cursor leaves its listing, no
\* page number and no history of writes exceeds what was asked for, and a
\* library never gets a blank name (useLibraryPaging, useTitleDetail,
\* LibraryEditor, VideoPlayer).
THEOREM PagesAlwaysTyped == Spec => []PagesTypeOK
  BY BrowseAlways, SizesAlways, BrowseTyped, TitleTypes, AdminTypesAlways, AdminTyped, ChromeTypes, PTL DEF PagesTypeOK


-----------------------------------------------------------------------------
\* Together: grid, guard and filter are those of the listing asked for last
\* (useLibraryPaging, useDebouncedValue).
THEOREM BrowseIsAlwaysTrue == Spec => []BrowseIsTrue
  BY GridStaysInOrder, InFlightAlwaysTrue, QueryAlwaysFollows, PTL DEF BrowseIsTrue
=============================================================================
