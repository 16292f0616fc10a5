------------------------- MODULE WebTransport_proofs -------------------------
(***************************************************************************)
(* Proofs about WebTransport, for any film, chapters, timeouts and number  *)
(* of inputs: types, that the page sees usePlayerControls do nothing but   *)
(* its own steps, that button and <video> agree and the clock is true once *)
(* the queued events are handled, that a viewer who leaves has the place   *)
(* sent, and that chapter keys go to the neighbouring chapter.             *)
(***************************************************************************)
EXTENDS WebTransport, PlayerControls_proofs, WellFoundedInduction

-----------------------------------------------------------------------------
(* Chapters *)

\* A set of naturals that has an element has a smallest one.
LEMMA SmallestOf ==
    ASSUME NEW S, S \subseteq Nat, S # {}
    PROVE  \E i \in S : \A j \in S : i <= j
  <1>1. PICK i \in S : \A j \in S : ~(<<j, i>> \in OpToRel(<, Nat))
    BY NatLessThanWellFounded, WFMin, Zenon
  <1>2. ASSUME NEW j \in S PROVE i <= j
    <2>1. ~(j < i)
      BY <1>1 DEF OpToRel
    <2> QED
      BY <2>1
  <1> QED
    BY <1>2

\* A bounded one has a greatest.
LEMMA GreatestOf ==
    ASSUME NEW n \in Nat, NEW S, S \subseteq 1 .. n, S # {}
    PROVE  \E i \in S : \A j \in S : j <= i
  <1> DEFINE T == {n - i : i \in S}
  <1>1. T \subseteq Nat /\ T # {}
    OBVIOUS
  <1>2. PICK t \in T : \A u \in T : t <= u
    BY <1>1, SmallestOf
  <1>3. PICK i \in S : t = n - i
    OBVIOUS
  <1>4. ASSUME NEW j \in S PROVE j <= i
    <2>1. n - j \in T
      OBVIOUS
    <2>2. n - i <= n - j
      BY <1>2, <1>3, <2>1
    <2> QED
      BY <2>2
  <1> QED
    BY <1>4

\* The next chapter starts later and none lies between; there is none only
\* when no chapter starts later.
LEMMA NextChapterIsNext ==
    ASSUME NEW p \in Place
    PROVE  \/ NextChapter(p) = None /\ \A i \in 1 .. Len(Chapters) : Chapters[i] <= p
           \/ /\ NextChapter(p) \in Place /\ NextChapter(p) > p
              /\ \A i \in 1 .. Len(Chapters) : ~(p < Chapters[i] /\ Chapters[i] < NextChapter(p))
  <1> DEFINE later == {i \in 1 .. Len(Chapters) : Chapters[i] > p}
             first == CHOOSE i \in later : \A j \in later : i <= j
  <1>1. Len(Chapters) \in Nat /\ \A i \in 1 .. Len(Chapters) : Chapters[i] \in Place /\ Chapters[i] \in Nat
    BY TransportAssumption DEF Place
  <1>2. p \in Nat
    BY TransportAssumption DEF Place
  <1>3. CASE later = {}
    <2>1. NextChapter(p) = None
      BY <1>3 DEF NextChapter
    <2> QED
      BY <1>1, <1>2, <1>3, <2>1
  <1>4. CASE later # {}
    <2>1. \E i \in later : \A j \in later : i <= j
      <3>1. later \subseteq Nat
        BY <1>1
      <3> QED
        BY <1>4, <3>1, SmallestOf
    <2>2. first \in later /\ \A j \in later : first <= j
      BY <2>1
    <2>3. NextChapter(p) = Chapters[first]
      BY <1>4 DEF NextChapter
    <2> HIDE DEF first
    <2>4. Chapters[first] \in Place /\ Chapters[first] > p /\ first \in 1 .. Len(Chapters)
      BY <1>1, <2>2
    <2>5. ASSUME NEW i \in 1 .. Len(Chapters), p < Chapters[i], Chapters[i] < Chapters[first] PROVE FALSE
      <3>1. i \in later
        BY <2>5, <1>1, <1>2
      <3>2. first <= i /\ first # i
        BY <2>2, <2>4, <2>5, <3>1, <1>1
      <3>3. first < i
        BY <3>2, <2>4
      <3>4. Chapters[first] < Chapters[i]
        BY <3>3, <2>4, TransportAssumption
      <3> QED
        BY <3>4, <2>4, <2>5, <1>1
    <2> QED
      BY <2>3, <2>4, <2>5
  <1> QED
    BY <1>3, <1>4

\* The previous chapter started earlier, or is the first one.
LEMMA PreviousChapterIsPrevious ==
    ASSUME NEW p \in Place
    PROVE  \/ Chapters = <<>> /\ PreviousChapter(p) = None
           \/ /\ PreviousChapter(p) \in Place
              /\ PreviousChapter(p) <= p \/ PreviousChapter(p) = Chapters[1]
  <1> DEFINE earlier == {i \in 1 .. Len(Chapters) : Chapters[i] + Grace <= p}
             latest == CHOOSE i \in earlier : \A j \in earlier : j <= i
  <1>1. Len(Chapters) \in Nat /\ \A i \in 1 .. Len(Chapters) : Chapters[i] \in Place /\ Chapters[i] \in Nat
    BY TransportAssumption DEF Place
  <1>2. p \in Nat /\ Grace \in Nat
    BY TransportAssumption DEF Place
  <1>3. CASE Chapters = <<>>
    BY <1>3 DEF PreviousChapter
  <1>4. CASE Chapters # <<>> /\ earlier = {}
    <2>1. 1 \in 1 .. Len(Chapters)
      BY <1>1, <1>4, TransportAssumption
    <2>2. PreviousChapter(p) = Chapters[1]
      BY <1>4 DEF PreviousChapter
    <2> QED
      BY <1>1, <2>1, <2>2
  <1>5. CASE Chapters # <<>> /\ earlier # {}
    <2>1. \E i \in earlier : \A j \in earlier : j <= i
      <3>1. earlier \subseteq 1 .. Len(Chapters)
        OBVIOUS
      <3> QED
        BY <1>1, <1>5, <3>1, GreatestOf
    <2>2. latest \in earlier
      BY <2>1
    <2>3. PreviousChapter(p) = Chapters[latest]
      BY <1>5 DEF PreviousChapter
    <2> HIDE DEF latest
    <2>4. Chapters[latest] \in Place /\ Chapters[latest] + Grace <= p /\ Chapters[latest] \in Nat
      BY <1>1, <2>2
    <2> QED
      BY <1>2, <2>3, <2>4
  <1> QED
    BY <1>3, <1>4, <1>5

-----------------------------------------------------------------------------
(* The page implements the hook *)

ElemType == [at : Place, started : BOOLEAN, loaded : BOOLEAN, paused : BOOLEAN, seeking : BOOLEAN]
ResumeType == [fetched : BOOLEAN, at : Place \cup {None}, chip : BOOLEAN, initial : Place \cup {None}]
WriterType == [last : Place \cup {None}, since : 0 .. WriteInterval]

\* A place of the film is a position of the hook.
LEMMA PlaceIsPosition ==
    /\ Place \subseteq Position /\ Place \subseteq Nat /\ Position \subseteq Nat
    /\ 0 \in Place /\ Length \in Place /\ Length \in Nat
    /\ \A p \in Position : (IF p > Length THEN Length ELSE p) \in Place
    /\ \A p \in Place : p < Length => p + 1 \in Place
    /\ 0 \in 0 .. WriteInterval /\ WriteInterval \in 0 .. WriteInterval
    /\ None \notin Place
  BY TransportAssumption, ControlsAssumption DEF Place, Position, None

\* Every step of the page is a step of the hook, or leaves it alone.
LEMMA PageStepsHook == elem \in ElemType /\ [Next]_vars => [HookNext]_hook
  <1> SUFFICES ASSUME elem \in ElemType, [Next]_vars PROVE [HookNext]_hook
    OBVIOUS
  <1>0. elem.at \in Position
    BY PlaceIsPosition DEF ElemType
  <1>1. CASE UNCHANGED vars
    BY <1>1 DEF vars
  <1>2. CASE \/ StartPlayback \/ MetadataLoads \/ SeekLands \/ VideoPlays \/ TabHides \/ GoBack
             \/ NothingToRun \/ Interrupted
    BY <1>2 DEF StartPlayback, MetadataLoads, SeekLands, VideoPlays, TabHides, GoBack,
                NothingToRun, Interrupted
  <1>3. CASE (\E p \in Saved : ProgressArrives(p)) \/ DismissChip \/ StartOver
    BY <1>3 DEF ProgressArrives, DismissChip, StartOver, HookNext
  <1>4. CASE MetaEvent
    BY <1>4, PlaceIsPosition DEF MetaEvent, HookNext
  <1>5. CASE TimeEvent
    BY <1>0, <1>5 DEF TimeEvent, HookNext
  <1>6. CASE PlayEvent \/ PauseEvent
    <2>1. SetPlaying(TRUE) \/ SetPlaying(FALSE)
      BY <1>6 DEF PlayEvent, PauseEvent, Hears
    <2>2. TRUE \in BOOLEAN /\ FALSE \in BOOLEAN
      OBVIOUS
    <2> QED
      BY <2>1, <2>2 DEF HookNext
  <1>7. CASE (\E key \in Key : PressKey(key)) \/ PointerMoves
    BY <1>7 DEF PressKey, PointerMoves, HookNext
  <1>8. CASE (\E p \in Place : SeekClick(p)) \/ ChapterKey(NextChapter(elem.at))
             \/ ChapterKey(PreviousChapter(elem.at))
    BY <1>8 DEF SeekClick, ChapterKey
  <1>9. CASE RunsEffects \/ SeekCommits \/ Timers
    BY <1>9 DEF RunsEffects, SeekCommits, Timers, HookNext
  <1> QED
    BY <1>1, <1>2, <1>3, <1>4, <1>5, <1>6, <1>7, <1>8, <1>9 DEF Next

-----------------------------------------------------------------------------
(* Types *)

\* Commands to the element keep it, and its queue, well typed.
LEMMA CommandsType ==
    ASSUME elem \in ElemType, events \in Seq(Event)
    PROVE  /\ DoPlay => elem' \in ElemType /\ events' \in Seq(Event)
           /\ DoPause => elem' \in ElemType /\ events' \in Seq(Event)
           /\ \A p \in Position : SeekTo(p) => elem' \in ElemType
           /\ \A e \in Event : Queue(events, e) \in Seq(Event)
  <1>1. \A e \in Event : Queue(events, e) \in Seq(Event)
    BY DEF Queue
  <1>2. "play" \in Event /\ "pause" \in Event
    BY DEF Event
  <1>3. DoPlay => elem' \in ElemType /\ events' \in Seq(Event)
    <2>1. Playing(elem) \in ElemType
      BY PlaceIsPosition DEF Playing, ElemType
    <2> QED
      BY <1>1, <1>2, <2>1 DEF DoPlay
  <1>4. DoPause => elem' \in ElemType /\ events' \in Seq(Event)
    <2>1. [elem EXCEPT !.paused = TRUE] \in ElemType
      BY DEF ElemType
    <2> QED
      BY <1>1, <1>2, <2>1 DEF DoPause
  <1>5. ASSUME NEW p \in Position, SeekTo(p) PROVE elem' \in ElemType
    <2> DEFINE q == IF p > Length THEN Length ELSE p
    <2>1. q \in Place
      BY PlaceIsPosition
    <2>2. elem' = [elem EXCEPT !.at = q, !.seeking = elem.loaded]
      BY <1>5 DEF SeekTo
    <2> HIDE DEF q
    <2> QED
      BY <2>1, <2>2 DEF ElemType
  <1> QED
    BY <1>1, <1>3, <1>4, <1>5

\* What the proofs below need of the types.
PageInv ==
    /\ ControlsTypeOK
    /\ elem \in ElemType /\ events \in Seq(Event)
    /\ resume.initial \in Place \cup {None} /\ resume \in ResumeType

\* Every step keeps the element and its queue well typed.
LEMMA PageTypeStep == PageInv /\ [Next]_vars => PageInv'
  <1> SUFFICES ASSUME PageInv, [Next]_vars PROVE PageInv'
    OBVIOUS
  <1>0. ControlsTypeOK' /\ elem \in ElemType /\ events \in Seq(Event) /\ resume \in ResumeType
    BY PageStepsHook, ControlsTypeStep DEF PageInv
  <1> DEFINE Goal == elem' \in ElemType /\ events' \in Seq(Event) /\ resume' \in ResumeType
  <1> SUFFICES Goal
    BY <1>0 DEF PageInv, ResumeType
  <1>1. CASE UNCHANGED vars
    BY <1>0, <1>1 DEF vars, outside
  <1>2. CASE StartPlayback
    <2>1. elem' \in ElemType /\ resume' = resume
      BY <1>0, <1>2 DEF StartPlayback, ElemType
    <2>2. events' \in Seq(Event)
      BY <1>0, <1>2, CommandsType DEF StartPlayback, Event
    <2> QED
      BY <1>0, <2>1, <2>2
  <1>3. CASE MetadataLoads
    <2> DEFINE to == IF resume.initial = None THEN elem.at ELSE resume.initial
    <2>1. to \in Place /\ (resume.initial # None) \in BOOLEAN
      BY <1>0 DEF PageInv, ElemType
    <2>2. elem' = [elem EXCEPT !.loaded = TRUE, !.at = to, !.seeking = resume.initial # None]
      BY <1>3, <1>0 DEF MetadataLoads, ElemType
    <2> HIDE DEF to
    <2>3. elem' \in ElemType /\ resume' = resume
      BY <1>0, <1>3, <2>1, <2>2 DEF MetadataLoads, outside, ElemType
    <2>4. events' = Queue(Queue(events, "meta"), "time")
      BY <1>3 DEF MetadataLoads
    <2>5. events' \in Seq(Event)
      BY <1>0, <2>4 DEF Queue, Event
    <2> QED
      BY <1>0, <2>3, <2>5
  <1>4. CASE SeekLands
    <2>1. elem' \in ElemType /\ resume' = resume
      BY <1>0, <1>4 DEF SeekLands, ElemType, outside
    <2>2. events' \in Seq(Event)
      BY <1>0, <1>4, CommandsType DEF SeekLands, Event
    <2> QED
      BY <1>0, <2>1, <2>2
  <1>5. CASE VideoPlays
    <2>1. resume' = resume
      BY <1>5 DEF VideoPlays
    <2>2. CASE elem.at < Length
      <3>1. elem' = [elem EXCEPT !.at = elem.at + 1] /\ events' = Queue(events, "time")
        BY <1>5, <2>2 DEF VideoPlays
      <3>2. elem.at + 1 \in Place
        BY <1>0, <2>2, PlaceIsPosition DEF ElemType
      <3> QED
        BY <1>0, <2>1, <3>1, <3>2, CommandsType DEF Event, ElemType
    <2>3. CASE ~(elem.at < Length)
      <3>1. elem' = [elem EXCEPT !.paused = TRUE] /\ events' = Queue(Queue(events, "time"), "pause")
        BY <1>5, <2>3 DEF VideoPlays
      <3>2. events' \in Seq(Event)
        BY <1>0, <3>1 DEF Queue, Event
      <3> QED
        BY <1>0, <2>1, <3>1, <3>2 DEF ElemType
    <2> QED
      BY <2>2, <2>3
  <1>6. CASE (\E p \in Saved : ProgressArrives(p)) \/ DismissChip \/ StartOver
    <2>1. events' = events /\ (elem' = elem \/ SeekTo(0))
      BY <1>6 DEF ProgressArrives, DismissChip, StartOver
    <2>2. elem' \in ElemType
      BY <1>0, <2>1, CommandsType, PlaceIsPosition
    <2>3. ASSUME NEW p \in Saved, ProgressArrives(p) PROVE resume' \in ResumeType
      <3>1. p \in Place /\ MinResume \in Nat
        BY TransportAssumption DEF Place
      <3>2. (IF p < MinResume THEN None ELSE p) \in Place \cup {None} /\ (p >= MinResume) \in BOOLEAN
        BY <3>1
      <3> QED
        BY <1>0, <2>3, <3>2 DEF ProgressArrives, ResumeType
    <2>4. DismissChip \/ StartOver => resume' \in ResumeType
      BY <1>0 DEF DismissChip, StartOver, ResumeType
    <2> QED
      BY <1>0, <1>6, <2>1, <2>2, <2>3, <2>4
  <1>7. CASE TabHides \/ GoBack \/ NothingToRun \/ Timers \/ PointerMoves \/ \E key \in Key : PressKey(key)
    BY <1>0, <1>7 DEF TabHides, GoBack, NothingToRun, Timers, PointerMoves, PressKey, outside
  <1>8. CASE MetaEvent \/ TimeEvent \/ PlayEvent \/ PauseEvent
    <2>1. events # <<>> /\ events' = Tail(events) /\ elem' = elem /\ resume' = resume
      BY <1>8 DEF MetaEvent, TimeEvent, PlayEvent, PauseEvent, Pending, outside
    <2> QED
      BY <1>0, <2>1
  <1>9. ASSUME NEW p \in Place \cup {None}, SeekClick(p) \/ ChapterKey(p), p # None PROVE Goal
    <2>1. p \in Position /\ 0 \in Position
      BY <1>9, PlaceIsPosition
    <2>2. SeekTo(p) \/ SeekTo(0)
      BY <1>9 DEF SeekClick, ChapterKey
    <2>3. events' = events /\ resume' = resume
      BY <1>9 DEF SeekClick, ChapterKey
    <2> QED
      BY <1>0, <2>1, <2>2, <2>3, CommandsType
  <1>10. CASE \/ \E p \in Place : SeekClick(p)
              \/ ChapterKey(NextChapter(elem.at)) \/ ChapterKey(PreviousChapter(elem.at))
    <2>1. elem.at \in Place
      BY <1>0 DEF ElemType
    <2>2. NextChapter(elem.at) \in Place \cup {None} /\ PreviousChapter(elem.at) \in Place \cup {None}
      BY <2>1, NextChapterIsNext, PreviousChapterIsPrevious
    <2>3. CASE \E p \in Place : SeekClick(p)
      BY <1>9, <2>3, PlaceIsPosition
    <2>4. CASE ChapterKey(NextChapter(elem.at))
      <3>1. NextChapter(elem.at) # None
        BY <2>4 DEF ChapterKey
      <3> QED
        BY <1>9, <2>2, <2>4, <3>1
    <2>5. CASE ChapterKey(PreviousChapter(elem.at))
      <3>1. PreviousChapter(elem.at) # None
        BY <2>5 DEF ChapterKey
      <3> QED
        BY <1>9, <2>2, <2>5, <3>1
    <2> QED
      BY <1>10, <2>3, <2>4, <2>5
  <1>11. CASE Interrupted
    BY <1>0, <1>11, CommandsType DEF Interrupted
  <1>12. CASE RunsEffects
    <2>1. UNCHANGED <<elem, events>> \/ DoPlay \/ DoPause
      BY <1>12 DEF RunsEffects
    <2> QED
      BY <1>0, <1>12, <2>1, CommandsType DEF RunsEffects, outside
  <1>13. CASE SeekCommits
    <2>1. armedFor \in Position
      BY DEF PageInv, ControlsTypeOK
    <2> QED
      BY <1>0, <1>13, <2>1, CommandsType DEF SeekCommits, outside
  <1> QED
    BY <1>1, <1>2, <1>3, <1>4, <1>5, <1>6, <1>7, <1>8, <1>10, <1>11, <1>12, <1>13 DEF Next

\* The page's types hold throughout.
LEMMA PageAlways == Spec => []PageInv
  <1>1. Init => PageInv
    BY ControlsTypeInit, PlaceIsPosition DEF Init, PageInv, ElemType, ResumeType
  <1> QED
    BY <1>1, PageTypeStep, PTL DEF Spec

\* The web page implements the hook, element events, interruptions, resumes and
\* direct seeks included.
THEOREM PageImplementsHook == Spec => HookSpec
  <1>1. Init => HookInit
    BY DEF Init
  <1>2. PageInv => elem \in ElemType
    BY DEF PageInv
  <1> QED
    BY <1>1, <1>2, PageStepsHook, PageAlways, PTL DEF Spec, HookSpec

\* Hence on the page: the overlay stays up under a scrub,
THEOREM PageScrubIsShown == Spec => []ScrubShown
  BY PageImplementsHook, ScrubIsShown

\* every dialled scrub has its settle timer,
THEOREM PageScrubIsArmed == Spec => []ScrubArmed
  BY PageImplementsHook, ScrubIsArmed

\* and the overlay's hide timer follows the play state.
THEOREM PageOverlayHides == Spec => []OverlayWillHide
  BY PageImplementsHook, OverlayHides

\* The next and previous chapter keys (chapters.ts) skip no chapter, for any
\* list of chapters and any grace.
THEOREM ChaptersAlwaysStep == Spec => []ChaptersStep
  <1>1. PageInv => ChaptersStep
    <2> SUFFICES ASSUME PageInv PROVE ChaptersStep
      OBVIOUS
    <2>1. elem.at \in Place
      BY DEF PageInv, ElemType
    <2>2. /\ NextChapter(elem.at) # None =>
               /\ NextChapter(elem.at) > elem.at
               /\ \A i \in 1 .. Len(Chapters) :
                     ~(elem.at < Chapters[i] /\ Chapters[i] < NextChapter(elem.at))
          /\ Chapters # <<>> => \/ PreviousChapter(elem.at) <= elem.at
                                \/ PreviousChapter(elem.at) = Chapters[1]
      BY <2>1, NextChapterIsNext, PreviousChapterIsPrevious
    <2> QED
      BY <2>2 DEF ChaptersStep
  <1> QED
    BY <1>1, PageAlways, PTL

-----------------------------------------------------------------------------
(* The queue of element events *)

Command == {"play", "pause"}
NoCommand(q) == \A i \in 1 .. Len(q) : q[i] \notin Command
LastIs(q, e) == \E i \in 1 .. Len(q) : q[i] = e /\ \A j \in i + 1 .. Len(q) : q[j] \notin Command
NoTime(q) == \A i \in 1 .. Len(q) : q[i] # "time"

\* A queued command is the last one.
LEMMA QueueCommand ==
    ASSUME NEW q \in Seq(Event), NEW e \in Command
    PROVE  /\ Queue(q, e) \in Seq(Event) /\ LastIs(Queue(q, e), e) /\ ~NoCommand(Queue(q, e))
           /\ NoTime(Queue(q, e)) => NoTime(q)
  <1>1. Queue(q, e) = Append(q, e) /\ e \in Event
    BY DEF Queue, Command, Event
  <1>2. Len(q) \in Nat /\ Len(Append(q, e)) = Len(q) + 1 /\ Append(q, e)[Len(q) + 1] = e
        /\ \A i \in 1 .. Len(q) : Append(q, e)[i] = q[i]
    BY <1>1
  <1>3. Append(q, e) \in Seq(Event)
    BY <1>1
  <1>4. LastIs(Append(q, e), e)
    <2> DEFINE n == Len(q) + 1
    <2>1. n \in 1 .. Len(Append(q, e)) /\ Append(q, e)[n] = e
          /\ \A j \in n + 1 .. Len(Append(q, e)) : FALSE
      BY <1>2
    <2> HIDE DEF n
    <2> QED
      BY <2>1 DEF LastIs
  <1>5. ~NoCommand(Append(q, e))
    BY <1>2 DEF NoCommand
  <1>6. NoTime(Append(q, e)) => NoTime(q)
    BY <1>2 DEF NoTime
  <1> QED
    BY <1>1, <1>3, <1>4, <1>5, <1>6

\* Another event changes nothing about the commands, and a time event is there afterwards.
LEMMA QueueOther ==
    ASSUME NEW q \in Seq(Event), NEW e \in {"time", "meta"}
    PROVE  /\ Queue(q, e) \in Seq(Event)
           /\ NoCommand(Queue(q, e)) <=> NoCommand(q)
           /\ \A x \in Command : LastIs(q, x) => LastIs(Queue(q, e), x)
           /\ e = "time" => ~NoTime(Queue(q, e))
           /\ NoTime(Queue(q, e)) => NoTime(q)
  <1>1. CASE e = "time" /\ \E i \in 1 .. Len(q) : q[i] = "time"
    BY <1>1 DEF Queue, NoTime
  <1>2. CASE ~(e = "time" /\ \E i \in 1 .. Len(q) : q[i] = "time")
    <2>1. Queue(q, e) = Append(q, e) /\ e \in Event /\ e \notin Command
      BY <1>2 DEF Queue, Event, Command
    <2>2. Len(q) \in Nat /\ Len(Append(q, e)) = Len(q) + 1 /\ Append(q, e)[Len(q) + 1] = e
          /\ \A i \in 1 .. Len(q) : Append(q, e)[i] = q[i]
      BY <2>1
    <2>3. Append(q, e) \in Seq(Event)
      BY <2>1
    <2>4. NoCommand(Append(q, e)) <=> NoCommand(q)
      BY <2>1, <2>2 DEF NoCommand
    <2>5. ASSUME NEW x \in Command, LastIs(q, x) PROVE LastIs(Append(q, e), x)
      <3>1. PICK i \in 1 .. Len(q) : q[i] = x /\ \A j \in i + 1 .. Len(q) : q[j] \notin Command
        BY <2>5 DEF LastIs
      <3>2. i \in 1 .. Len(q) + 1 /\ Append(q, e)[i] = x
        BY <2>2, <3>1
      <3>3. ASSUME NEW j \in i + 1 .. Len(q) + 1 PROVE Append(q, e)[j] \notin Command
        <4>1. CASE j = Len(q) + 1
          BY <2>1, <2>2, <4>1
        <4>2. CASE j # Len(q) + 1
          BY <2>2, <3>1, <4>2
        <4> QED
          BY <4>1, <4>2
      <3> QED
        BY <2>2, <3>2, <3>3 DEF LastIs
    <2>6. e = "time" => ~NoTime(Append(q, e))
      BY <2>2 DEF NoTime
    <2>7. NoTime(Append(q, e)) => NoTime(q)
      BY <2>2 DEF NoTime
    <2> QED
      BY <2>1, <2>3, <2>4, <2>5, <2>6, <2>7
  <1> QED
    BY <1>1, <1>2

\* Handling the oldest event: the last command stays the last, or was this one.
LEMMA TailOfQueue ==
    ASSUME NEW q \in Seq(Event), q # <<>>
    PROVE  /\ Tail(q) \in Seq(Event)
           /\ NoCommand(q) => NoCommand(Tail(q))
           /\ \A x \in Command : LastIs(q, x) =>
                 IF NoCommand(Tail(q)) THEN Head(q) = x ELSE LastIs(Tail(q), x)
           /\ Head(q) # "time" => (NoTime(Tail(q)) => NoTime(q))
  <1>1. Tail(q) \in Seq(Event) /\ Len(q) \in Nat /\ Len(q) > 0 /\ Len(Tail(q)) = Len(q) - 1
        /\ Head(q) = q[1] /\ \A i \in 1 .. Len(q) - 1 : Tail(q)[i] = q[i + 1]
    OBVIOUS
  <1>2. NoCommand(q) => NoCommand(Tail(q))
    <2> SUFFICES ASSUME NoCommand(q), NEW i \in 1 .. Len(q) - 1 PROVE Tail(q)[i] \notin Command
      BY <1>1 DEF NoCommand
    <2>1. i + 1 \in 1 .. Len(q)
      BY <1>1
    <2> QED
      BY <1>1, <2>1 DEF NoCommand
  <1>3. ASSUME NEW x \in Command, LastIs(q, x)
        PROVE  IF NoCommand(Tail(q)) THEN Head(q) = x ELSE LastIs(Tail(q), x)
    <2>1. PICK i \in 1 .. Len(q) : q[i] = x /\ \A j \in i + 1 .. Len(q) : q[j] \notin Command
      BY <1>3 DEF LastIs
    <2>2. CASE i = 1
      <3>1. ASSUME NEW k \in 1 .. Len(q) - 1 PROVE Tail(q)[k] \notin Command
        <4>1. k + 1 \in i + 1 .. Len(q)
          BY <1>1, <2>2
        <4> QED
          BY <1>1, <2>1, <4>1
      <3>2. NoCommand(Tail(q))
        BY <1>1, <3>1 DEF NoCommand
      <3> QED
        BY <1>1, <2>1, <2>2, <3>2
    <2>3. CASE i # 1
      <3>1. i - 1 \in 1 .. Len(q) - 1 /\ Tail(q)[i - 1] = x
        BY <1>1, <2>1, <2>3
      <3>2. ASSUME NEW k \in i .. Len(q) - 1 PROVE Tail(q)[k] \notin Command
        <4>1. k + 1 \in i + 1 .. Len(q) /\ k \in 1 .. Len(q) - 1
          BY <1>1
        <4> QED
          BY <1>1, <2>1, <4>1
      <3>3. LastIs(Tail(q), x)
        <4> DEFINE h == i - 1
        <4>1. h \in 1 .. Len(Tail(q)) /\ Tail(q)[h] = x /\ \A k \in h + 1 .. Len(Tail(q)) : Tail(q)[k] \notin Command
          BY <1>1, <3>1, <3>2
        <4> HIDE DEF h
        <4> QED
          BY <4>1 DEF LastIs
      <3>4. ~NoCommand(Tail(q))
        BY <1>1, <3>1 DEF NoCommand
      <3> QED
        BY <3>3, <3>4
    <2> QED
      BY <2>2, <2>3
  <1>4. ASSUME Head(q) # "time", NoTime(Tail(q)) PROVE NoTime(q)
    <2> SUFFICES ASSUME NEW i \in 1 .. Len(q) PROVE q[i] # "time"
      BY DEF NoTime
    <2>1. CASE i = 1
      BY <1>1, <1>4, <2>1
    <2>2. CASE i # 1
      <3>1. i - 1 \in 1 .. Len(q) - 1 /\ Tail(q)[i - 1] = q[i]
        BY <1>1, <2>2
      <3> QED
        BY <1>1, <1>4, <3>1 DEF NoTime
    <2> QED
      BY <2>1, <2>2
  <1> QED
    BY <1>1, <1>2, <1>3, <1>4

-----------------------------------------------------------------------------
(* Button and video *)

\* The command that leads to a paused, or to a playing video.
CommandOf(paused) == IF paused THEN "pause" ELSE "play"

\* What makes InLockstep inductive.  A queued play or pause event will tell
\* the page what the video does: the last one queued is true.  With none
\* queued, the intent last reported was obeyed, or the page has just been told
\* and its effects are to run before anything else.
LockInv ==
    IF NoCommand(events)
    THEN reflected = ~elem.paused \/ (flush /\ state.isPlaying = ~elem.paused)
    ELSE LastIs(events, CommandOf(elem.paused))

\* A step that queues a command the video has obeyed.
LEMMA LockQueued ==
    ASSUME PageInv, NEW q \in Seq(Event), NEW b \in BOOLEAN, elem'.paused = b,
           events' = Queue(q, CommandOf(b))
    PROVE  LockInv'
  <1>1. CommandOf(b) \in Command
    BY DEF CommandOf, Command
  <1>2. LastIs(events', CommandOf(b)) /\ ~NoCommand(events')
    BY <1>1, QueueCommand
  <1> QED
    BY <1>2 DEF LockInv

\* A step of the video that queues no command, outside a flush.
LEMMA LockKept ==
    ASSUME PageInv, LockInv, ~flush, elem'.paused = elem.paused, reflected' = reflected,
           NoCommand(events') <=> NoCommand(events),
           \A x \in Command : LastIs(events, x) => LastIs(events', x)
    PROVE  LockInv'
  <1>1. CommandOf(elem.paused) \in Command
    BY DEF CommandOf, Command
  <1>2. CASE NoCommand(events)
    <2>1. reflected = ~elem.paused
      BY <1>2 DEF LockInv
    <2> QED
      BY <1>2, <2>1 DEF LockInv
  <1>3. CASE ~NoCommand(events)
    <2>1. LastIs(events', CommandOf(elem.paused))
      BY <1>1, <1>3 DEF LockInv
    <2> QED
      BY <1>3, <2>1 DEF LockInv
  <1> QED
    BY <1>2, <1>3

\* Handling an event: a command that was the last one is now the page's intent.
LEMMA LockHandled ==
    ASSUME PageInv, LockInv, ~flush, events # <<>>, events' = Tail(events), elem' = elem,
           reflected' = reflected,
           Head(events) \in Command => flush' /\ state'.isPlaying = (Head(events) = "play")
    PROVE  LockInv'
  <1>0. events \in Seq(Event) /\ elem.paused \in BOOLEAN
    BY DEF PageInv, ElemType
  <1>1. CommandOf(elem.paused) \in Command
    BY DEF CommandOf, Command
  <1>2. CASE NoCommand(events)
    <2>1. reflected = ~elem.paused /\ NoCommand(events')
      BY <1>0, <1>2, TailOfQueue DEF LockInv
    <2> QED
      BY <2>1 DEF LockInv
  <1>3. CASE ~NoCommand(events) /\ NoCommand(events')
    <2>1. Head(events) = CommandOf(elem.paused)
      BY <1>0, <1>1, <1>3, TailOfQueue DEF LockInv
    <2>2. flush' /\ state'.isPlaying = ~elem.paused
      BY <1>0, <1>1, <2>1 DEF CommandOf
    <2> QED
      BY <1>3, <2>2 DEF LockInv
  <1>4. CASE ~NoCommand(events) /\ ~NoCommand(events')
    <2>1. LastIs(events', CommandOf(elem.paused))
      BY <1>0, <1>1, <1>4, TailOfQueue DEF LockInv
    <2> QED
      BY <1>4, <2>1 DEF LockInv
  <1> QED
    BY <1>2, <1>3, <1>4

\* The effects: an intent that changed is told to the video, which obeys.
LEMMA LockEffects == PageInv /\ LockInv /\ RunsEffects => LockInv'
  <1> SUFFICES ASSUME PageInv, LockInv, RunsEffects PROVE LockInv'
    OBVIOUS
  <1>0. elem \in ElemType /\ events \in Seq(Event) /\ elem.paused \in BOOLEAN
        /\ state.isPlaying \in BOOLEAN /\ reflected \in BOOLEAN
    BY DEF PageInv, ElemType, ControlsTypeOK, State
  <1>1. state' = state /\ reflected' = state.isPlaying
    BY DEF RunsEffects, RunEffects
  <1>2. CASE ~ReflectsIntent
    <2>1. reflected = state.isPlaying /\ elem' = elem /\ events' = events
      BY <1>0, <1>1, <1>2 DEF RunsEffects, ReflectsIntent
    <2> QED
      BY <1>0, <1>1, <2>1 DEF LockInv
  <1>3. CASE ReflectsIntent /\ state.isPlaying
    <2>1. DoPlay
      BY <1>3 DEF RunsEffects
    <2>2. CASE elem.paused
      <3>1. elem'.paused = FALSE
        BY <1>0, <2>1, <2>2 DEF DoPlay, Playing, ElemType
      <3>2. events' = Queue(events, CommandOf(FALSE))
        BY <2>1, <2>2 DEF DoPlay, CommandOf
      <3> QED
        BY <1>0, <3>1, <3>2, LockQueued
    <2>3. CASE ~elem.paused
      <3>1. elem' = elem /\ events' = events /\ reflected' = ~elem.paused
        BY <1>0, <1>1, <1>3, <2>1, <2>3 DEF DoPlay
      <3> QED
        BY <3>1 DEF LockInv
    <2> QED
      BY <2>2, <2>3
  <1>4. CASE ReflectsIntent /\ ~state.isPlaying
    <2>1. DoPause
      BY <1>4 DEF RunsEffects
    <2>2. elem'.paused = TRUE
      BY <1>0, <2>1 DEF DoPause, ElemType
    <2>3. CASE elem.paused
      <3>1. events' = events /\ reflected' = ~elem'.paused
        BY <1>0, <1>1, <1>4, <2>1, <2>2, <2>3 DEF DoPause
      <3> QED
        BY <1>0, <2>2, <2>3, <3>1 DEF LockInv
    <2>4. CASE ~elem.paused
      <3>1. events' = Queue(events, CommandOf(TRUE))
        BY <2>1, <2>4 DEF DoPause, CommandOf
      <3> QED
        BY <1>0, <2>2, <3>1, LockQueued
    <2> QED
      BY <2>3, <2>4
  <1> QED
    BY <1>0, <1>2, <1>3, <1>4

\* The element's own steps: autoplay, metadata, seeks, the end of the film, interruptions.
LEMMA LockElement ==
    PageInv /\ LockInv /\ (StartPlayback \/ MetadataLoads \/ SeekLands \/ VideoPlays \/ Interrupted)
       => LockInv'
  <1> SUFFICES ASSUME PageInv, LockInv,
                      StartPlayback \/ MetadataLoads \/ SeekLands \/ VideoPlays \/ Interrupted
               PROVE  LockInv'
    OBVIOUS
  <1>0. elem \in ElemType /\ events \in Seq(Event) /\ elem.paused \in BOOLEAN
    BY DEF PageInv, ElemType
  <1>1. ~flush /\ reflected' = reflected
    BY DEF StartPlayback, MetadataLoads, SeekLands, VideoPlays, Interrupted, Input, Task, hook
  <1>2. CASE StartPlayback
    <2>1. CASE elem' = [elem EXCEPT !.started = TRUE, !.paused = FALSE]
               /\ events' = IF elem.paused THEN Queue(events, "play") ELSE events
      <3>1. elem'.paused = FALSE
        BY <1>0, <2>1 DEF ElemType
      <3>2. CASE elem.paused
        <4>1. events' = Queue(events, CommandOf(FALSE))
          BY <2>1, <3>2 DEF CommandOf
        <4> QED
          BY <1>0, <3>1, <4>1, LockQueued
      <3>3. CASE ~elem.paused
        <4>1. events' = events /\ elem'.paused = elem.paused
          BY <1>0, <2>1, <3>1, <3>3
        <4> QED
          BY <1>1, <4>1, LockKept
      <3> QED
        BY <3>2, <3>3
    <2>2. CASE elem' = [elem EXCEPT !.started = TRUE] /\ UNCHANGED events
      <3>1. elem'.paused = elem.paused
        BY <1>0, <2>2 DEF ElemType
      <3> QED
        BY <1>1, <2>2, <3>1, LockKept
    <2> QED
      BY <1>2, <2>1, <2>2 DEF StartPlayback
  <1>3. CASE MetadataLoads
    <2> DEFINE mid == Queue(events, "meta")
    <2>1. elem'.paused = elem.paused
      BY <1>0, <1>3 DEF MetadataLoads, ElemType
    <2>2. events' = Queue(mid, "time")
      BY <1>3 DEF MetadataLoads
    <2>3. mid \in Seq(Event) /\ (NoCommand(mid) <=> NoCommand(events))
          /\ \A x \in Command : LastIs(events, x) => LastIs(mid, x)
      BY <1>0, QueueOther
    <2> HIDE DEF mid
    <2>4. (NoCommand(events') <=> NoCommand(mid)) /\ \A x \in Command : LastIs(mid, x) => LastIs(events', x)
      BY <2>2, <2>3, QueueOther
    <2> QED
      BY <1>1, <2>1, <2>3, <2>4, LockKept
  <1>4. CASE SeekLands
    <2>1. elem'.paused = elem.paused /\ events' = Queue(events, "time")
      BY <1>0, <1>4 DEF SeekLands, ElemType
    <2>2. (NoCommand(events') <=> NoCommand(events)) /\ \A x \in Command : LastIs(events, x) => LastIs(events', x)
      BY <1>0, <2>1, QueueOther
    <2> QED
      BY <1>1, <2>1, <2>2, LockKept
  <1>5. CASE VideoPlays
    <2>1. CASE elem.at < Length
      <3>1. elem'.paused = elem.paused /\ events' = Queue(events, "time")
        BY <1>0, <1>5, <2>1 DEF VideoPlays, ElemType
      <3>2. (NoCommand(events') <=> NoCommand(events)) /\ \A x \in Command : LastIs(events, x) => LastIs(events', x)
        BY <1>0, <3>1, QueueOther
      <3> QED
        BY <1>1, <3>1, <3>2, LockKept
    <2>2. CASE ~(elem.at < Length)
      <3>1. elem'.paused = TRUE /\ events' = Queue(Queue(events, "time"), CommandOf(TRUE))
        BY <1>0, <1>5, <2>2 DEF VideoPlays, ElemType, CommandOf
      <3>2. Queue(events, "time") \in Seq(Event)
        BY <1>0, QueueOther
      <3> QED
        BY <3>1, <3>2, LockQueued
    <2> QED
      BY <2>1, <2>2
  <1>6. CASE Interrupted
    <2>1. elem'.paused = TRUE /\ events' = Queue(events, CommandOf(TRUE))
      BY <1>0, <1>6 DEF Interrupted, DoPause, ElemType, CommandOf
    <2> QED
      BY <1>0, <2>1, LockQueued
  <1> QED
    BY <1>2, <1>3, <1>4, <1>5, <1>6

\* Seeks leave the play state alone.
LEMMA SeekKeeps ==
    ASSUME elem \in ElemType, NEW p, SeekTo(p)
    PROVE  elem'.paused = elem.paused /\ elem'.seeking = elem.loaded /\ elem'.loaded = elem.loaded
  BY DEF SeekTo, ElemType

\* Every step keeps LockInv.
LEMMA LockStep == PageInv /\ LockInv /\ [Next]_vars => LockInv'
  <1> SUFFICES ASSUME PageInv, LockInv, [Next]_vars PROVE LockInv'
    OBVIOUS
  <1>0. elem \in ElemType /\ events \in Seq(Event)
    BY DEF PageInv
  <1>1. CASE UNCHANGED vars
    BY <1>1 DEF vars, hook, LockInv
  <1>2. CASE StartPlayback \/ MetadataLoads \/ SeekLands \/ VideoPlays \/ Interrupted
    BY <1>2, LockElement
  <1>3. CASE \/ (\E p \in Saved : ProgressArrives(p)) \/ DismissChip \/ StartOver \/ TabHides \/ GoBack
             \/ PointerMoves \/ (\E key \in Key : PressKey(key)) \/ SeekCommits \/ Timers
             \/ (\E p \in Place : SeekClick(p)) \/ (\E p : ChapterKey(p))
    <2>1. ~flush /\ reflected' = reflected /\ events' = events
      BY <1>3 DEF ProgressArrives, DismissChip, StartOver, TabHides, GoBack, PointerMoves, PressKey,
             SeekCommits, Timers, SeekClick, ChapterKey, Input, Task, ParentRenders, ShowOverlay,
             HandleRemote, Offer, Dispatch, FireSeek, FireHide, HookTick, hook
    <2>2. elem' = elem \/ \E p : SeekTo(p)
      BY <1>3 DEF ProgressArrives, DismissChip, StartOver, TabHides, GoBack, PointerMoves, PressKey,
             SeekCommits, Timers, SeekClick, ChapterKey
    <2>3. elem'.paused = elem.paused
      BY <1>0, <2>2, SeekKeeps
    <2> QED
      BY <2>1, <2>3, LockKept
  <1>4. CASE MetaEvent \/ TimeEvent
    <2>1. /\ ~flush /\ events # <<>> /\ events' = Tail(events) /\ elem' = elem
          /\ Head(events) \notin Command /\ reflected' = reflected
      BY <1>4 DEF MetaEvent, TimeEvent, Pending, Task, Command, ReportDuration, ReportProgress,
             Offer, Dispatch, hook
    <2> QED
      BY <2>1, LockHandled
  <1>5. CASE PlayEvent \/ PauseEvent
    <2>1. /\ ~flush /\ events # <<>> /\ events' = Tail(events) /\ elem' = elem
          /\ flush' /\ reflected' = reflected
          /\ \/ Head(events) = "play" /\ SetPlaying(TRUE)
             \/ Head(events) = "pause" /\ SetPlaying(FALSE)
      BY <1>5 DEF PlayEvent, PauseEvent, Pending, Task, Hears, SetPlaying, Dispatch
    <2>2. state'.isPlaying = (Head(events) = "play")
      BY <2>1 DEF SetPlaying, Dispatch, PageInv, ControlsTypeOK, State
    <2> QED
      BY <2>1, <2>2, LockHandled
  <1>6. CASE RunsEffects
    BY <1>6, LockEffects
  <1>7. CASE NothingToRun
    <2>1. reflected = state.isPlaying /\ UNCHANGED <<hook, elem, events>>
      BY <1>7 DEF NothingToRun, EffectsSettled
    <2> QED
      BY <2>1 DEF LockInv, hook
  <1> QED
    BY <1>1, <1>2, <1>3, <1>4, <1>5, <1>6, <1>7 DEF Next

\* With no event on its way the play button shows what the <video> does
\* (PlayerPage's element listeners against the intent effect), however many
\* commands and interruptions were interleaved.
THEOREM AlwaysInLockstep == Spec => []InLockstep
  <1>1. Init => LockInv
    <2> SUFFICES ASSUME Init PROVE LockInv
      OBVIOUS
    <2>1. reflected = FALSE /\ elem.paused = TRUE /\ events = <<>>
      BY TransportAssumption, ControlsAssumption DEF Init, HookInit
    <2>2. NoCommand(events)
      BY <2>1 DEF NoCommand
    <2>3. reflected = ~elem.paused
      BY <2>1
    <2> QED
      BY <2>2, <2>3 DEF LockInv
  <1>2. PageInv /\ LockInv => InLockstep
    <2> SUFFICES ASSUME PageInv, LockInv, Quiet PROVE state.isPlaying = ~elem.paused
      BY DEF InLockstep
    <2>1. NoCommand(events) /\ ~flush /\ reflected = state.isPlaying
      BY DEF Quiet, NoCommand, EffectsSettled
    <2> QED
      BY <2>1 DEF LockInv
  <1> QED
    BY <1>1, <1>2, LockStep, PageAlways, PTL DEF Spec

-----------------------------------------------------------------------------
(* The clock *)

\* What makes ClockTrue inductive: unless a time event is still queued or a
\* seek has yet to land, the reducer has the video's place, or a scrub hides it.
ClockInv ==
    elem.loaded /\ ~elem.seeking /\ NoTime(events) => Scrubbing(state) \/ state.position = elem.at

\* A dispatch that moves neither the clock nor the end of a scrub.
ClockKept(s) == (Scrubbing(state) => Scrubbing(s)) /\ s.position = state.position

\* A step that leaves the video where it is, and the clock too.
LEMMA ClockUndisturbed ==
    ASSUME ClockInv, elem'.loaded = elem.loaded, elem'.at = elem.at, elem'.seeking = elem.seeking,
           NoTime(events') => NoTime(events), ClockKept(state')
    PROVE  ClockInv'
  BY DEF ClockInv, ClockKept, Scrubbing

\* Keys leave the clock alone.
LEMMA PressedKeepsClock ==
    ASSUME state \in State, NEW key \in Key PROVE ClockKept(Pressed(state, key))
  <1>1. CASE key \in {"select", "playPause"}
    BY <1>1 DEF Pressed, Toggled, State, ClockKept, Scrubbing
  <1>2. CASE key \in {"left", "right"}
    <2>1. PICK delta \in {-1, 1} : Pressed(state, key) = Scrubbed(state, delta)
      BY <1>2 DEF Pressed
    <2>2. Scrubbed(state, delta) \in State
      BY ScrubbedType
    <2> DEFINE target == Clamp(DisplayPosition(state) + delta, 0, Upper(state))
    <2>3. Scrubbed(state, delta) = [state EXCEPT !.overlayVisible = TRUE, !.scrubTarget = target]
      BY DEF Scrubbed
    <2> HIDE DEF target
    <2>4. Scrubbed(state, delta).scrubTarget = target /\ Scrubbed(state, delta).position = state.position
      BY <2>3 DEF State
    <2>5. target # NotScrubbing
      <3>1. DisplayPosition(state) + delta \in Int /\ Upper(state) \in Nat
        <4>1. DisplayPosition(state) \in Position
          BY DEF DisplayPosition, Scrubbing, State
        <4> QED
          BY <4>1, UpperIsPosition, PlaceIsPosition DEF Position
      <3>2. target \in Nat
        BY <3>1, ClampInRange DEF target
      <3> QED
        BY <3>2 DEF NotScrubbing
    <2> QED
      BY <2>1, <2>4, <2>5 DEF ClockKept, Scrubbing
  <1>3. CASE key \in {"up", "down"}
    BY <1>3 DEF Pressed, Shown, State, ClockKept, Scrubbing
  <1> QED
    BY <1>1, <1>2, <1>3 DEF Key

\* Every step keeps ClockInv.
LEMMA ClockStep == PageInv /\ ClockInv /\ [Next]_vars => ClockInv'
  <1> SUFFICES ASSUME PageInv, ClockInv, [Next]_vars PROVE ClockInv'
    OBVIOUS
  <1>0. elem \in ElemType /\ events \in Seq(Event) /\ state \in State
    BY DEF PageInv, ControlsTypeOK
  <1>1. CASE UNCHANGED vars
    BY <1>1 DEF vars, hook, ClockInv
  <1>2. CASE StartPlayback \/ Interrupted
    <2>1. state' = state /\ (events' = events \/ \E e \in Command : events' = Queue(events, e))
      BY <1>2 DEF StartPlayback, Interrupted, DoPause, Command, hook
    <2>2. elem'.loaded = elem.loaded /\ elem'.at = elem.at /\ elem'.seeking = elem.seeking
      BY <1>0, <1>2 DEF StartPlayback, Interrupted, DoPause, ElemType
    <2>3. NoTime(events') => NoTime(events)
      BY <1>0, <2>1, QueueCommand
    <2> QED
      BY <2>1, <2>2, <2>3, ClockUndisturbed DEF ClockKept
  <1>3. CASE MetadataLoads \/ SeekLands
    <2>1. PICK q \in Seq(Event) : events' = Queue(q, "time")
      BY <1>0, <1>3, QueueOther DEF MetadataLoads, SeekLands
    <2>2. ~NoTime(events')
      BY <2>1, QueueOther
    <2> QED
      BY <2>2 DEF ClockInv
  <1>4. CASE VideoPlays
    <2>1. Queue(events, "time") \in Seq(Event) /\ ~NoTime(Queue(events, "time"))
      BY <1>0, QueueOther
    <2>2. events' = Queue(events, "time") \/ events' = Queue(Queue(events, "time"), "pause")
      BY <1>4 DEF VideoPlays
    <2>3. ~NoTime(events')
      BY <2>1, <2>2, QueueCommand DEF Command
    <2> QED
      BY <2>3 DEF ClockInv
  <1>5. CASE StartOver \/ SeekCommits \/ (\E p \in Place : SeekClick(p)) \/ (\E p : ChapterKey(p))
    <2>1. \E p : SeekTo(p)
      BY <1>5 DEF StartOver, SeekCommits, SeekClick, ChapterKey
    <2>2. elem'.seeking = elem.loaded /\ elem'.loaded = elem.loaded
      BY <1>0, <2>1, SeekKeeps
    <2> QED
      BY <2>2 DEF ClockInv
  <1>6. CASE (\E p \in Saved : ProgressArrives(p)) \/ DismissChip \/ TabHides \/ GoBack \/ NothingToRun
    <2>1. elem' = elem /\ events' = events /\ state' = state
      BY <1>6 DEF ProgressArrives, DismissChip, TabHides, GoBack, NothingToRun, ParentRenders, hook
    <2> QED
      BY <2>1 DEF ClockInv
  <1>7. CASE MetaEvent \/ PlayEvent \/ PauseEvent
    <2>1. elem' = elem /\ events # <<>> /\ events' = Tail(events) /\ Head(events) # "time"
      BY <1>7 DEF MetaEvent, PlayEvent, PauseEvent, Pending
    <2>2. ClockKept(state')
      BY <1>0, <1>7 DEF MetaEvent, PlayEvent, PauseEvent, ReportDuration, Hears, SetPlaying, Dispatch,
                        State, ClockKept, Scrubbing
    <2>3. NoTime(events') => NoTime(events)
      BY <1>0, <2>1, TailOfQueue
    <2> QED
      BY <2>1, <2>2, <2>3, ClockUndisturbed
  <1>8. CASE TimeEvent
    <2>1. elem' = elem /\ state' = Ticked(state, elem.at)
      BY <1>8 DEF TimeEvent, ReportProgress, Offer, Dispatch, hook
    <2>2. Scrubbing(state') \/ state'.position = elem.at
      BY <1>0, <2>1 DEF Ticked, Scrubbing, State
    <2> QED
      BY <2>1, <2>2 DEF ClockInv, Scrubbing
  <1>9. CASE (\E key \in Key : PressKey(key)) \/ PointerMoves
    <2>1. elem' = elem /\ events' = events
      BY <1>9 DEF PressKey, PointerMoves
    <2>2. ASSUME NEW key \in Key, PressKey(key) PROVE ClockKept(state')
      <3>1. state' = Pressed(state, key) \/ state' = state
        BY <2>2 DEF PressKey, HandleRemote, Offer, Dispatch, hook
      <3> QED
        BY <1>0, <3>1, PressedKeepsClock DEF ClockKept
    <2>3. PointerMoves => ClockKept(state')
      BY <1>0 DEF PointerMoves, ShowOverlay, Offer, Dispatch, Shown, hook, State, ClockKept, Scrubbing
    <2> QED
      BY <1>9, <2>1, <2>2, <2>3, ClockUndisturbed
  <1>10. CASE Timers
    <2>1. elem' = elem /\ events' = events
      BY <1>10 DEF Timers
    <2>2. ClockKept(state')
      BY <1>0, <1>10 DEF Timers, FireHide, HookTick, Hidden, State, ClockKept, Scrubbing
    <2> QED
      BY <2>1, <2>2, ClockUndisturbed
  <1>11. CASE RunsEffects
    <2>1. state' = state
      BY <1>11 DEF RunsEffects, RunEffects
    <2>2. NoTime(events') => NoTime(events)
      BY <1>0, <1>11, QueueCommand DEF RunsEffects, DoPlay, DoPause, Command
    <2>3. CASE elem' = Playing(elem)
      <3>1. elem'.loaded = elem.loaded
        BY <1>0, <2>3 DEF Playing, ElemType
      <3>2. elem'.seeking = (elem.seeking \/ (elem.loaded /\ elem.at = Length))
        BY <1>0, <2>3 DEF Playing, ElemType
      <3>3. elem.at # Length => elem'.at = elem.at
        BY <1>0, <2>3 DEF Playing, ElemType
      <3>4. CASE elem.at = Length
        BY <3>1, <3>2, <3>4 DEF ClockInv
      <3>5. CASE elem.at # Length
        BY <2>1, <2>2, <3>1, <3>2, <3>3, <3>5 DEF ClockInv
      <3> QED
        BY <3>4, <3>5
    <2>4. CASE elem' = [elem EXCEPT !.paused = TRUE] \/ elem' = elem
      <3>1. elem'.loaded = elem.loaded /\ elem'.at = elem.at /\ elem'.seeking = elem.seeking
        BY <1>0, <2>4 DEF ElemType
      <3> QED
        BY <2>1, <2>2, <3>1, ClockUndisturbed DEF ClockKept
    <2> QED
      BY <1>11, <2>3, <2>4 DEF RunsEffects, DoPlay, DoPause
  <1> QED
    BY <1>1, <1>2, <1>3, <1>4, <1>5, <1>6, <1>7, <1>8, <1>9, <1>10, <1>11 DEF Next

\* With no event on its way the clock shows where the video is (reportProgress
\* against every direct seek), for any film and any seeks.
THEOREM ClockIsTrue == Spec => []ClockTrue
  <1>1. Init => ClockInv
    BY DEF Init, ClockInv
  <1>2. ClockInv => ClockTrue
    <2> SUFFICES ASSUME ClockInv, Quiet, ~elem.seeking, elem.loaded, ~Scrubbing(state)
                 PROVE  state.position = elem.at
      BY DEF ClockTrue
    <2>1. NoTime(events)
      BY DEF Quiet, NoTime
    <2> QED
      BY <2>1 DEF ClockInv
  <1> QED
    BY <1>1, <1>2, ClockStep, PageAlways, PTL DEF Spec

-----------------------------------------------------------------------------
(* The place a viewer leaves at *)

\* What was written last is what was sent last, until the film is started over.
PlaceInv == (writer.last = None \/ writer.last = issued) /\ PlaceSent

\* A write sends what it remembers, and sends the place unless it was sent.
LEMMA WriteSends ==
    ASSUME NEW due, NEW since, writer.last = None \/ writer.last = issued, Write(due, since)
    PROVE  /\ writer'.last = None \/ writer'.last = issued'
           /\ due /\ elem.at > 0 /\ elem.at # None => issued' = elem.at
  BY DEF Write, Snapshot

\* Every step keeps PlaceInv; once the viewer has left there is none.
LEMMA PlaceStep == PageInv /\ PlaceInv /\ writer \in [last : Place \cup {None}, since : 0 .. WriteInterval]
                   /\ left \in BOOLEAN /\ [Next]_vars => PlaceInv'
  <1> SUFFICES ASSUME PageInv, PlaceInv, writer \in [last : Place \cup {None}, since : 0 .. WriteInterval],
                      left \in BOOLEAN, [Next]_vars
               PROVE  PlaceInv'
    OBVIOUS
  <1>0. elem.at \in Place /\ elem.at # None
    BY PlaceIsPosition DEF PageInv, ElemType
  <1>1. CASE UNCHANGED vars
    BY <1>1 DEF vars, outside, PlaceInv, PlaceSent
  <1>2. CASE GoBack
    <2>1. Write(TRUE, writer.since) /\ elem' = elem
      BY <1>2 DEF GoBack, FlushBeacon
    <2>2. writer'.last = None \/ writer'.last = issued'
      BY <2>1, WriteSends DEF PlaceInv
    <2>3. elem.at > 0 => issued' = elem.at
      BY <1>0, <2>1, WriteSends DEF PlaceInv
    <2> QED
      BY <2>1, <2>2, <2>3 DEF PlaceInv, PlaceSent
  <1>3. CASE TabHides \/ TimeEvent \/ PauseEvent
    <2>1. \E due, since : Write(due, since)
      BY <1>3 DEF TabHides, TimeEvent, PauseEvent, FlushBeacon, PutProgress
    <2>2. writer'.last = None \/ writer'.last = issued'
      BY <2>1, WriteSends DEF PlaceInv
    <2>3. ~left'
      BY <1>3 DEF TabHides, TimeEvent, PauseEvent, Task
    <2> QED
      BY <2>2, <2>3 DEF PlaceInv, PlaceSent
  <1>4. CASE StartOver \/ VideoPlays
    <2>1. writer'.last \in {None, writer.last} /\ issued' = issued
      BY <1>4 DEF StartOver, VideoPlays, Older
    <2>2. ~left'
      BY <1>4 DEF StartOver, VideoPlays, Task
    <2> QED
      BY <2>1, <2>2 DEF PlaceInv, PlaceSent
  <1>5. CASE \/ StartPlayback \/ MetadataLoads \/ SeekLands \/ Interrupted
             \/ (\E p \in Saved : ProgressArrives(p)) \/ DismissChip \/ MetaEvent \/ PlayEvent
             \/ (\E key \in Key : PressKey(key)) \/ PointerMoves
             \/ (\E p \in Place : SeekClick(p)) \/ (\E p : ChapterKey(p))
             \/ RunsEffects \/ NothingToRun \/ SeekCommits \/ Timers
    <2>1. left' = left /\ writer' = writer /\ issued' = issued
      BY <1>5 DEF StartPlayback, MetadataLoads, SeekLands, Interrupted, ProgressArrives, DismissChip,
             MetaEvent, PlayEvent, PressKey, PointerMoves, SeekClick, ChapterKey, RunsEffects,
             NothingToRun, SeekCommits, Timers, Input, outside
    <2>2. ~left
      BY <1>5 DEF StartPlayback, MetadataLoads, SeekLands, Interrupted, ProgressArrives, DismissChip,
             MetaEvent, PlayEvent, PressKey, PointerMoves, SeekClick, ChapterKey, RunsEffects,
             NothingToRun, SeekCommits, Timers, Input, Task
    <2> QED
      BY <2>1, <2>2 DEF PlaceInv, PlaceSent
  <1> QED
    BY <1>1, <1>2, <1>3, <1>4, <1>5 DEF Next

\* The types of what the writer remembers.
WriterInv == writer \in [last : Place \cup {None}, since : 0 .. WriteInterval] /\ left \in BOOLEAN

\* Every step keeps them.
LEMMA WriterStep == PageInv /\ WriterInv /\ [Next]_vars => WriterInv'
  <1> SUFFICES ASSUME PageInv, WriterInv, [Next]_vars PROVE WriterInv'
    OBVIOUS
  <1>0. elem.at \in Place
    BY DEF PageInv, ElemType
  <1>1. CASE UNCHANGED vars
    BY <1>1 DEF vars, outside, WriterInv
  <1>2. CASE GoBack \/ TabHides \/ TimeEvent \/ PauseEvent
    <2>1. PICK since \in 0 .. WriteInterval : \E due : Write(due, since)
      <3>1. 0 \in 0 .. WriteInterval /\ writer.since \in 0 .. WriteInterval
        BY PlaceIsPosition DEF WriterInv
      <3> QED
        BY <1>2, <3>1 DEF GoBack, TabHides, TimeEvent, PauseEvent, FlushBeacon, PutProgress
    <2>2. Snapshot \in Place \cup {None}
      BY <1>0 DEF Snapshot
    <2>3. left' \in BOOLEAN
      BY <1>2 DEF GoBack, TabHides, TimeEvent, PauseEvent, WriterInv
    <2> QED
      BY <2>1, <2>2, <2>3 DEF Write, WriterInv
  <1>3. CASE StartOver
    BY <1>3 DEF StartOver, WriterInv
  <1>4. CASE VideoPlays
    <2>1. Older(writer) \in [last : Place \cup {None}, since : 0 .. WriteInterval]
      BY TransportAssumption DEF Older, WriterInv
    <2> QED
      BY <1>4, <2>1 DEF VideoPlays, WriterInv
  <1>5. CASE \/ StartPlayback \/ MetadataLoads \/ SeekLands \/ Interrupted
             \/ (\E p \in Saved : ProgressArrives(p)) \/ DismissChip \/ MetaEvent \/ PlayEvent
             \/ (\E key \in Key : PressKey(key)) \/ PointerMoves
             \/ (\E p \in Place : SeekClick(p)) \/ (\E p : ChapterKey(p))
             \/ RunsEffects \/ NothingToRun \/ SeekCommits \/ Timers
    <2>1. left' = left /\ writer' = writer
      BY <1>5 DEF StartPlayback, MetadataLoads, SeekLands, Interrupted, ProgressArrives, DismissChip,
             MetaEvent, PlayEvent, PressKey, PointerMoves, SeekClick, ChapterKey, RunsEffects,
             NothingToRun, SeekCommits, Timers, Input, outside
    <2> QED
      BY <2>1 DEF WriterInv
  <1> QED
    BY <1>1, <1>2, <1>3, <1>4, <1>5 DEF Next

\* A viewer who goes back has the very place sent (usePlaybackProgress'
\* unmount flush), wherever in the throttle and whatever was skipped before.
THEOREM PlaceIsSent == Spec => []PlaceSent
  <1>1. Init => PlaceInv /\ WriterInv
    <2> SUFFICES ASSUME Init PROVE PlaceInv /\ WriterInv
      OBVIOUS
    <2>1. writer = [last |-> None, since |-> WriteInterval] /\ left = FALSE
      BY DEF Init
    <2>2. WriterInv
      BY <2>1, PlaceIsPosition DEF WriterInv
    <2>3. PlaceInv
      BY <2>1 DEF PlaceInv, PlaceSent
    <2> QED
      BY <2>2, <2>3
  <1>2. PlaceInv => PlaceSent
    BY DEF PlaceInv
  <1>3. PageInv /\ PlaceInv /\ WriterInv /\ [Next]_vars => PlaceInv'
    BY PlaceStep DEF WriterInv
  <1> QED
    BY <1>1, <1>2, <1>3, WriterStep, PageAlways, PTL DEF Spec

\* What else the page counts and remembers.
PageCounts ==
    /\ flush \in BOOLEAN /\ issued \in Place /\ overlapped \in BOOLEAN
    /\ inputs \in 0 .. MaxInputs /\ flushes \in 0 .. MaxFlushes

LEMMA CountsStep == PageInv /\ PageCounts /\ [Next]_vars => PageCounts'
  <1> SUFFICES ASSUME PageInv, PageCounts, [Next]_vars PROVE PageCounts'
    OBVIOUS
  <1>0. elem.at \in Place /\ MaxInputs \in Nat /\ MaxFlushes \in Nat
    BY TransportAssumption DEF PageInv, ElemType
  <1>1. ASSUME NEW due, NEW since, Write(due, since) PROVE issued' \in Place
    BY <1>0, <1>1 DEF Write, Snapshot, PageCounts
  <1>2. CASE GoBack \/ TabHides \/ TimeEvent \/ PauseEvent
    <2>1. issued' \in Place
      BY <1>1, <1>2 DEF GoBack, TabHides, TimeEvent, PauseEvent, FlushBeacon, PutProgress
    <2>2. flush' \in BOOLEAN /\ UNCHANGED <<overlapped, inputs>>
          /\ (flushes' = flushes \/ (flushes < MaxFlushes /\ flushes' = flushes + 1))
      BY <1>2 DEF GoBack, TabHides, TimeEvent, PauseEvent, PageCounts
    <2> QED
      BY <1>0, <2>1, <2>2 DEF PageCounts
  <1>3. CASE (\E key \in Key : PressKey(key)) \/ PointerMoves \/ Interrupted
             \/ (\E p \in Place : SeekClick(p)) \/ (\E p : ChapterKey(p))
    <2>1. Input /\ flush' \in BOOLEAN /\ UNCHANGED <<issued, flushes>>
      BY <1>3 DEF PressKey, PointerMoves, Interrupted, SeekClick, ChapterKey, PageCounts
    <2>2. overlapped' \in BOOLEAN /\ inputs < MaxInputs /\ inputs' = inputs + 1
      BY <2>1 DEF Input, Overlaps, PageCounts
    <2> QED
      BY <1>0, <2>1, <2>2 DEF PageCounts
  <1>4. CASE \/ StartPlayback \/ MetadataLoads \/ SeekLands \/ VideoPlays
             \/ (\E p \in Saved : ProgressArrives(p)) \/ DismissChip \/ StartOver \/ MetaEvent \/ PlayEvent
             \/ RunsEffects \/ NothingToRun \/ SeekCommits \/ Timers \/ UNCHANGED vars
    <2> DEFINE Goal == flush' \in BOOLEAN /\ overlapped' \in BOOLEAN /\ UNCHANGED <<issued, inputs, flushes>>
    <2>1. StartPlayback => Goal
      BY DEF StartPlayback, Overlaps, PageCounts
    <2>2. MetadataLoads \/ SeekLands \/ VideoPlays \/ UNCHANGED vars => Goal
      BY DEF MetadataLoads, SeekLands, VideoPlays, vars, outside, PageCounts
    <2>3. (\E p \in Saved : ProgressArrives(p)) => Goal
      <3>1. ASSUME NEW p, ProgressArrives(p) PROVE UNCHANGED <<flush, overlapped, issued, inputs, flushes>>
        BY <3>1 DEF ProgressArrives
      <3> QED
        BY <3>1 DEF PageCounts
    <2>6. DismissChip \/ StartOver => Goal
      BY DEF DismissChip, StartOver, PageCounts
    <2>4. MetaEvent \/ PlayEvent \/ NothingToRun \/ SeekCommits \/ Timers => Goal
      BY DEF MetaEvent, PlayEvent, NothingToRun, SeekCommits, Timers, outside, PageCounts
    <2>5. RunsEffects => Goal
      BY DEF RunsEffects, outside, PageCounts
    <2>7. Goal
      BY <1>4, <2>1, <2>2, <2>3, <2>4, <2>5, <2>6
    <2> QED
      BY <2>7 DEF PageCounts
  <1> QED
    BY <1>2, <1>3, <1>4 DEF Next

\* Element, queued events, resume and writer are well formed and every place lies
\* within the film (PlayerPage, usePlaybackProgress): for films of any length and
\* any number of inputs.
THEOREM PageAlwaysTyped == Spec => []WebTypeOK
  <1>1. Init => PageCounts /\ WriterInv
    <2> SUFFICES ASSUME Init PROVE PageCounts /\ WriterInv
      OBVIOUS
    <2>1. writer = [last |-> None, since |-> WriteInterval] /\ left = FALSE
      BY DEF Init
    <2>2. WriteInterval \in 0 .. WriteInterval /\ MaxInputs \in Nat /\ MaxFlushes \in Nat
      BY TransportAssumption
    <2>3. WriterInv
      BY <2>1, <2>2 DEF WriterInv
    <2>4. flush = FALSE /\ issued = 0 /\ overlapped = FALSE /\ inputs = 0 /\ flushes = 0
      BY DEF Init
    <2>5. 0 \in Place /\ 0 \in 0 .. MaxInputs /\ 0 \in 0 .. MaxFlushes
      BY <2>2, PlaceIsPosition
    <2>6. PageCounts
      BY <2>4, <2>5 DEF PageCounts
    <2> QED
      BY <2>3, <2>6
  <1>2. PageInv /\ WriterInv /\ PageCounts => WebTypeOK
    BY DEF PageInv, WriterInv, PageCounts, WebTypeOK, ElemType, ResumeType
  <1> QED
    BY <1>1, <1>2, CountsStep, WriterStep, PageAlways, PTL DEF Spec

-----------------------------------------------------------------------------
\* Together: the page's player keeps what the hook promises,
THEOREM PageControlsAreTrue == Spec => []ControlsTrue
  BY PageImplementsHook, ControlsAreTrue

\* and button and clock follow the <video> element, whoever moved it
\* (PlayerPage's listeners and reportProgress).
THEOREM AlwaysFollowsElement == Spec => []FollowsElement
  BY AlwaysInLockstep, ClockIsTrue, PTL DEF FollowsElement
=============================================================================
