---------------------------- MODULE PlayerChrome ----------------------------
(***************************************************************************)
(* What surrounds the picture in the web player and outlives one film: the *)
(* menus and who hears Escape, the volume, the caption's offset and style, *)
(* and the choices of audio and caption that local storage carries from    *)
(* one title to the next.                                                  *)
(*                                                                         *)
(* Tracks are numbered in the order of the file; 0 stands for none.  The   *)
(* streams these choices lead to are in WebStream.                         *)
(***************************************************************************)
EXTENDS Integers, Sequences

CONSTANTS
    Playable,       \* titles to play
    Subs,       \* by title: its subtitle tracks
    Audios,     \* by title: its audio tracks
    Levels,     \* volume levels above silence; the highest one is the default
    MaxClicks,  \* bound: what the viewer does
    MaxOffset,  \* bound: steps of the caption offset
    Unset       \* nothing stored

NoTag == ""     \* a track without a language, or without a title
SubTrack == [language : STRING, title : STRING, forced : BOOLEAN, default : BOOLEAN, image : BOOLEAN]
AudioTrack == [language : STRING, title : STRING]

ASSUME ChromeAssumption ==
    /\ Subs \in [Playable -> Seq(SubTrack)] /\ Audios \in [Playable -> Seq(AudioTrack)]
    /\ Levels \in Nat \ {0} /\ MaxClicks \in Nat /\ MaxOffset \in Nat
    /\ NoTag \in STRING

VARIABLES
    stored,     \* local storage: volume, caption and audio choice, appearance
    player,     \* PlayerPage: its title, whether the files came, what is chosen
    panels,     \* open menus, the appearance panel, fullscreen
    sound,      \* VolumeControl's state, the element's, and whether its effect has run
    shifted,    \* history: the visit and the caption the last offset was set on
    clicks      \* bound: clicks and keys so far, and how often the page was left

chromeVars == <<stored, player, panels, sound, shifted, clicks>>

Menu == {"audio", "subtitles", "scenes"}
Style == {"default", "large"}
Volume == [volume : 0 .. Levels, muted : BOOLEAN]
RememberedSubtitle == [off : BOOLEAN, language : STRING, title : STRING, forced : BOOLEAN]
RememberedAudio == AudioTrack

\* Stored choices, tracks, panels and volume are well formed; a chosen track is one the
\* title on screen has, though the choice outlives titles (autoSelectSubtitle).
ChromeTypeOK ==
    /\ stored \in [volume : Volume, subtitle : RememberedSubtitle \cup {Unset},
                   audio : RememberedAudio \cup {Unset}, style : Style]
    /\ player \in [film : Playable, files : BOOLEAN, subtitle : Nat, audio : Nat,
                   offset : -MaxOffset .. MaxOffset, style : Style]
    /\ player.subtitle <= Len(Subs[player.film]) /\ player.audio <= Len(Audios[player.film])
    /\ panels \in [menus : SUBSET Menu, appearance : BOOLEAN, fullscreen : BOOLEAN]
    /\ sound \in [shown : Volume, element : Volume, attached : BOOLEAN, restored : BOOLEAN,
                  due : BOOLEAN, quiet : BOOLEAN]
    /\ shifted \in Nat \X Nat /\ clicks \in [made : 0 .. MaxClicks, left : Nat]

Click == clicks.made < MaxClicks /\ clicks' = [clicks EXCEPT !.made = @ + 1]

-----------------------------------------------------------------------------
(* Choosing tracks *)

SubTracks == Subs[player.film]
AudioTracks == Audios[player.film]
Same(a, b) == a # NoTag /\ a = b
Points(b, n) == IF b THEN n ELSE 0
ScoreMatch(t, want) == Points(Same(t.language, want.language), 2) + Points(Same(t.title, want.title), 2)
                       + Points(t.forced = want.forced, 1)
ScoreAudioMatch(t, want) == Points(Same(t.language, want.language), 2) + Points(Same(t.title, want.title), 2)

\* The first of the tracks with the highest score, if that is positive.
Best(score) ==
    CHOOSE i \in DOMAIN score \cup {0} :
        IF \A j \in DOMAIN score : score[j] = 0 THEN i = 0
        ELSE /\ i # 0
             /\ \A j \in DOMAIN score : score[j] <= score[i] /\ (score[j] = score[i] => i <= j)
FirstOf(S) == IF S = {} THEN 0 ELSE CHOOSE i \in S : \A j \in S : i <= j

Selectable == {i \in 1 .. Len(SubTracks) : ~SubTracks[i].image}
\* The file's own choice: a default track, else a forced one, else none.
FilesChoice ==
    LET defaults == {i \in Selectable : SubTracks[i].default}
        forced == {i \in Selectable : SubTracks[i].forced}
    IN  IF defaults # {} THEN FirstOf(defaults) ELSE FirstOf(forced)

\* FAULTY: only a track that agrees in everything carries over.
CarriesOnlyEqual(score) == score >= 4
Carries(score) == score >= 3
AutoSelectSubtitle(want) ==
    LET score == [i \in Selectable |-> ScoreMatch(SubTracks[i], want)]
        best == Best(score)
    IN  IF want # Unset /\ want.off THEN 0
        ELSE IF want # Unset /\ best # 0 /\ Carries(score[best]) THEN best ELSE FilesChoice
AutoSelectAudio(want) ==
    LET score == [i \in DOMAIN AudioTracks |-> ScoreAudioMatch(AudioTracks[i], want)]
        best == Best(score)
    IN  IF want # Unset /\ best # 0 /\ score[best] >= 2 THEN best ELSE 0

\* The answer of GET /api/files/:id fills the menus and chooses, once.
FilesArrive ==
    /\ ~player.files
    /\ player' = [player EXCEPT !.files = TRUE, !.subtitle = AutoSelectSubtitle(stored.subtitle),
                                !.audio = AutoSelectAudio(stored.audio)]
    /\ UNCHANGED <<stored, panels, sound, clicks, shifted>>

\* FAULTY: only turning the captions off drops the offset.
ChosenShifted(p, i) == [p EXCEPT !.subtitle = i, !.offset = IF i = 0 THEN 0 ELSE @]
\* Another caption starts without an offset.
Chosen(p, i) == [p EXCEPT !.subtitle = i, !.offset = 0]
RememberSubtitle(i) ==
    IF i = 0 THEN [off |-> TRUE, language |-> NoTag, title |-> NoTag, forced |-> FALSE]
    ELSE [off |-> FALSE, language |-> SubTracks[i].language, title |-> SubTracks[i].title,
          forced |-> SubTracks[i].forced]
SelectSubtitle(i) ==
    /\ Click /\ "subtitles" \in panels.menus
    /\ player' = Chosen(player, i)
    /\ stored' = [stored EXCEPT !.subtitle = RememberSubtitle(i)]
    /\ panels' = [panels EXCEPT !.menus = @ \ {"subtitles"}]
    /\ UNCHANGED <<sound, shifted>>
SelectAudio(i) ==
    /\ Click /\ "audio" \in panels.menus
    /\ player' = [player EXCEPT !.audio = i]
    /\ stored' = [stored EXCEPT !.audio = AudioTracks[i]]
    /\ panels' = [panels EXCEPT !.menus = @ \ {"audio"}]
    /\ UNCHANGED <<sound, shifted>>
\* The keys g and h.
Nudge(step) ==
    /\ Click /\ player.subtitle # 0 /\ player.offset + step \in -MaxOffset .. MaxOffset
    /\ player' = [player EXCEPT !.offset = @ + step] /\ shifted' = <<clicks.left, player.subtitle>>
    /\ UNCHANGED <<stored, panels, sound>>

-----------------------------------------------------------------------------
(* Menus, panels and Escape *)

\* Which buttons are there.
Offered(menu) ==
    CASE menu = "audio" -> player.files /\ Len(AudioTracks) > 1
      [] menu = "subtitles" -> player.files /\ SubTracks # <<>>
      [] menu = "scenes" -> player.files
\* A press of the mouse closes the menus it is outside of, a key does not.
ToggleMenu(menu) ==
    /\ Click /\ Offered(menu)
    /\ \E others \in {panels.menus \ {menu}, {}} :
         panels' = [panels EXCEPT !.menus = IF menu \in @ THEN others ELSE others \cup {menu}]
    /\ UNCHANGED <<stored, player, sound, shifted>>
ClickOutside ==
    /\ panels.menus # {} /\ panels' = [panels EXCEPT !.menus = {}]
    /\ UNCHANGED <<stored, player, sound, clicks, shifted>>
OpenAppearance ==
    /\ Click /\ "subtitles" \in panels.menus
    /\ panels' = [panels EXCEPT !.menus = @ \ {"subtitles"}, !.appearance = TRUE]
    /\ UNCHANGED <<stored, player, sound, shifted>>
CloseAppearance ==
    /\ panels.appearance /\ panels' = [panels EXCEPT !.appearance = FALSE]
    /\ UNCHANGED <<stored, player, sound, clicks, shifted>>
ChangeAppearance(style) ==
    /\ Click /\ panels.appearance
    /\ player' = [player EXCEPT !.style = style] /\ stored' = [stored EXCEPT !.style = style]
    /\ UNCHANGED <<panels, sound, shifted>>

FullVolume == [volume |-> Levels, muted |-> FALSE]
\* FAULTY: the choice of the last title is left standing.
FreshPlayerKeeps(film) == [player EXCEPT !.film = film, !.files = FALSE, !.offset = 0]
FreshPlayer(film) == [film |-> film, files |-> FALSE, subtitle |-> 0, audio |-> 0, offset |-> 0,
                      style |-> stored.style]
FreshSound == [shown |-> FullVolume, element |-> FullVolume, attached |-> FALSE, restored |-> FALSE,
               due |-> TRUE, quiet |-> FALSE]
NoPanels == [menus |-> {}, appearance |-> FALSE, fullscreen |-> FALSE]

\* Back, and later another title, or the same: a page and a player of its own.
Leaves ==
    /\ clicks' = [made |-> clicks.made + 1, left |-> clicks.left + 1]
    /\ player' \in {FreshPlayer(film) : film \in Playable}
    /\ panels' = NoPanels /\ sound' = FreshSound /\ UNCHANGED <<stored, shifted>>
GoBack == clicks.made < MaxClicks /\ Leaves
Fullscreen ==
    /\ Click /\ panels' = [panels EXCEPT !.fullscreen = ~@]
    /\ UNCHANGED <<stored, player, sound, shifted>>

\* Every open menu captures Escape, and all of them close; the page hears it
\* only when there is none.
PageHears(menus) == menus = {}
EscapeKey ==
    /\ clicks.made < MaxClicks
    /\ IF ~PageHears(panels.menus) \/ panels.fullscreen
       THEN /\ Click /\ UNCHANGED <<stored, player, sound, shifted>>
            /\ panels' = IF PageHears(panels.menus) THEN [panels EXCEPT !.fullscreen = FALSE, !.menus = {}]
                         ELSE [panels EXCEPT !.menus = {}]
       ELSE Leaves

-----------------------------------------------------------------------------
(* Volume *)

VideoAttaches ==
    /\ ~sound.attached /\ sound' = [sound EXCEPT !.attached = TRUE, !.due = TRUE]
    /\ UNCHANGED <<stored, player, panels, clicks, shifted>>
\* The effects of the first render: what was stored is shown.
Restores ==
    /\ ~sound.restored
    /\ sound' = [sound EXCEPT !.restored = TRUE, !.shown = stored.volume,
                              !.due = @ \/ stored.volume # sound.shown]
    /\ UNCHANGED <<stored, player, panels, clicks, shifted>>
\* The effect that follows a change: to the element, if it is there.
Applies ==
    /\ sound.restored /\ sound.due
    /\ sound' = IF sound.attached THEN [sound EXCEPT !.due = FALSE, !.element = sound.shown, !.quiet = FALSE]
                ELSE [sound EXCEPT !.due = FALSE]
    /\ UNCHANGED <<stored, player, panels, clicks, shifted>>
\* The browser refuses to start with sound: the element is muted, and the
\* control is not told.
AutoplayMutes ==
    /\ sound.attached /\ ~sound.element.muted /\ ~sound.quiet
    /\ sound' = [sound EXCEPT !.element.muted = TRUE, !.quiet = TRUE]
    /\ UNCHANGED <<stored, player, panels, clicks, shifted>>

\* FAULTY: a new volume is stored without the mute that goes with it.
PersistedVolume(s, v) == [s EXCEPT !.volume.volume = v.volume]
Persisted(s, v) == [s EXCEPT !.volume = v]
SetsVolume(v) ==
    /\ Click /\ sound.restored
    /\ sound' = [sound EXCEPT !.shown = v, !.due = @ \/ v # sound.shown]
    /\ stored' = Persisted(stored, v)
    /\ UNCHANGED <<player, panels, shifted>>
Slide(level) == SetsVolume([volume |-> level, muted |-> level = 0])
ToggleMute == SetsVolume([sound.shown EXCEPT !.muted = ~@])

-----------------------------------------------------------------------------
ChromeInit ==
    /\ stored = [volume |-> FullVolume, subtitle |-> Unset, audio |-> Unset, style |-> "default"]
    /\ player \in {[film |-> film, files |-> FALSE, subtitle |-> 0, audio |-> 0, offset |-> 0,
                    style |-> "default"] : film \in Playable}
    /\ panels = NoPanels /\ sound = FreshSound
    /\ shifted = <<0, 0>> /\ clicks = [made |-> 0, left |-> 0]

ChromeNext ==
    \/ FilesArrive \/ (\E i \in 0 .. Len(SubTracks) : SelectSubtitle(i))
    \/ (\E i \in 1 .. Len(AudioTracks) : SelectAudio(i)) \/ (\E step \in {-1, 1} : Nudge(step))
    \/ (\E menu \in Menu : ToggleMenu(menu)) \/ ClickOutside
    \/ OpenAppearance \/ CloseAppearance \/ (\E style \in Style : ChangeAppearance(style))
    \/ GoBack \/ Fullscreen \/ EscapeKey
    \/ VideoAttaches \/ Restores \/ Applies \/ AutoplayMutes
    \/ (\E level \in 0 .. Levels : Slide(level)) \/ ToggleMute

-----------------------------------------------------------------------------
(* Properties *)

\* The choice a viewer made on one title is kept on the next: captions that
\* were turned off stay off, and a caption, or an audio track, of a language
\* comes back where the title has one that is as good, whatever its number.
Agrees(t, want) == Same(t.language, want.language) \/ Same(t.title, want.title)
ChoiceCarries ==
    player.files =>
        /\ stored.subtitle # Unset /\ stored.subtitle.off => player.subtitle = 0
        /\ stored.subtitle # Unset /\ (\E i \in Selectable : /\ SubTracks[i].forced = stored.subtitle.forced
                                                              /\ Same(SubTracks[i].language, stored.subtitle.language))
             => player.subtitle # 0 /\ Agrees(SubTracks[player.subtitle], stored.subtitle)
        /\ stored.audio # Unset /\ (\E i \in 1 .. Len(AudioTracks) : Same(AudioTracks[i].language, stored.audio.language))
             => player.audio # 0 /\ Agrees(AudioTracks[player.audio], stored.audio)

\* Once its effects have run, the film sounds as the viewer last set it on
\* whatever title, except that the browser may have muted its start.
VolumeKept ==
    sound.attached /\ sound.restored /\ ~sound.due /\ ~sound.quiet => sound.element = stored.volume

\* An offset belongs to the caption it was set on, in that visit of the page: none is
\* left over when the caption is turned off, changed for another, or chosen by the next title.
OffsetOfCaption == player.offset # 0 => player.subtitle # 0 /\ shifted = <<clicks.left, player.subtitle>>

\* What the viewer chose on one title holds on the next, and no further than
\* it was meant to.
ChoicesKept == ChoiceCarries /\ VolumeKept /\ OffsetOfCaption

\* Escape closes a menu without leaving the film or its fullscreen.
EscapeClosesMenu ==
    [][EscapeKey /\ panels.menus # {} =>
         clicks'.left = clicks.left /\ panels'.fullscreen = panels.fullscreen]_chromeVars
=============================================================================
