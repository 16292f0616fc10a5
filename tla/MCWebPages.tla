---------------------------- MODULE MCWebPages ----------------------------
(* An instance of WebPages for TLC *)
EXTENDS WebPages

\* Two episodes: the tracks of the second are numbered otherwise, and its
\* default caption is a forced one of another language.
Episodes == {"e1", "e2"}
Caption(language, title, flag) ==
    [language |-> language, title |-> title, forced |-> flag = "forced",
     default |-> flag \in {"default", "forced"}, image |-> flag = "image"]
EpisodeSubs == [film \in Episodes |->
    IF film = "e1" THEN <<Caption("en", "SDH", "none"), Caption("fr", "", "default")>>
    ELSE <<Caption("fr", "", "forced"), Caption("en", "", "image"), Caption("en", "", "none")>>]
EpisodeAudios == [film \in Episodes |->
    IF film = "e1" THEN <<[language |-> "en", title |-> ""], [language |-> "ja", title |-> ""]>>
    ELSE <<[language |-> "ja", title |-> "Original"], [language |-> "en", title |-> ""]>>]
=============================================================================
