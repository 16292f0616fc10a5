------------------------- MODULE MCTranscodeSessions -------------------------
(* Instances of TranscodeSessions small enough for TLC. *)
EXTENDS TranscodeSessions, TLC

Symmetry == Permutations(Client) \cup Permutations(SessionId) \cup Permutations(Key)
=============================================================================
