----------------------------- MODULE MCWebStream -----------------------------
(* An instance of WebStream for TLC *)
EXTENDS WebStream
=============================================================================
