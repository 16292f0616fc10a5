---------------------------- MODULE MCWebTransport ----------------------------
(* An instance of WebTransport for TLC *)
EXTENDS WebTransport

\* Two chapters; the second one starts past the grace of the first.
TwoChapters == <<0, 2>>
=============================================================================
