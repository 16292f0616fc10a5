----------------------------- MODULE MCTvClient -----------------------------
(* An instance of TvClient for TLC *)
EXTENDS TvClient

\* A mosaic of two tiles side by side, one per seek step.
Mosaics == {[intervalMs |-> 1, tileW |-> 2, tileH |-> 1, cols |-> 2, rows |-> 1]}
=============================================================================
