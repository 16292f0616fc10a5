------------------------ MODULE MCMetadataEnrichment ------------------------
(* Instances of MetadataEnrichment for TLC *)
EXTENDS MetadataEnrichment, TLC

CONSTANTS f1, f2, m1, m2

\* One film the provider knows, one it does not.
OneKnown == (f1 :> m1) @@ (f2 :> NoMatch)
=============================================================================
