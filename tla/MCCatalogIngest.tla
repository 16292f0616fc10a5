-------------------------- MODULE MCCatalogIngest --------------------------
(* Instances of CatalogIngest for TLC *)
EXTENDS CatalogIngest, TLC

CONSTANTS p1, p2, n1, n2, s1, s2

\* Two files of different titles, the second named like an episode.
TwoNames == (p1 :> n1) @@ (p2 :> n2)
TwoKinds == (p1 :> "movie") @@ (p2 :> "series")
\* One file.
OneName == p1 :> n1
OneKind == p1 :> "movie"
\* Library folders: everything, or one of the files only.
AnyFolder == {{p1, p2}, {p1}}
OneFolder == {{p1}}
\* Stats are only compared with each other.
Stats == Permutations({s1, s2})
\* Bound: one restart or one error in a behavior, and beside a restart two changes of the
\* folder, or one and a request.  No step that is fair counts against it.
OneMishap == crashes + faults <= 1 /\ crashes + admin + edits <= 3
=============================================================================
