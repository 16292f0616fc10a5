------------------------ MODULE CatalogIngest_proofs ------------------------
(***************************************************************************)
(* Proofs about CatalogIngest, for any files, folders, libraries and any   *)
(* number of edits, requests, errors and restarts: no row of the catalog   *)
(* passes for current that was probed from other contents, the references  *)
(* of the tables hold, and no wake-up is lost.                             *)
(***************************************************************************)
EXTENDS CatalogIngest, WellFoundedInduction, TLAPS

-----------------------------------------------------------------------------
(* The helpers on tables *)

LEMMA WithoutFacts ==
    ASSUME NEW f, NEW S
    PROVE  /\ DOMAIN Without(f, S) = DOMAIN f \ S
           /\ \A y \in DOMAIN f \ S : Without(f, S)[y] = f[y]
  BY DEF Without, Restrict

-----------------------------------------------------------------------------
(* Types *)

LEMMA PutType ==
    ASSUME NEW f, NEW S, NEW T, IsPartial(f, S, T), NEW x \in S, NEW v \in T
    PROVE  IsPartial(Put(f, x, v), S, T)
  BY DEF IsPartial, Put

LEMMA WithoutType ==
    ASSUME NEW f, NEW S, NEW T, IsPartial(f, S, T), NEW X
    PROVE  IsPartial(Without(f, X), S, T)
  <1>1. Without(f, X) = [y \in DOMAIN f \ X |-> f[y]]
    BY DEF Without, Restrict
  <1> QED
    BY <1>1 DEF IsPartial

\* A bounded set of naturals that has an element has a greatest one.
LEMMA GreatestOf ==
    ASSUME NEW n \in Nat, NEW S, S \subseteq 0 .. n, S # {}
    PROVE  \E i \in S : \A j \in S : i >= j
  <1> DEFINE D == {n - i : i \in S}
  <1>1. D \subseteq Nat /\ D # {}
    <2>1. \A i \in S : n - i \in Nat
      OBVIOUS
    <2>2. PICK i \in S : TRUE
      OBVIOUS
    <2>3. n - i \in D
      BY <2>2
    <2> QED
      BY <2>1, <2>3
  <1> HIDE DEF D
  <1>2. PICK d \in D : \A e \in D : ~(<<e, d>> \in OpToRel(<, Nat))
    BY <1>1, NatLessThanWellFounded, WFMin, Zenon
  <1>3. PICK i \in S : d = n - i
    BY <1>2 DEF D
  <1>4. ASSUME NEW j \in S PROVE i >= j
    <2>1. n - j \in D
      BY DEF D
    <2>2. n - j \in Nat /\ d \in Nat
      BY <1>1, <1>2, <2>1
    <2>3. ~(n - j < d)
      BY <1>2, <2>1, <2>2 DEF OpToRel
    <2>4. i \in 0 .. n /\ j \in 0 .. n
      OBVIOUS
    <2> QED
      BY <1>3, <2>3, <2>4
  <1> QED
    BY <1>4

\* An id given to a library is one more than some id there, at most.
LEMMA NextIdBound ==
    ASSUME NEW n \in Nat, DOMAIN libraries \subseteq 1 .. n
    PROVE  NextId \in 1 .. (n + 1) /\ NextId \notin DOMAIN libraries
  <1> DEFINE S == DOMAIN libraries \cup {0}
  <1>1. S \subseteq 0 .. n /\ S # {}
    OBVIOUS
  <1>2. \E i \in S : \A j \in S : i >= j
    BY <1>1, GreatestOf, Zenon
  <1>3. Max(S) \in S /\ \A j \in S : Max(S) >= j
    BY <1>2 DEF Max
  <1>4. Max(S) \in 0 .. n
    BY <1>1, <1>3
  <1>5. 1 + Max(S) \notin S
    BY <1>3, <1>4
  <1> QED
    BY <1>4, <1>5 DEF NextId

\* The seeding gives the ids 1 and 2, each request at most one more; what a job in hand read has a
\* version.
InHand == {"read", "probed"}
IdBound == DOMAIN libraries \subseteq 1 .. (2 + admin)
TypeInv == TypeOK /\ IdBound /\ \A j \in jobs : j.step \in InHand => j.ver \in Version

LEMMA RootsType ==
    ASSUME TypeOK
    PROVE  Roots \subseteq Root \X Path
  <1>1. [lib |-> NoLib, kind |-> "guess"] \in Root
    BY DEF Root
  <1>2. ASSUME NEW l \in DOMAIN libraries
        PROVE  [lib |-> l, kind |-> libraries[l].kind] \in Root /\ libraries[l].folder \subseteq Path
    <2>1. l \in LibraryId /\ libraries[l] \in Library
      BY DEF TypeOK, IsPartial
    <2>2. libraries[l].kind \in Kind /\ libraries[l].folder \in SUBSET Path
      BY <2>1 DEF Library
    <2> QED
      BY <2>1, <2>2, CatalogAssumption DEF Root
  <1> QED
    BY <1>1, <1>2 DEF Roots, Rooted

LEMMA BootTypes == ASSUME TypeInv, Boot PROVE TypeInv'
  <1>1. /\ UNCHANGED <<disk, edits, files, scanState, failures, watching, todo, jobs, written, event,
                       trigger, unseen, dropped, restated, creations, admin, crashes, faults>>
    BY DEF Boot, diskVars, bounds
  <1>2. IsPartial(libraries, LibraryId, Library) /\ IsPartial(titles, Title, LibraryId \cup {NoLib})
    BY DEF TypeInv, TypeOK
  <1>3. 1 \in LibraryId /\ 2 \in LibraryId /\ {} \subseteq Path
        /\ 1 \in 1 .. (2 + admin) /\ 2 \in 1 .. (2 + admin)
    BY CatalogAssumption DEF LibraryId, TypeInv, TypeOK
  <1>4. IsPartial(libraries', LibraryId, Library) /\ DOMAIN libraries' \subseteq 1 .. (2 + admin)
    <2>1. \A k \in Kind : [kind |-> k, folder |-> {}] \in Library
      BY <1>3 DEF Library
    <2>2. CASE SeedMovies
      <3> DEFINE v == [kind |-> "movie", folder |-> {}]
      <3>1. libraries' = Put(libraries, 1, v)
        BY <2>2 DEF SeedMovies
      <3>2. v \in Library
        BY <2>1 DEF Kind
      <3> HIDE DEF v
      <3>3. DOMAIN libraries' = DOMAIN libraries \cup {1}
        BY <3>1 DEF Put
      <3>4. IsPartial(libraries', LibraryId, Library)
        BY <1>2, <1>3, <3>1, <3>2, PutType
      <3> QED
        BY <1>3, <3>3, <3>4 DEF TypeInv, IdBound
    <2>3. CASE SeedSeries
      <3> DEFINE v == [kind |-> "series", folder |-> {}]
      <3>1. libraries' = Put(libraries, 2, v)
        BY <2>3 DEF SeedSeries
      <3>2. v \in Library
        BY <2>1 DEF Kind
      <3> HIDE DEF v
      <3>3. DOMAIN libraries' = DOMAIN libraries \cup {2}
        BY <3>1 DEF Put
      <3>4. IsPartial(libraries', LibraryId, Library)
        BY <1>2, <1>3, <3>1, <3>2, PutType
      <3> QED
        BY <1>3, <3>3, <3>4 DEF TypeInv, IdBound
    <2>4. CASE SeedMoviesFolder \/ SeedSeriesFolder
      <3>1. PICK l \in {1, 2} : libraries' = [libraries EXCEPT ![l].folder = Path]
        BY <2>4 DEF SeedMoviesFolder, SeedSeriesFolder
      <3>2. \A i \in DOMAIN libraries : [libraries[i] EXCEPT !.folder = Path] \in Library
        BY <1>2, <1>3 DEF IsPartial, Library
      <3> QED
        BY <1>2, <3>1, <3>2 DEF IsPartial, TypeInv, IdBound
    <2>5. CASE SeedNothing
      BY <1>2, <2>5 DEF SeedNothing, TypeInv, IdBound
    <2> QED
      BY <2>2, <2>3, <2>4, <2>5 DEF Boot
  <1>5. IsPartial(titles', Title, LibraryId \cup {NoLib})
    <2>1. CASE SeedSeriesFolder
      BY <1>2, <1>3, <2>1 DEF SeedSeriesFolder, IsPartial
    <2> QED
      BY <1>2, <2>1 DEF Boot, SeedMovies, SeedMoviesFolder, SeedSeries, SeedNothing
  <1>6. pc' \in {"starting", "seedFolder", "seedSeries", "seedLast"}
    BY DEF Boot, SeedMovies, SeedMoviesFolder, SeedSeries, SeedSeriesFolder, SeedNothing
  <1> QED
    BY <1>1, <1>4, <1>5, <1>6 DEF TypeInv, TypeOK, IdBound

\* A job that goes on is of the same file, library and stat.
LEMMA JobFields ==
    ASSUME TypeInv, NEW j \in jobs
    PROVE  /\ \A s \in {"changed", "probed"} :
                 LET i == [j EXCEPT !.step = s]
                 IN  /\ i \in Job /\ i.step = s /\ i.path = j.path /\ i.lib = j.lib /\ i.stat = j.stat
                     /\ i.ver = j.ver /\ i.side = j.side
           /\ \A v \in Version, x \in BOOLEAN :
                 LET i == [j EXCEPT !.step = "read", !.ver = v, !.side = x]
                 IN  /\ i \in Job /\ i.step = "read" /\ i.path = j.path /\ i.lib = j.lib /\ i.stat = j.stat
                     /\ i.ver = v /\ i.side = x
  <1>1. j \in Job
    BY DEF TypeInv, TypeOK
  <1> QED
    BY <1>1 DEF Job

LEMMA DiscoverTypes ==
    ASSUME TypeInv, NEW e \in todo, Discover(e[1], e[2])
    PROVE  TypeInv'
  <1> DEFINE root == e[1]
             p == e[2]
  <1>1. root \in Root /\ p \in Path
    BY DEF TypeInv, TypeOK
  <1>2. ASSUME NEW j \in Discovered(root, p) PROVE j \in Job /\ j.step = "found"
    <2>1. /\ p \in DOMAIN disk
          /\ j = [path |-> p, stat |-> disk[p].stat, lib |-> root.lib, kind |-> KindFor(root, p),
                  step |-> "found", ver |-> 0, side |-> FALSE]
      BY <1>2 DEF Discovered
    <2>2. disk[p].stat \in Stat
      BY <2>1 DEF TypeInv, TypeOK, IsPartial, DiskFile
    <2>3. root.lib \in LibraryId \cup {NoLib} /\ KindFor(root, p) \in Kind
      BY <1>1, CatalogAssumption DEF Root, KindFor
    <2> QED
      BY <1>1, <2>1, <2>2, <2>3 DEF Job
  <1>3. todo' \subseteq todo /\ jobs' = jobs \cup Discovered(root, p) /\ unseen' \subseteq unseen
        /\ UNCHANGED <<diskVars, dbVars, pc, watching, written, event, trigger, dropped, creations, bounds>>
    BY DEF Discover
  <1>4. jobs' \subseteq Job /\ \A j \in jobs' : j.step \in InHand => j.ver \in Version
    BY <1>2, <1>3 DEF TypeInv, TypeOK, InHand
  <1> QED
    BY <1>3, <1>4 DEF TypeInv, TypeOK, IdBound, diskVars, dbVars, bounds

\* A step of one job, without or with an error, short of its commit.
Handled(j) ==
    \/ FilterChanged(j) \/ Probe(j) \/ ClearFailure(j) \/ ProbeFails(j) \/ WriteFails(j)
    \/ DriftMisread(j) \/ ProbeErrs(j) \/ SidecarsMissed(j) \/ ClearErrs(j) \/ WriteErrs(j)

\* What a job is replaced by: the same file, library and stat; what it read is kept, or is what is
\* on disk now.
GoesOn(i, j) ==
    /\ i \in Job /\ i.path = j.path /\ i.lib = j.lib /\ i.stat = j.stat
    /\ i.step \in InHand =>
          \/ j.step \in InHand /\ i.ver = j.ver /\ i.side = j.side
          \/ j.path \in DOMAIN disk /\ disk[j.path].good /\ i.ver = disk[j.path].ver

LEMMA JobEffects ==
    ASSUME TypeInv, NEW j \in jobs, Handled(j)
    PROVE  /\ \A i \in jobs' : i \in jobs \/ GoesOn(i, j)
           /\ UNCHANGED <<disk, edits, restated, libraries, titles, files, scanState, pc, watching, todo,
                          written, event, trigger, dropped, creations, admin, crashes>>
           /\ failures' \subseteq failures \cup {j.path} /\ unseen \subseteq unseen'
           /\ unseen' \subseteq unseen \cup {j.path}
           /\ faults' = faults \/ Fault
  <1>1. j.path \in DOMAIN disk => disk[j.path].ver \in Version /\ disk[j.path].side \in BOOLEAN
    BY DEF TypeInv, TypeOK, IsPartial, DiskFile
  <1> DEFINE c == [j EXCEPT !.step = "changed"]
             b == [j EXCEPT !.step = "probed"]
             a == [j EXCEPT !.step = "read", !.ver = disk[j.path].ver, !.side = disk[j.path].side]
             m == [j EXCEPT !.step = "read", !.ver = disk[j.path].ver, !.side = FALSE]
  <1>2. GoesOn(c, j) /\ (j.step = "read" => GoesOn(b, j))
        /\ (j.path \in DOMAIN disk /\ disk[j.path].good => GoesOn(a, j) /\ GoesOn(m, j))
    <2>1. /\ c \in Job /\ c.step = "changed" /\ c.path = j.path /\ c.lib = j.lib /\ c.stat = j.stat
          /\ b \in Job /\ b.path = j.path /\ b.lib = j.lib /\ b.stat = j.stat /\ b.ver = j.ver /\ b.side = j.side
      BY JobFields
    <2>2. j.path \in DOMAIN disk =>
             /\ a \in Job /\ a.path = j.path /\ a.lib = j.lib /\ a.stat = j.stat /\ a.ver = disk[j.path].ver
             /\ m \in Job /\ m.path = j.path /\ m.lib = j.lib /\ m.stat = j.stat /\ m.ver = disk[j.path].ver
      BY <1>1 DEF TypeInv, TypeOK, Job
    <2> HIDE DEF a, b, c, m
    <2> QED
      BY <2>1, <2>2 DEF GoesOn, InHand
  <1> HIDE DEF a, b, c, m
  <1>3. CASE FilterChanged(j)
    BY <1>2, <1>3 DEF FilterChanged, dbVars, diskVars, bounds, c
  <1>4. CASE Probe(j)
    BY <1>2, <1>4 DEF Probe, dbVars, diskVars, bounds, a
  <1>5. CASE ClearFailure(j)
    BY <1>2, <1>5 DEF ClearFailure, diskVars, bounds, b
  <1>6. CASE ProbeFails(j) \/ WriteFails(j)
    BY <1>6 DEF ProbeFails, WriteFails, dbVars, diskVars, bounds
  <1>7. CASE DriftMisread(j)
    BY <1>2, <1>7 DEF DriftMisread, dbVars, diskVars, c
  <1>8. CASE ProbeErrs(j) \/ WriteErrs(j)
    BY <1>8 DEF ProbeErrs, WriteErrs, dbVars, diskVars
  <1>9. CASE SidecarsMissed(j)
    BY <1>2, <1>9 DEF SidecarsMissed, dbVars, diskVars, m
  <1>10. CASE ClearErrs(j)
    BY <1>2, <1>10 DEF ClearErrs, dbVars, diskVars, b
  <1> QED
    BY <1>3, <1>4, <1>5, <1>6, <1>7, <1>8, <1>9, <1>10 DEF Handled

LEMMA FaultType == TypeInv /\ Fault => faults' \in 0 .. MaxFaults
  BY CatalogAssumption DEF Fault, TypeInv, TypeOK

LEMMA JobStepTypes ==
    ASSUME TypeInv, NEW j \in jobs, Handled(j)
    PROVE  TypeInv'
  <1>1. j.path \in Path /\ \A i \in jobs : i \in Job /\ (i.step \in InHand => i.ver \in Version)
    BY DEF TypeInv, TypeOK, Job
  <1>2. j.path \in DOMAIN disk => disk[j.path].ver \in Version
    BY DEF TypeInv, TypeOK, IsPartial, DiskFile
  <1>3. \A i \in jobs' : i \in Job /\ (i.step \in InHand => i.ver \in Version)
    BY <1>1, <1>2, JobEffects DEF GoesOn
  <1>4. failures' \subseteq Path /\ unseen' \subseteq Path
    BY <1>1, JobEffects DEF TypeInv, TypeOK
  <1>5. faults' \in 0 .. MaxFaults
    BY FaultType, JobEffects DEF TypeInv, TypeOK
  <1> QED
    BY <1>3, <1>4, <1>5, JobEffects DEF TypeInv, TypeOK, IdBound

LEMMA WriteTypes ==
    ASSUME TypeInv, NEW j \in jobs, WriteOne(j)
    PROVE  TypeInv'
  <1> DEFINE owner == <<j.kind, NameOf[j.path]>>
             scope == IF j.lib # NoLib THEN j.lib ELSE IF owner \in DOMAIN titles THEN titles[owner] ELSE NoLib
             row == [owner |-> owner, ver |-> j.ver, side |-> j.side]
  <1>1. /\ j.step = "probed" /\ jobs' = jobs \ {j} /\ written' = TRUE /\ dropped' = dropped \ {j.path}
        /\ titles' = Put(titles, owner, scope) /\ files' = Put(files, j.path, row)
        /\ scanState' = Put(scanState, j.path, RecordedStat(j))
        /\ UNCHANGED <<disk, edits, restated, libraries, failures, pc, watching, todo, event, trigger, unseen,
                       creations, admin, crashes, faults>>
    BY DEF WriteOne, diskVars, bounds
  <1>2. j.path \in Path /\ j.stat \in Stat /\ j.kind \in Kind /\ j.lib \in LibraryId \cup {NoLib} /\ j.side \in BOOLEAN
    BY DEF TypeInv, TypeOK, Job
  <1>3. j.ver \in Version
    BY <1>1 DEF TypeInv, InHand
  <1>4. owner \in Title
    BY <1>2, CatalogAssumption DEF Title
  <1> HIDE DEF owner
  <1>5. scope \in LibraryId \cup {NoLib} /\ row \in MediaFile
    BY <1>2, <1>3, <1>4 DEF TypeInv, TypeOK, IsPartial, MediaFile
  <1> HIDE DEF scope, row
  <1>6. IsPartial(titles', Title, LibraryId \cup {NoLib})
    BY <1>1, <1>4, <1>5, PutType DEF TypeInv, TypeOK
  <1>7. IsPartial(files', Path, MediaFile) /\ IsPartial(scanState', Path, Stat)
    BY <1>1, <1>2, <1>5, PutType DEF TypeInv, TypeOK, RecordedStat
  <1> QED
    BY <1>1, <1>6, <1>7 DEF TypeInv, TypeOK, IdBound

LEMMA DiskTypes == ASSUME TypeInv, DiskStep PROVE TypeInv'
  <1>1. PICK p \in Path : (\E good \in BOOLEAN, stat \in Stat : Store(p, good, stat)) \/ Remove(p) \/ ToggleSidecar(p)
    BY DEF DiskStep
  <1>2. Change(p)
    BY <1>1 DEF Store, Remove, ToggleSidecar
  <1>3. edits \in Nat /\ edits' = edits + 1 /\ edits' \in Version /\ edits' \in 0 .. MaxEdits
    BY <1>2, CatalogAssumption DEF Change, TypeInv, TypeOK, Version
  <1>4. event' \in BOOLEAN /\ unseen' \subseteq Path /\ faults' \in 0 .. MaxFaults
    BY <1>2, FaultType DEF Change, Notified, TypeInv, TypeOK
  <1>5. UNCHANGED <<libraries, titles, files, scanState, failures, pc, watching, todo, jobs, written, trigger,
                    creations, admin, crashes>>
    BY <1>2 DEF Change, dbVars, workVars
  <1>6. dropped' \subseteq Path /\ restated' \subseteq Path
    BY <1>1 DEF Store, Remove, ToggleSidecar, TypeInv, TypeOK
  <1>7. IsPartial(disk', Path, DiskFile)
    <2>1. IsPartial(disk, Path, DiskFile) /\ Sidecar(p) \in BOOLEAN
      BY DEF TypeInv, TypeOK, IsPartial, Sidecar, DiskFile
    <2>2. ASSUME NEW good \in BOOLEAN, NEW stat \in Stat, Store(p, good, stat) PROVE IsPartial(disk', Path, DiskFile)
      <3>1. [ver |-> edits', stat |-> stat, good |-> good, side |-> Sidecar(p)] \in DiskFile
        BY <1>3, <2>1 DEF DiskFile
      <3> QED
        BY <2>1, <2>2, <3>1, PutType DEF Store
    <2>3. CASE Remove(p)
      BY <2>1, <2>3, WithoutType DEF Remove
    <2>4. CASE ToggleSidecar(p)
      <3>1. disk[p] \in DiskFile /\ disk' = [disk EXCEPT ![p].side = ~@]
        BY <2>1, <2>4 DEF ToggleSidecar, IsPartial
      <3>2. [disk[p] EXCEPT !.side = ~@] \in DiskFile
        BY <3>1 DEF DiskFile
      <3> QED
        BY <2>1, <3>1, <3>2 DEF IsPartial
    <2> QED
      BY <1>1, <2>2, <2>3, <2>4
  <1> QED
    BY <1>3, <1>4, <1>5, <1>6, <1>7 DEF TypeInv, TypeOK, IdBound

\* The table of libraries after a request.
LibrariesTyped == IsPartial(libraries, LibraryId, Library) /\ IdBound /\ creations \subseteq Creation

LEMMA CreateTypes ==
    ASSUME TypeInv, NEW k \in Kind, NEW folder \in Folder, CreateLibrary(k, folder)
    PROVE  LibrariesTyped'
  <1>1. admin \in Nat /\ admin' = admin + 1 /\ admin < MaxAdmin
    BY CatalogAssumption DEF CreateLibrary, Request, TypeInv, TypeOK
  <1>2. IsPartial(libraries, LibraryId, Library) /\ DOMAIN libraries \subseteq 1 .. (2 + admin)
    BY DEF TypeInv, TypeOK, IdBound
  <1>3. NextId \in 1 .. (2 + admin + 1)
    BY <1>1, <1>2, NextIdBound
  <1>4. NextId \in 1 .. (2 + admin') /\ NextId \in LibraryId
    BY <1>1, <1>3, CatalogAssumption DEF LibraryId
  <1>5. [kind |-> k, folder |-> {}] \in Library
    BY DEF Library
  <1>6. /\ libraries' = Put(libraries, NextId, [kind |-> k, folder |-> {}])
        /\ creations' = creations \cup {[lib |-> NextId, folder |-> folder, step |-> "row"]}
    BY DEF CreateLibrary
  <1>7. DOMAIN libraries' = DOMAIN libraries \cup {NextId}
    BY <1>6 DEF Put
  <1>8. \A i \in 1 .. (2 + admin) : i \in 1 .. (2 + admin')
    BY <1>1
  <1>9. DOMAIN libraries' \subseteq 1 .. (2 + admin')
    BY <1>2, <1>4, <1>7, <1>8
  <1>10. IsPartial(libraries', LibraryId, Library)
    BY <1>2, <1>4, <1>5, <1>6, PutType
  <1>11. creations' \subseteq Creation
    BY <1>4, <1>6 DEF Creation, TypeInv, TypeOK
  <1> QED
    BY <1>9, <1>10, <1>11 DEF LibrariesTyped, IdBound

LEMMA FolderTypes ==
    ASSUME TypeInv, NEW l \in DOMAIN libraries, NEW folder \in SUBSET Path,
           libraries' = [libraries EXCEPT ![l].folder = folder]
    PROVE  IsPartial(libraries', LibraryId, Library) /\ DOMAIN libraries' = DOMAIN libraries
  <1>1. IsPartial(libraries, LibraryId, Library)
    BY DEF TypeInv, TypeOK
  <1>2. [libraries[l] EXCEPT !.folder = folder] \in Library
    BY <1>1 DEF IsPartial, Library
  <1> QED
    BY <1>1, <1>2 DEF IsPartial

\* The later steps of create_library.
LEMMA CreationTypes ==
    ASSUME TypeInv, NEW c \in creations, AddFolder(c) \/ FolderFails(c) \/ AskScan(c) \/ RequestDropped(c)
    PROVE  TypeInv'
  <1>1. c \in Creation
    BY DEF TypeInv, TypeOK
  <1>2. \A s \in {"folder", "asked"} : [c EXCEPT !.step = s] \in Creation
    BY <1>1 DEF Creation
  <1>3. creations' \subseteq Creation
    BY <1>2 DEF AddFolder, FolderFails, AskScan, RequestDropped, TypeInv, TypeOK
  <1>4. /\ UNCHANGED <<disk, edits, restated, titles, files, scanState, failures, pc, watching, todo, jobs, written,
                       event, dropped, admin, crashes>>
        /\ trigger' \in BOOLEAN
    BY DEF AddFolder, FolderFails, AskScan, RequestDropped, AskForScan, diskVars, dbVars, workVars, bounds,
       TypeInv, TypeOK
  <1>5. IsPartial(libraries', LibraryId, Library) /\ DOMAIN libraries' = DOMAIN libraries
    <2>1. CASE AddFolder(c)
      <3>1. c.folder \subseteq Path
        BY <1>1, CatalogAssumption DEF Creation
      <3>2. c.lib \in DOMAIN libraries /\ libraries' = [libraries EXCEPT ![c.lib].folder = @ \cup c.folder]
        BY <2>1 DEF AddFolder
      <3>3. libraries[c.lib].folder \subseteq Path
        BY <3>2 DEF TypeInv, TypeOK, IsPartial, Library
      <3> DEFINE F == libraries[c.lib].folder \cup c.folder
                 l == c.lib
      <3>4. l \in DOMAIN libraries /\ F \in SUBSET Path /\ libraries' = [libraries EXCEPT ![l].folder = F]
        BY <3>1, <3>2, <3>3
      <3> HIDE DEF F, l
      <3> QED
        BY <3>4, FolderTypes
    <2>2. CASE ~AddFolder(c)
      BY <2>2, Zenon DEF FolderFails, AskScan, RequestDropped, dbVars, TypeInv, TypeOK
    <2> QED
      BY <2>1, <2>2
  <1>6. unseen' \subseteq Path
    <2>1. Covered' \subseteq Path
      <3>1. \A l \in DOMAIN libraries' : libraries'[l].folder \subseteq Path
        BY <1>5 DEF IsPartial, Library
      <3> QED
        BY <3>1 DEF Covered, Roots, Rooted
    <2> QED
      BY <2>1 DEF AddFolder, FolderFails, AskScan, RequestDropped, AskForScan, TypeInv, TypeOK
  <1>7. faults' \in 0 .. MaxFaults
    BY FaultType DEF AddFolder, FolderFails, AskScan, RequestDropped, bounds, TypeInv, TypeOK
  <1> QED
    BY <1>3, <1>4, <1>5, <1>6, <1>7 DEF TypeInv, TypeOK, IdBound

LEMMA AdminTypes == ASSUME TypeInv, AdminStep PROVE TypeInv'
  <1> SUFFICES ASSUME \/ \E k \in Kind, folder \in Folder : CreateLibrary(k, folder)
                      \/ \E l \in DOMAIN libraries : \/ \E folder \in Folder \cup {{}} : PatchLibrary(l, folder)
                                                     \/ DeleteLibrary(l)
                      \/ ScanLibrary
               PROVE  TypeInv'
    BY CreationTypes DEF AdminStep
  <1>1. Request /\ UNCHANGED <<disk, edits, restated, scanState, failures, pc, watching, todo, jobs, written, event,
                               crashes, faults>>
    BY DEF CreateLibrary, PatchLibrary, DeleteLibrary, ScanLibrary, diskVars, dbVars, workVars
  <1>2. admin \in Nat /\ admin' = admin + 1 /\ admin' \in 0 .. MaxAdmin
    BY <1>1, CatalogAssumption DEF Request, TypeInv, TypeOK
  <1>3. IsPartial(libraries, LibraryId, Library) /\ DOMAIN libraries \subseteq 1 .. (2 + admin)
        /\ creations \subseteq Creation
    BY DEF TypeInv, TypeOK, IdBound
  <1>4. LibrariesTyped'
    <2>1. \A i \in 1 .. (2 + admin) : i \in 1 .. (2 + admin')
      BY <1>2
    <2>2. ASSUME NEW l \in DOMAIN libraries, NEW folder \in Folder \cup {{}}, PatchLibrary(l, folder)
          PROVE  LibrariesTyped'
      <3>1. libraries' = [libraries EXCEPT ![l].folder = folder] /\ folder \in SUBSET Path /\ UNCHANGED creations
        BY <2>2, CatalogAssumption DEF PatchLibrary
      <3>2. IsPartial(libraries', LibraryId, Library) /\ DOMAIN libraries' = DOMAIN libraries
        BY <3>1, FolderTypes
      <3> QED
        BY <1>3, <2>1, <3>1, <3>2 DEF LibrariesTyped, IdBound
    <2>3. ASSUME NEW l \in DOMAIN libraries, DeleteLibrary(l)
          PROVE  LibrariesTyped'
      <3>1. libraries' = Without(libraries, {l}) /\ UNCHANGED creations
        BY <2>3 DEF DeleteLibrary
      <3>2. DOMAIN libraries' = DOMAIN libraries \ {l}
        BY <3>1, WithoutFacts, Zenon
      <3>3. IsPartial(libraries', LibraryId, Library)
        BY <1>3, <3>1, WithoutType
      <3> QED
        BY <1>3, <2>1, <3>1, <3>2, <3>3 DEF LibrariesTyped, IdBound
    <2>4. CASE ScanLibrary
      BY <1>3, <2>1, <2>4 DEF ScanLibrary, dbVars, LibrariesTyped, IdBound
    <2> QED
      BY <2>2, <2>3, <2>4, CreateTypes
  <1>5. IsPartial(titles', Title, LibraryId \cup {NoLib}) /\ IsPartial(files', Path, MediaFile)
    <2>1. IsPartial(titles, Title, LibraryId \cup {NoLib}) /\ IsPartial(files, Path, MediaFile)
      BY DEF TypeInv, TypeOK
    <2>2. (\E T : titles' = Without(titles, T)) \/ titles' = titles
      BY DEF CreateLibrary, PatchLibrary, DeleteLibrary, ScanLibrary, dbVars
    <2>3. (\E F : files' = Without(files, F)) \/ files' = files
      BY DEF CreateLibrary, PatchLibrary, DeleteLibrary, ScanLibrary, dbVars
    <2> QED
      BY <2>1, <2>2, <2>3, WithoutType
  <1>6. trigger' \in BOOLEAN /\ dropped' \subseteq Path
    BY DEF CreateLibrary, PatchLibrary, DeleteLibrary, ScanLibrary, AskForScan, FilesOf, TypeInv, TypeOK, IsPartial
  <1>7. unseen' \subseteq Path
    <2>1. Covered' \subseteq Path
      <3>1. \A l \in DOMAIN libraries' : libraries'[l].folder \subseteq Path
        BY <1>4 DEF IsPartial, Library, LibrariesTyped
      <3> QED
        BY <3>1 DEF Covered, Roots, Rooted
    <2>2. \A l : Scanning(l) \subseteq Path
      BY DEF Scanning, TypeInv, TypeOK, Job
    <2> QED
      BY <2>1, <2>2 DEF CreateLibrary, PatchLibrary, DeleteLibrary, ScanLibrary, AskForScan, TypeInv, TypeOK
  <1> QED
    BY <1>1, <1>2, <1>4, <1>5, <1>6, <1>7 DEF TypeInv, TypeOK, LibrariesTyped

\* The errors that end a scan, an entry or the watch task.
LEMMA FaultTypes ==
    ASSUME TypeInv, ScanFails \/ WatchFails \/ (\E e \in todo : EntrySkipped(e[1], e[2]))
    PROVE  TypeInv'
  <1>1. faults' \in 0 .. MaxFaults
    BY FaultType DEF ScanFails, WatchFails, EntrySkipped
  <1>2. unseen' \subseteq Path /\ todo' \subseteq todo /\ jobs' \subseteq jobs /\ trigger' \in BOOLEAN
    BY DEF ScanFails, WatchFails, EntrySkipped, TypeInv, TypeOK
  <1>3. /\ pc' \in {pc, "idle", "sweeping", "stopped"}
        /\ UNCHANGED <<disk, edits, restated, libraries, titles, files, scanState, failures, watching, written, event,
                       dropped, creations, admin, crashes>>
    BY DEF ScanFails, WatchFails, EntrySkipped, diskVars, dbVars
  <1> QED
    BY <1>1, <1>2, <1>3 DEF TypeInv, TypeOK, IdBound

LEMMA TypeStep == TypeInv /\ [Next]_vars => TypeInv'
  <1> SUFFICES ASSUME TypeInv, [Next]_vars PROVE TypeInv'
    OBVIOUS
  <1>1. CASE StartScan
    BY <1>1, RootsType DEF StartScan, dbVars, diskVars, bounds, TypeInv, TypeOK, IdBound
  <1>2. CASE WalkEnds \/ FilterEnds \/ ScanEnds \/ EnrichmentEnds \/ StartWatching \/ Receive
    BY <1>2 DEF WalkEnds, FilterEnds, ScanEnds, EnrichmentEnds, StartWatching, Receive, dbVars, diskVars, bounds,
       TypeInv, TypeOK, IdBound
  <1>3. CASE Forward
    BY <1>3 DEF Forward, dbVars, workVars, diskVars, bounds, TypeInv, TypeOK, IdBound
  <1>4. CASE Restart
    <2>1. /\ UNCHANGED <<disk, edits, restated, libraries, titles, files, scanState, failures, unseen, dropped, admin,
                         faults>>
          /\ pc' = "down" /\ watching' = FALSE /\ todo' = {} /\ jobs' = {} /\ written' = FALSE
          /\ event' = FALSE /\ trigger' = FALSE /\ creations' = {}
      BY <1>4 DEF Restart, dbVars, diskVars
    <2>2. crashes' \in 0 .. MaxCrashes
      BY <1>4, CatalogAssumption DEF Restart, TypeInv, TypeOK
    <2> QED
      BY <2>1, <2>2 DEF TypeInv, TypeOK, IdBound
  <1>5. CASE UNCHANGED vars
    BY <1>5 DEF vars, dbVars, workVars, diskVars, bounds, TypeInv, TypeOK, IdBound
  <1>6. CASE ScanStep
    BY <1>1, <1>2, <1>6, DiscoverTypes, JobStepTypes, WriteTypes DEF ScanStep, Handled
  <1>7. CASE WorkerFault
    BY <1>7, FaultTypes, JobStepTypes DEF WorkerFault, ScanFault, Handled
  <1> QED
    BY <1>2, <1>3, <1>4, <1>5, <1>6, <1>7, BootTypes, DiskTypes, AdminTypes DEF Next, WorkerStep

LEMMA TypeStarts == Init => TypeInv
  <1> SUFFICES ASSUME Init PROVE TypeInv
    OBVIOUS
  <1>1. \A S, T : /\ IsPartial(disk, S, T) /\ IsPartial(libraries, S, T) /\ IsPartial(titles, S, T)
                  /\ IsPartial(files, S, T) /\ IsPartial(scanState, S, T)
    BY DEF Init, IsPartial
  <1>2. edits \in 0 .. MaxEdits /\ admin \in 0 .. MaxAdmin /\ crashes \in 0 .. MaxCrashes
        /\ faults \in 0 .. MaxFaults
    BY CatalogAssumption DEF Init
  <1> QED
    BY <1>1, <1>2 DEF Init, TypeInv, TypeOK, IdBound

\* The tables stay well formed, for any files, folders and requests: an id that is given out again
\* stays within bounds, and no row has the version of a file that was never read (write_one).
THEOREM TypeCorrect == Spec => []TypeOK
  <1>1. TypeInv => TypeOK
    BY DEF TypeInv
  <1> QED
    BY <1>1, TypeStarts, TypeStep, PTL DEF Spec

-----------------------------------------------------------------------------
(* Contents and stats *)

\* What was read for a stat is what is on disk under it, unless that was replaced under the same
\* stat.
Faithful(j) ==
    j.step \in InHand /\ j.path \in DOMAIN disk \ restated /\ disk[j.path].stat = j.stat
       => j.ver = disk[j.path].ver

CurrentInv == DOMAIN files \subseteq DOMAIN scanState /\ (\A j \in jobs : Faithful(j)) /\ SkippedIsCurrent

LEMMA CurrentStarts == Init => CurrentInv
  <1> SUFFICES ASSUME Init PROVE CurrentInv
    OBVIOUS
  <1>1. DOMAIN disk = {} /\ DOMAIN files = {} /\ jobs = {}
    BY DEF Init
  <1> QED
    BY <1>1 DEF CurrentInv, SkippedIsCurrent

\* A step that changes nothing but the jobs, and those for others that are as good.
LEMMA JobsStep ==
    ASSUME CurrentInv, UNCHANGED <<disk, restated, files, scanState>>, \A j \in jobs' : Faithful(j)
    PROVE  CurrentInv'
  <1>1. SkippedIsCurrent' /\ DOMAIN files' \subseteq DOMAIN scanState'
    BY DEF CurrentInv, SkippedIsCurrent
  <1>2. \A j \in jobs' : Faithful(j)'
    BY DEF Faithful
  <1> QED
    BY <1>1, <1>2 DEF CurrentInv

LEMMA DiscoverStep ==
    ASSUME CurrentInv, NEW root, NEW p, Discover(root, p)
    PROVE  CurrentInv'
  <1>1. jobs' = jobs \cup Discovered(root, p) /\ UNCHANGED <<disk, restated, files, scanState>>
    BY DEF Discover, dbVars, diskVars
  <1>2. \A j \in Discovered(root, p) : Faithful(j)
    BY DEF Discovered, Faithful, InHand
  <1>3. \A j \in jobs' : Faithful(j)
    BY <1>1, <1>2 DEF CurrentInv
  <1> QED
    BY <1>1, <1>3, JobsStep

\* A job that goes on keeps its stat and what it read, or reads what is there.
LEMMA JobMoves ==
    ASSUME CurrentInv, TypeInv, NEW j \in jobs, Handled(j)
    PROVE  CurrentInv'
  <1>1. UNCHANGED <<disk, restated, files, scanState>> /\ \A i \in jobs' : i \in jobs \/ GoesOn(i, j)
    BY JobEffects
  <1>2. \A i \in jobs' : Faithful(i)
    BY <1>1 DEF CurrentInv, GoesOn, Faithful
  <1> QED
    BY <1>1, <1>2, JobsStep

LEMMA WriteStep ==
    ASSUME CurrentInv, NEW j \in jobs, WriteOne(j)
    PROVE  CurrentInv'
  <1> DEFINE owner == <<j.kind, NameOf[j.path]>>
             row == [owner |-> owner, ver |-> j.ver, side |-> j.side]
  <1>1. /\ j.step = "probed"
        /\ scanState' = Put(scanState, j.path, j.stat)
        /\ files' = Put(files, j.path, row)
        /\ jobs' = jobs \ {j} /\ UNCHANGED <<disk, restated>>
    BY DEF WriteOne, RecordedStat, diskVars
  <1>2. Faithful(j) /\ row.ver = j.ver
    BY DEF CurrentInv
  <1> HIDE DEF row
  <1>3. /\ DOMAIN scanState' = DOMAIN scanState \cup {j.path} /\ DOMAIN files' = DOMAIN files \cup {j.path}
        /\ scanState'[j.path] = j.stat /\ files'[j.path] = row
        /\ \A p \in DOMAIN scanState \ {j.path} : scanState'[p] = scanState[p]
        /\ \A p \in DOMAIN files \ {j.path} : files'[p] = files[p]
    <2>1. /\ DOMAIN scanState' = DOMAIN scanState \cup {j.path} /\ scanState'[j.path] = j.stat
          /\ \A p \in DOMAIN scanState \ {j.path} : scanState'[p] = scanState[p]
      BY <1>1 DEF Put
    <2>2. /\ DOMAIN files' = DOMAIN files \cup {j.path} /\ files'[j.path] = row
          /\ \A p \in DOMAIN files \ {j.path} : files'[p] = files[p]
      BY <1>1 DEF Put
    <2> QED
      BY <2>1, <2>2
  <1>4. SkippedIsCurrent'
    BY <1>1, <1>2, <1>3 DEF CurrentInv, SkippedIsCurrent, Faithful, InHand
  <1>5. \A i \in jobs' : Faithful(i)'
    BY <1>1 DEF CurrentInv, Faithful
  <1> QED
    BY <1>3, <1>4, <1>5 DEF CurrentInv

\* A change of one file: it is told of, or noted as unseen.  A file stored under a stat the scan
\* had noted of it is noted as restated.
LEMMA DiskEffect ==
    ASSUME TypeInv, DiskStep
    PROVE  \E p \in Path :
              /\ event' \/ (event' = event /\ unseen' = unseen \cup {p})
              /\ \A q : q # p => (q \in DOMAIN disk' <=> q \in DOMAIN disk) /\ (q \in restated' <=> q \in restated)
              /\ \A q \in DOMAIN disk \ {p} : disk'[q] = disk[q]
              /\ p \in DOMAIN disk' =>
                    \/ p \in restated'
                    \/ disk'[p].stat \notin Noted(p)
                    \/ /\ p \in DOMAIN disk \ restated /\ dropped' = dropped
                       /\ disk'[p].ver = disk[p].ver /\ disk'[p].stat = disk[p].stat /\ disk'[p].good = disk[p].good
              /\ dropped' \subseteq dropped /\ dropped \subseteq dropped' \cup {p}
              /\ UNCHANGED <<libraries, files, scanState, failures, pc, todo, jobs, trigger>>
  <1>1. PICK p \in Path : (\E good \in BOOLEAN, stat \in Stat : Store(p, good, stat)) \/ Remove(p) \/ ToggleSidecar(p)
    BY DEF DiskStep
  <1>2. Change(p)
    BY <1>1 DEF Store, Remove, ToggleSidecar
  <1>3. UNCHANGED <<libraries, files, scanState, failures, pc, todo, jobs, trigger>>
    BY <1>2 DEF Change, dbVars, workVars
  <1>4. event' \/ (event' = event /\ unseen' = unseen \cup {p})
    <2>1. CASE watching /\ event' = Notified
      BY <2>1, Zenon DEF Notified
    <2>2. CASE ~watching
      <3>1. event \in BOOLEAN
        BY Zenon DEF TypeInv, TypeOK
      <3>2. Notified = event
        BY <2>2, <3>1, Zenon DEF Notified
      <3> QED
        BY <1>2, <2>2, <3>2, Zenon DEF Change
    <2>3. CASE watching /\ event' # Notified
      BY <1>2, <2>3, Zenon DEF Change
    <2> QED
      BY <2>1, <2>2, <2>3
  <1>5. dropped' \subseteq dropped /\ dropped \subseteq dropped' \cup {p}
    BY <1>1 DEF Store, Remove, ToggleSidecar
  <1>6. /\ \A q : q # p => (q \in DOMAIN disk' <=> q \in DOMAIN disk) /\ (q \in restated' <=> q \in restated)
        /\ \A q \in DOMAIN disk \ {p} : disk'[q] = disk[q]
        /\ p \in DOMAIN disk' =>
              \/ p \in restated'
              \/ disk'[p].stat \notin Noted(p)
              \/ /\ p \in DOMAIN disk \ restated /\ dropped' = dropped
                 /\ disk'[p].ver = disk[p].ver /\ disk'[p].stat = disk[p].stat /\ disk'[p].good = disk[p].good
    <2>1. CASE \E good \in BOOLEAN, stat \in Stat : Store(p, good, stat)
      <3>1. PICK good \in BOOLEAN, stat \in Stat : Store(p, good, stat)
        BY <2>1
      <3> DEFINE new == [ver |-> edits', stat |-> stat, good |-> good, side |-> Sidecar(p)]
      <3>2. /\ new.stat = stat /\ disk' = Put(disk, p, new)
            /\ restated' = IF stat \in Noted(p) THEN restated \cup {p} ELSE restated \ {p}
        BY <3>1 DEF Store
      <3> HIDE DEF new
      <3>3. DOMAIN disk' = DOMAIN disk \cup {p} /\ disk'[p] = new /\ \A q \in DOMAIN disk \ {p} : disk'[q] = disk[q]
        BY <3>2, Zenon DEF Put
      <3>4. \A q : q # p => (q \in restated' <=> q \in restated)
        BY <3>2
      <3>5. p \in restated' \/ stat \notin Noted(p)
        BY <3>2
      <3> QED
        BY <3>2, <3>3, <3>4, <3>5
    <2>2. CASE Remove(p)
      <3>1. DOMAIN disk' = DOMAIN disk \ {p} /\ (\A q \in DOMAIN disk \ {p} : disk'[q] = disk[q]) /\ restated' = restated
        BY <2>2, WithoutFacts DEF Remove
      <3> QED
        BY <3>1
    <2>3. CASE ToggleSidecar(p)
      <3>1. p \in DOMAIN disk /\ disk' = [disk EXCEPT ![p].side = ~@] /\ dropped' = dropped /\ restated' = restated
        BY <2>3 DEF ToggleSidecar
      <3>2. disk[p] \in DiskFile
        BY <3>1 DEF TypeInv, TypeOK, IsPartial
      <3>3. disk'[p].ver = disk[p].ver /\ disk'[p].stat = disk[p].stat /\ disk'[p].good = disk[p].good
        BY <3>1, <3>2 DEF DiskFile
      <3> QED
        BY <3>1, <3>3
    <2> QED
      BY <1>1, <2>1, <2>2, <2>3
  <1> QED
    BY <1>3, <1>4, <1>5, <1>6

\* The stats of what is recorded and of what is in hand are noted.
LEMMA NotedFacts ==
    /\ \A p \in DOMAIN scanState : scanState[p] \in Noted(p)
    /\ \A j \in jobs : j.step \in InHand => j.stat \in Noted(j.path)
  BY DEF Noted, InHand

LEMMA DiskStepKeeps ==
    ASSUME CurrentInv, TypeInv, DiskStep
    PROVE  CurrentInv'
  <1>1. PICK p \in Path :
              /\ \A q : q # p => (q \in DOMAIN disk' <=> q \in DOMAIN disk) /\ (q \in restated' <=> q \in restated)
              /\ \A q \in DOMAIN disk \ {p} : disk'[q] = disk[q]
              /\ p \in DOMAIN disk' =>
                    \/ p \in restated'
                    \/ disk'[p].stat \notin Noted(p)
                    \/ /\ p \in DOMAIN disk \ restated
                       /\ disk'[p].ver = disk[p].ver /\ disk'[p].stat = disk[p].stat
              /\ UNCHANGED <<files, scanState, jobs>>
    BY DiskEffect, Zenon
  <1>2. SkippedIsCurrent'
    <2> SUFFICES ASSUME NEW q \in (DOMAIN files' \cap DOMAIN disk') \ restated', scanState'[q] = disk'[q].stat
                 PROVE  files'[q].ver = disk'[q].ver
      BY DEF SkippedIsCurrent
    <2>1. q \in DOMAIN scanState /\ scanState[q] \in Noted(q)
      BY <1>1, NotedFacts DEF CurrentInv
    <2> QED
      BY <1>1, <2>1 DEF CurrentInv, SkippedIsCurrent
  <1>3. ASSUME NEW j \in jobs PROVE Faithful(j)'
    BY <1>1, NotedFacts DEF CurrentInv, Faithful
  <1> QED
    BY <1>1, <1>2, <1>3 DEF CurrentInv

LEMMA DeleteStep ==
    ASSUME CurrentInv, NEW l, DeleteLibrary(l)
    PROVE  CurrentInv'
  <1>1. files' = Without(files, CascadeFiles(l)) /\ UNCHANGED <<disk, restated, scanState, jobs>>
    BY DEF DeleteLibrary, workVars, diskVars
  <1>2. DOMAIN files' = DOMAIN files \ CascadeFiles(l)
        /\ \A p \in DOMAIN files \ CascadeFiles(l) : files'[p] = files[p]
    BY <1>1, WithoutFacts, Zenon
  <1>3. \A j \in jobs' : Faithful(j)'
    BY <1>1 DEF CurrentInv, Faithful
  <1>4. DOMAIN files' \subseteq DOMAIN scanState' /\ SkippedIsCurrent'
    BY <1>1, <1>2 DEF CurrentInv, SkippedIsCurrent
  <1> QED
    BY <1>3, <1>4 DEF CurrentInv

LEMMA CurrentStep == CurrentInv /\ TypeInv /\ [Next]_vars => CurrentInv'
  <1> SUFFICES ASSUME CurrentInv, TypeInv, [Next]_vars PROVE CurrentInv'
    OBVIOUS
  <1> DEFINE Rest == jobs' \subseteq jobs /\ UNCHANGED <<disk, restated, files, scanState>>
  <1>1. Rest => CurrentInv'
    BY JobsStep DEF CurrentInv
  <1>2. CASE Boot \/ StartWatching \/ Forward \/ Receive \/ StartScan \/ WalkEnds \/ FilterEnds \/ ScanEnds \/ EnrichmentEnds
    BY <1>1, <1>2 DEF Boot, StartWatching, Forward, Receive, StartScan, WalkEnds, FilterEnds, ScanEnds,
       EnrichmentEnds, dbVars, workVars, diskVars
  <1>3. CASE ScanStep
    BY <1>2, <1>3, DiscoverStep, JobMoves, WriteStep DEF ScanStep, Handled
  <1>4. CASE WorkerFault
    <2>1. ScanFails \/ WatchFails \/ (\E e \in todo : EntrySkipped(e[1], e[2])) => Rest
      BY DEF ScanFails, WatchFails, EntrySkipped, dbVars, diskVars
    <2> HIDE DEF Rest
    <2> QED
      BY <1>1, <1>4, <2>1, JobMoves DEF WorkerFault, ScanFault, Handled
  <1>5. CASE DiskStep
    BY <1>5, DiskStepKeeps
  <1>6. CASE AdminStep
    <2>1. (\E k \in Kind, folder \in Folder : CreateLibrary(k, folder)) \/ ScanLibrary => Rest
      BY DEF CreateLibrary, ScanLibrary, dbVars, workVars, diskVars
    <2>2. (\E c \in creations : AddFolder(c) \/ FolderFails(c) \/ AskScan(c) \/ RequestDropped(c)) => Rest
      BY DEF AddFolder, FolderFails, AskScan, RequestDropped, dbVars, workVars, diskVars
    <2>3. (\E l \in DOMAIN libraries, folder \in Folder \cup {{}} : PatchLibrary(l, folder)) => Rest
      BY DEF PatchLibrary, dbVars, workVars, diskVars
    <2> HIDE DEF Rest
    <2> QED
      BY <1>1, <1>6, <2>1, <2>2, <2>3, DeleteStep DEF AdminStep
  <1>7. CASE Restart
    BY <1>1, <1>7 DEF Restart, dbVars, diskVars
  <1>8. CASE UNCHANGED vars
    BY <1>1, <1>8 DEF vars, dbVars, workVars, diskVars
  <1> QED
    BY <1>2, <1>3, <1>4, <1>5, <1>6, <1>7, <1>8 DEF Next, WorkerStep

\* A file that a re-scan would skip (filter_changed) is catalogued as it is on
\* disk: the stat of the walk is recorded with what ffprobe read later, and no
\* replacement in between, error, delete or restart makes the two belong together,
\* unless the replacement has the very stat (seconds and size) the scan had noted.
THEOREM SkippedIsAlwaysCurrent == Spec => []SkippedIsCurrent
  <1>1. CurrentInv => SkippedIsCurrent
    BY DEF CurrentInv
  <1> QED
    BY <1>1, CurrentStarts, CurrentStep, TypeStarts, TypeStep, PTL DEF Spec

-----------------------------------------------------------------------------
(* References *)

\* While the default libraries are seeded, those seeded so far are there.
SeedInv ==
    /\ pc \in {"seedFolder", "seedSeries"} => 1 \in DOMAIN libraries
    /\ pc = "seedLast" => 1 \in DOMAIN libraries /\ 2 \in DOMAIN libraries
ReferencesInv == SeedInv /\ ReferencesIntact

Seeding == {"seedFolder", "seedSeries", "seedLast"}

LEMMA BootKeepsReferences ==
    ASSUME ReferencesInv, Boot
    PROVE  ReferencesInv'
  <1>1. UNCHANGED <<files, scanState>>
    BY DEF Boot
  <1>2. CASE SeedMovies
    <2>1. pc' = "seedFolder" /\ DOMAIN libraries' = DOMAIN libraries \cup {1} /\ UNCHANGED titles
      BY <1>2 DEF SeedMovies, Put
    <2> QED
      BY <1>1, <2>1 DEF ReferencesInv, ReferencesIntact, SeedInv
  <1>3. CASE SeedMoviesFolder
    <2>1. pc = "seedFolder" /\ pc' = "seedSeries" /\ DOMAIN libraries' = DOMAIN libraries /\ UNCHANGED titles
      BY <1>3 DEF SeedMoviesFolder
    <2> QED
      BY <1>1, <2>1 DEF ReferencesInv, ReferencesIntact, SeedInv
  <1>4. CASE SeedSeries
    <2>1. /\ pc = "seedSeries" /\ pc' = "seedLast" /\ DOMAIN libraries' = DOMAIN libraries \cup {2}
          /\ UNCHANGED titles
      BY <1>4 DEF SeedSeries, Put
    <2> QED
      BY <1>1, <2>1 DEF ReferencesInv, ReferencesIntact, SeedInv
  <1>5. CASE SeedSeriesFolder
    <2>1. /\ pc = "seedLast" /\ pc' = "starting" /\ DOMAIN libraries' = DOMAIN libraries
          /\ DOMAIN titles' = DOMAIN titles
          /\ \A t \in DOMAIN titles : titles'[t] = titles[t] \/ titles'[t] = 1 \/ titles'[t] = 2
      BY <1>5 DEF SeedSeriesFolder
    <2> QED
      BY <1>1, <2>1 DEF ReferencesInv, ReferencesIntact, SeedInv
  <1>6. CASE SeedNothing
    BY <1>1, <1>6 DEF SeedNothing, ReferencesInv, ReferencesIntact, SeedInv
  <1> QED
    BY <1>2, <1>3, <1>4, <1>5, <1>6 DEF Boot

LEMMA WriteKeepsReferences ==
    ASSUME ReferencesInv, NEW j \in jobs, WriteOne(j)
    PROVE  ReferencesInv'
  <1> DEFINE owner == <<j.kind, NameOf[j.path]>>
             scope == IF j.lib # NoLib THEN j.lib ELSE IF owner \in DOMAIN titles THEN titles[owner] ELSE NoLib
             row == [owner |-> owner, ver |-> j.ver, side |-> j.side]
  <1>1. /\ pc = "probing" /\ ~LibraryGone(j)
        /\ titles' = Put(titles, owner, scope) /\ files' = Put(files, j.path, row)
        /\ scanState' = Put(scanState, j.path, RecordedStat(j)) /\ UNCHANGED <<libraries, pc>>
    BY DEF WriteOne
  <1>2. scope \in DOMAIN libraries \cup {NoLib}
    BY <1>1 DEF LibraryGone, ReferencesInv, ReferencesIntact
  <1>3. row.owner = owner
    OBVIOUS
  <1> HIDE DEF owner, scope, row
  <1>4. DOMAIN scanState' = DOMAIN scanState \cup {j.path}
    BY <1>1 DEF Put
  <1>5. /\ DOMAIN files' = DOMAIN files \cup {j.path} /\ files'[j.path] = row
        /\ \A p \in DOMAIN files \ {j.path} : files'[p] = files[p]
    BY <1>1 DEF Put
  <1>6. /\ DOMAIN titles' = DOMAIN titles \cup {owner} /\ titles'[owner] = scope
        /\ \A t \in DOMAIN titles \ {owner} : titles'[t] = titles[t]
    BY <1>1 DEF Put
  <1> QED
    BY <1>1, <1>2, <1>3, <1>4, <1>5, <1>6 DEF ReferencesInv, ReferencesIntact, SeedInv

\* The titles of a deleted library go, and with them their files.
LEMMA DeleteKeepsReferences ==
    ASSUME ReferencesInv, NEW l, DeleteLibrary(l)
    PROVE  ReferencesInv'
  <1>1. /\ pc \notin Seeding /\ UNCHANGED <<scanState, pc>>
        /\ libraries' = Without(libraries, {l}) /\ titles' = Without(titles, TitlesOf(l))
        /\ files' = Without(files, FilesOf(TitlesOf(l)))
    BY DEF DeleteLibrary, CascadeFiles, Request, Booting, Seeding, workVars
  <1>2. DOMAIN libraries' = DOMAIN libraries \ {l}
    BY <1>1, WithoutFacts, Zenon
  <1>3. DOMAIN titles' = DOMAIN titles \ TitlesOf(l) /\ \A t \in DOMAIN titles \ TitlesOf(l) : titles'[t] = titles[t]
    BY <1>1, WithoutFacts, Zenon
  <1>4. /\ DOMAIN files' = DOMAIN files \ FilesOf(TitlesOf(l))
        /\ \A p \in DOMAIN files \ FilesOf(TitlesOf(l)) : files'[p] = files[p]
    BY <1>1, WithoutFacts, Zenon
  <1>5. SeedInv'
    BY <1>1 DEF SeedInv, Seeding
  <1>6. \A p \in DOMAIN files' : files'[p].owner \in DOMAIN titles'
    BY <1>3, <1>4 DEF FilesOf, ReferencesInv, ReferencesIntact
  <1>7. \A t \in DOMAIN titles' : titles'[t] \in DOMAIN libraries' \cup {NoLib}
    BY <1>2, <1>3 DEF TitlesOf, ReferencesInv, ReferencesIntact
  <1>8. DOMAIN files' \subseteq DOMAIN scanState'
    BY <1>1, <1>4 DEF ReferencesInv, ReferencesIntact
  <1> QED
    BY <1>5, <1>6, <1>7, <1>8 DEF ReferencesInv, ReferencesIntact

LEMMA ReferencesStep == ReferencesInv /\ TypeInv /\ [Next]_vars => ReferencesInv'
  <1> SUFFICES ASSUME ReferencesInv, TypeInv, [Next]_vars PROVE ReferencesInv'
    OBVIOUS
  <1> DEFINE Kept == UNCHANGED <<titles, files, scanState>>
             Rest == Kept /\ UNCHANGED libraries /\ (pc' = pc \/ pc' \notin Seeding)
             More == Kept /\ UNCHANGED pc /\ DOMAIN libraries \subseteq DOMAIN libraries'
  <1>1. Rest \/ More => ReferencesInv'
    BY DEF ReferencesInv, ReferencesIntact, SeedInv, Seeding
  <1>2. StartWatching \/ Forward \/ Receive \/ StartScan \/ WalkEnds \/ FilterEnds \/ ScanEnds \/ EnrichmentEnds
        \/ Restart => Rest
    BY DEF StartWatching, Forward, Receive, StartScan, WalkEnds, FilterEnds, ScanEnds, EnrichmentEnds, Restart,
       Seeding, dbVars, workVars
  <1>3. (\E e \in todo : Discover(e[1], e[2])) => Rest
    BY DEF Discover, dbVars
  <1>4. (\E j \in jobs : Handled(j)) => Rest
    BY JobEffects
  <1>5. DiskStep \/ ScanLibrary => Rest
    BY DEF DiskStep, Store, Remove, ToggleSidecar, Change, ScanLibrary, dbVars, workVars
  <1>9. ScanFails \/ WatchFails \/ (\E e \in todo : EntrySkipped(e[1], e[2])) => Rest
    BY DEF ScanFails, WatchFails, EntrySkipped, Seeding, dbVars
  <1>10. (\E c \in creations : AddFolder(c) \/ FolderFails(c) \/ AskScan(c) \/ RequestDropped(c)) => Rest \/ More
    BY DEF AddFolder, FolderFails, AskScan, RequestDropped, dbVars, workVars
  <1>6. (\E k \in Kind, folder \in Folder : CreateLibrary(k, folder)) => More
    <2> SUFFICES ASSUME NEW k \in Kind, NEW folder \in Folder, CreateLibrary(k, folder) PROVE More
      OBVIOUS
    <2>1. Kept /\ UNCHANGED pc /\ libraries' = Put(libraries, NextId, [kind |-> k, folder |-> {}])
      BY DEF CreateLibrary, workVars
    <2>2. DOMAIN libraries' = DOMAIN libraries \cup {NextId}
      BY <2>1 DEF Put
    <2> QED
      BY <2>1, <2>2
  <1>7. (\E l \in DOMAIN libraries, folder \in Folder \cup {{}} : PatchLibrary(l, folder)) => More
    BY DEF PatchLibrary, workVars
  <1>8. UNCHANGED vars => Rest
    BY DEF vars, dbVars, workVars
  <1> HIDE DEF Rest, More
  <1> QED
    BY <1>1, <1>2, <1>3, <1>4, <1>5, <1>6, <1>7, <1>8, <1>9, <1>10, BootKeepsReferences, WriteKeepsReferences,
       DeleteKeepsReferences DEF Next, WorkerStep, WorkerFault, ScanStep, ScanFault, AdminStep, Handled

\* Foreign keys hold whatever a scan writes next to a delete (write_one's
\* transaction, delete_library): a file's owner and a scoped title's library
\* exist, and a row always has its scan_state.
THEOREM ReferencesAlwaysIntact == Spec => []ReferencesIntact
  <1>1. Init => ReferencesInv
    <2> SUFFICES ASSUME Init PROVE ReferencesInv
      OBVIOUS
    <2>1. pc = "down" /\ DOMAIN files = {} /\ DOMAIN titles = {}
      BY DEF Init
    <2> QED
      BY <2>1 DEF ReferencesInv, ReferencesIntact, SeedInv
  <1>2. ReferencesInv => ReferencesIntact
    BY DEF ReferencesInv
  <1> QED
    BY <1>1, <1>2, ReferencesStep, TypeStarts, TypeStep, PTL DEF Spec

-----------------------------------------------------------------------------
(* Wake-ups *)

\* Entries to visit belong to a walk and jobs to a scan; jobs pass from phase to phase together.
PhaseInv ==
    /\ pc # "walking" => todo = {}
    /\ pc \notin {"walking", "filtering", "probing"} => jobs = {}
    /\ \A j \in jobs : /\ pc = "walking" => j.step = "found"
                       /\ pc = "filtering" => j.step \in {"found", "changed"}

\* A recorded stat of the file on disk was taken of a readable file; if it has no row, the row went
\* with its library.
RecordedInv ==
    \A p \in (DOMAIN scanState \cap DOMAIN disk) \ restated :
       scanState[p] = disk[p].stat => disk[p].good /\ (p \in DOMAIN files \/ p \in dropped)

ReadableInv ==
    \A j \in jobs : j.step \in InHand /\ j.path \in DOMAIN disk \ restated /\ disk[j.path].stat = j.stat
                       => disk[j.path].good

\* Another scan will start, and has not taken its roots yet.
Told == event \/ trigger \/ pc \in Booting \cup {"starting", "debouncing"}

\* What is read and not written yet is what is on disk, unless its change was told of.
FreshInv ==
    \A j \in jobs : j.step \in InHand /\ j.path \in DOMAIN disk \ unseen /\ ~Told =>
       disk[j.path].good /\ j.ver = disk[j.path].ver /\ j.side = disk[j.path].side

\* The running scan will see to the path: it has an entry or a job of a library that still exists,
\* a job with the stat of the file as it is.
Exists(lib) == lib \in DOMAIN libraries \cup {NoLib}
Served(p) ==
    \/ \E e \in todo : e[2] = p /\ Exists(e[1].lib)
    \/ \E j \in jobs : j.path = p /\ Exists(j.lib) /\ p \in DOMAIN disk /\ j.stat = disk[p].stat

ServedInv == \A p \in Path \ Excused : Behind(p) /\ ~Told => Served(p)

WakeInv == PhaseInv /\ RecordedInv /\ ReadableInv /\ FreshInv /\ ServedInv

\* Steps after which another scan is due owe nothing for the running one.
LEMMA ToldStep ==
    ASSUME WakeInv, Told', PhaseInv', jobs' \subseteq jobs, UNCHANGED <<disk, restated, files, scanState, dropped>>
    PROVE  WakeInv'
  <1>1. RecordedInv' /\ ReadableInv'
    BY DEF WakeInv, RecordedInv, ReadableInv
  <1>2. FreshInv' /\ ServedInv'
    BY DEF FreshInv, ServedInv
  <1> QED
    BY <1>1, <1>2 DEF WakeInv

\* Steps that hand the work of a scan on as it is.
LEMMA HandedOn ==
    ASSUME WakeInv, PhaseInv', Told => Told',
           UNCHANGED <<disk, restated, libraries, files, scanState, failures, todo, jobs, unseen, dropped>>
    PROVE  WakeInv'
  <1>1. RecordedInv' /\ ReadableInv' /\ FreshInv'
    BY DEF WakeInv, RecordedInv, ReadableInv, FreshInv
  <1>2. \A p : (Behind(p)' <=> Behind(p)) /\ (Served(p)' <=> Served(p))
    BY DEF Behind, CaughtUp, Covered, Roots, Rooted, Served, Exists
  <1>3. ServedInv'
    BY <1>2 DEF WakeInv, ServedInv, Excused
  <1> QED
    BY <1>1, <1>3 DEF WakeInv

LEMMA WorkerWakes ==
    ASSUME WakeInv, WalkEnds \/ FilterEnds \/ ScanEnds \/ EnrichmentEnds \/ StartWatching \/ Forward \/ Receive
    PROVE  WakeInv'
  <1>1. UNCHANGED <<disk, restated, libraries, files, scanState, failures, todo, jobs, unseen, dropped>>
    BY DEF WalkEnds, FilterEnds, ScanEnds, EnrichmentEnds, StartWatching, Forward, Receive, dbVars, workVars, diskVars
  <1>2. Told => Told'
    BY DEF WalkEnds, FilterEnds, ScanEnds, EnrichmentEnds, StartWatching, Forward, Receive, workVars, Told, Booting
  <1>3. PhaseInv'
    <2>1. PhaseInv
      BY DEF WakeInv
    <2>2. CASE WalkEnds
      BY <2>1, <2>2 DEF WalkEnds, PhaseInv
    <2>3. CASE FilterEnds
      BY <2>1, <2>3 DEF FilterEnds, PhaseInv
    <2>4. CASE ScanEnds \/ EnrichmentEnds \/ StartWatching \/ Receive
      BY <2>1, <2>4 DEF ScanEnds, EnrichmentEnds, StartWatching, Receive, PhaseInv
    <2>5. CASE Forward
      BY <2>1, <2>5 DEF Forward, workVars, PhaseInv
    <2> QED
      BY <2>2, <2>3, <2>4, <2>5
  <1> QED
    BY <1>1, <1>2, <1>3, HandedOn

LEMMA BootWakes == ASSUME WakeInv, Boot PROVE WakeInv'
  <1>1. UNCHANGED <<disk, restated, files, scanState, todo, jobs, dropped>>
    BY DEF Boot, diskVars
  <1>2. pc \in Booting /\ pc' \in Booting \cup {"starting"}
    BY DEF Boot, SeedMovies, SeedMoviesFolder, SeedSeries, SeedSeriesFolder, SeedNothing, Booting
  <1>3. PhaseInv' /\ Told'
    BY <1>1, <1>2 DEF WakeInv, PhaseInv, Told, Booting
  <1> QED
    BY <1>1, <1>3, ToldStep

\* A scan starts with an entry for everything a library covers.
LEMMA StartScanWakes == ASSUME WakeInv, StartScan PROVE WakeInv'
  <1>1. /\ pc \in {"starting", "debouncing"} /\ pc' = "walking" /\ todo' = Roots
        /\ UNCHANGED <<disk, restated, libraries, files, scanState, failures, jobs, unseen, dropped>>
    BY DEF StartScan, dbVars, diskVars
  <1>2. jobs = {}
    BY <1>1 DEF WakeInv, PhaseInv
  <1>3. PhaseInv' /\ RecordedInv' /\ ReadableInv' /\ FreshInv'
    BY <1>1, <1>2 DEF WakeInv, PhaseInv, RecordedInv, ReadableInv, FreshInv
  <1>4. ASSUME NEW e \in Roots PROVE Exists(e[1].lib)
    BY <1>4 DEF Roots, Rooted, Exists
  <1>5. ASSUME NEW p, Behind(p)' PROVE Served(p)'
    <2>1. p \in Covered
      BY <1>1, <1>5 DEF Behind, Covered, Roots, Rooted
    <2>2. PICK e \in Roots : e[2] = p
      BY <2>1 DEF Covered
    <2> QED
      BY <1>1, <1>4, <2>2 DEF Served, Exists
  <1>6. ServedInv'
    BY <1>5 DEF ServedInv
  <1> QED
    BY <1>3, <1>6 DEF WakeInv

LEMMA DiscoverWakes ==
    ASSUME WakeInv, TypeInv, NEW d \in todo, Discover(d[1], d[2])
    PROVE  WakeInv'
  <1> DEFINE root == d[1]
             p == d[2]
  <1>1. /\ pc = "walking" /\ todo' = todo \ {<<root, p>>} /\ jobs' = jobs \cup Discovered(root, p)
        /\ unseen' = IF Exists(root.lib) THEN unseen \ {p} ELSE unseen
        /\ UNCHANGED <<disk, restated, libraries, files, scanState, failures, pc, event, trigger, dropped>>
    BY DEF Discover, dbVars, diskVars, Exists
  <1>2. \A j \in Discovered(root, p) : j.step = "found"
    BY DEF Discovered
  <1>3. \A j \in jobs' : j.step = "found"
    BY <1>1, <1>2 DEF WakeInv, PhaseInv
  <1>4. PhaseInv' /\ RecordedInv' /\ ReadableInv' /\ FreshInv'
    BY <1>1, <1>3 DEF WakeInv, PhaseInv, RecordedInv, ReadableInv, FreshInv, InHand
  <1>5. ASSUME NEW q \in Path \ Excused', Behind(q)', ~Told'
        PROVE  Served(q)'
    <2>1. Behind(q) /\ ~Told /\ q \notin dropped \cup restated
      BY <1>1, <1>5 DEF Behind, CaughtUp, Covered, Roots, Rooted, Told, Excused
    <2>2. CASE q = p /\ Exists(root.lib)
      <3> DEFINE j == [path |-> p, stat |-> disk[p].stat, lib |-> root.lib, kind |-> KindFor(root, p),
                       step |-> "found", ver |-> 0, side |-> FALSE]
      <3>1. p \in DOMAIN disk
        BY <2>1, <2>2 DEF Behind
      <3>2. j \in jobs' /\ j.path = p /\ j.lib = root.lib /\ j.stat = disk[p].stat
        BY <1>1, <3>1 DEF Discovered
      <3> QED
        BY <1>1, <2>2, <3>1, <3>2 DEF Served, Exists
    <2>3. CASE ~(q = p /\ Exists(root.lib))
      <3>1. q \notin unseen
        BY <1>1, <1>5, <2>3 DEF Excused
      <3>2. Served(q)
        BY <2>1, <3>1, <1>5 DEF WakeInv, ServedInv, Excused
      <3>3. \A e \in todo : e[2] = q /\ Exists(e[1].lib) => e \in todo'
        BY <1>1, <2>3
      <3> QED
        BY <1>1, <3>2, <3>3 DEF Served, Exists
    <2> QED
      BY <2>2, <2>3
  <1> QED
    BY <1>4, <1>5 DEF WakeInv, ServedInv

\* filter_changed drops a file only if its row is current, sidecars included.
LEMMA FilterWakes ==
    ASSUME WakeInv, CurrentInv, TypeInv, NEW j \in jobs, FilterChanged(j)
    PROVE  WakeInv'
  <1> DEFINE i == [j EXCEPT !.step = "changed"]
  <1>1. /\ pc = "filtering" /\ jobs' = (jobs \ {j}) \cup (IF NeedsProbe(j) THEN {i} ELSE {})
        /\ UNCHANGED <<disk, restated, libraries, files, scanState, failures, pc, todo, unseen, event, trigger, dropped>>
    BY DEF FilterChanged, dbVars, diskVars
  <1>2. i.step = "changed" /\ i.path = j.path /\ i.lib = j.lib /\ i.stat = j.stat
    BY JobFields
  <1> HIDE DEF i
  <1>3. PhaseInv' /\ RecordedInv' /\ ReadableInv' /\ FreshInv'
    BY <1>1, <1>2 DEF WakeInv, PhaseInv, RecordedInv, ReadableInv, FreshInv, InHand, Told
  <1>4. ASSUME NEW p \in Path \ Excused', Behind(p)', ~Told'
        PROVE  Served(p)'
    <2>1. Behind(p) /\ ~Told /\ p \notin Excused
      BY <1>1, <1>4 DEF Behind, CaughtUp, Covered, Roots, Rooted, Told, Excused
    <2>2. PICK k \in jobs : k.path = p /\ Exists(k.lib) /\ p \in DOMAIN disk /\ k.stat = disk[p].stat
      BY <1>1, <1>4, <2>1 DEF WakeInv, ServedInv, PhaseInv, Served
    <2>3. CASE k # j
      BY <1>1, <2>2, <2>3 DEF Served, Exists
    <2>4. CASE k = j /\ NeedsProbe(j)
      BY <1>1, <1>2, <2>2, <2>4 DEF Served, Exists
    <2>5. CASE k = j /\ ~NeedsProbe(j)
      <3>1. p \in DOMAIN scanState /\ scanState[p] = disk[p].stat /\ Sidecar(p) = RecordedSidecar(p)
        BY <2>2, <2>5 DEF NeedsProbe
      <3>2. disk[p].good /\ p \in DOMAIN files
        BY <2>1, <2>2, <3>1 DEF WakeInv, RecordedInv, Excused
      <3>3. files[p].ver = disk[p].ver
        BY <2>1, <2>2, <3>1, <3>2 DEF CurrentInv, SkippedIsCurrent, Excused
      <3>4. disk[p].side \in BOOLEAN /\ files[p].side \in BOOLEAN
        BY <2>2, <3>2 DEF TypeInv, TypeOK, IsPartial, DiskFile, MediaFile
      <3>5. files[p].side = disk[p].side
        BY <2>2, <3>1, <3>2, <3>4 DEF Sidecar, RecordedSidecar
      <3> QED
        BY <2>1, <3>2, <3>3, <3>5 DEF Behind, CaughtUp
    <2> QED
      BY <2>3, <2>4, <2>5
  <1> QED
    BY <1>3, <1>4 DEF WakeInv, ServedInv

LEMMA ProbeWakes ==
    ASSUME WakeInv, TypeInv, NEW j \in jobs, Probe(j)
    PROVE  WakeInv'
  <1> DEFINE i == [j EXCEPT !.step = "read", !.ver = disk[j.path].ver, !.side = disk[j.path].side]
  <1>1. /\ pc = "probing" /\ jobs' = (jobs \ {j}) \cup {i} /\ j.path \in DOMAIN disk /\ disk[j.path].good
        /\ UNCHANGED <<disk, restated, libraries, files, scanState, failures, pc, todo, unseen, event, trigger, dropped>>
    BY DEF Probe, dbVars, diskVars
  <1>2. /\ i.path = j.path /\ i.lib = j.lib /\ i.stat = j.stat
        /\ i.ver = disk[j.path].ver /\ i.side = disk[j.path].side
    BY DEF TypeInv, TypeOK, Job
  <1> HIDE DEF i
  <1>3. PhaseInv' /\ RecordedInv'
    BY <1>1 DEF WakeInv, PhaseInv, RecordedInv
  <1>4. ReadableInv' /\ FreshInv'
    BY <1>1, <1>2 DEF WakeInv, ReadableInv, FreshInv, Told
  <1>5. ASSUME NEW p \in Path \ Excused', Behind(p)', ~Told'
        PROVE  Served(p)'
    <2>1. Behind(p) /\ ~Told /\ p \notin Excused
      BY <1>1, <1>5 DEF Behind, CaughtUp, Covered, Roots, Rooted, Told, Excused
    <2>2. Served(p)
      BY <1>5, <2>1 DEF WakeInv, ServedInv
    <2> QED
      BY <1>1, <1>2, <2>2 DEF Served, Exists
  <1> QED
    BY <1>3, <1>4, <1>5 DEF WakeInv, ServedInv

\* A failure is cleared for a file that was read, if nothing goes wrong: if it is bad by now, that
\* change was told of.
LEMMA ClearWakes ==
    ASSUME WakeInv, TypeInv, NEW j \in jobs, ClearFailure(j) \/ ClearErrs(j)
    PROVE  WakeInv'
  <1> DEFINE i == [j EXCEPT !.step = "probed"]
  <1>1. /\ pc = "probing" /\ j.step = "read" /\ jobs' = (jobs \ {j}) \cup {i}
        /\ failures \ {j.path} \subseteq failures' /\ failures' \subseteq failures
        /\ UNCHANGED <<disk, restated, libraries, files, scanState, pc, todo, unseen, event, trigger, dropped>>
    BY DEF ClearFailure, ClearErrs, dbVars, diskVars
  <1>2. /\ i.path = j.path /\ i.lib = j.lib /\ i.stat = j.stat /\ i.ver = j.ver /\ i.side = j.side
    BY DEF TypeInv, TypeOK, Job
  <1> HIDE DEF i
  <1>3. PhaseInv' /\ RecordedInv'
    BY <1>1 DEF WakeInv, PhaseInv, RecordedInv
  <1>4. ReadableInv' /\ FreshInv'
    BY <1>1, <1>2 DEF WakeInv, ReadableInv, FreshInv, InHand, Told
  <1>5. ASSUME NEW p \in Path \ Excused', Behind(p)', ~Told'
        PROVE  Served(p)'
    <2>1. ~Told /\ p \notin Excused /\ p \in DOMAIN disk \cap Covered
      BY <1>1, <1>5 DEF Behind, Covered, Roots, Rooted, Told, Excused
    <2>2. p = j.path => disk[p].good
      BY <1>1, <2>1 DEF WakeInv, FreshInv, InHand, Excused
    <2>3. Behind(p)
      BY <1>1, <1>5, <2>1, <2>2 DEF Behind, CaughtUp
    <2>4. Served(p)
      BY <1>5, <2>1, <2>3 DEF WakeInv, ServedInv
    <2> QED
      BY <1>1, <1>2, <2>4 DEF Served, Exists
  <1> QED
    BY <1>3, <1>4, <1>5 DEF WakeInv, ServedInv

\* A job ends: recorded as a failure, which is all there is to say of a bad file, or refused because
\* its library is gone.
LEMMA FailureWakes ==
    ASSUME WakeInv, NEW j \in jobs, ProbeFails(j) \/ WriteFails(j)
    PROVE  WakeInv'
  <1>1. /\ pc = "probing" /\ jobs' = jobs \ {j}
        /\ UNCHANGED <<disk, restated, libraries, files, scanState, pc, todo, unseen, event, trigger, dropped>>
    BY DEF ProbeFails, WriteFails, dbVars, diskVars
  <1>2. /\ failures \subseteq failures' /\ failures' \subseteq failures \cup {j.path}
        /\ \/ ~Exists(j.lib)
           \/ j.path \in failures' /\ (j.path \in DOMAIN disk => ~disk[j.path].good)
    BY DEF ProbeFails, WriteFails, LibraryGone, Exists, dbVars
  <1>3. PhaseInv' /\ RecordedInv' /\ ReadableInv' /\ FreshInv'
    BY <1>1 DEF WakeInv, PhaseInv, RecordedInv, ReadableInv, FreshInv, Told
  <1>4. ASSUME NEW p \in Path \ Excused', Behind(p)', ~Told'
        PROVE  Served(p)'
    <2>1. Behind(p) /\ ~Told /\ p \notin Excused
      BY <1>1, <1>2, <1>4 DEF Behind, CaughtUp, Covered, Roots, Rooted, Told, Excused
    <2>2. Served(p)
      BY <1>4, <2>1 DEF WakeInv, ServedInv
    <2>3. p = j.path => ~Exists(j.lib)
      BY <1>1, <1>2, <1>4, <2>1 DEF Behind, CaughtUp
    <2> QED
      BY <1>1, <2>2, <2>3 DEF Served, Exists
  <1> QED
    BY <1>3, <1>4 DEF WakeInv, ServedInv

\* A file is given up, or read without its sidecars, after an error: its path is noted as unseen,
\* and the other files are served as they were.
LEMMA GivenUpWakes ==
    ASSUME WakeInv, TypeInv, NEW j \in jobs, DriftMisread(j) \/ ProbeErrs(j) \/ SidecarsMissed(j) \/ WriteErrs(j)
    PROVE  WakeInv'
  <1>1. /\ pc \in {"filtering", "probing"} /\ unseen' = unseen \cup {j.path}
        /\ UNCHANGED <<disk, restated, libraries, files, scanState, pc, todo, event, trigger, dropped>>
        /\ failures \subseteq failures'
        /\ \A i \in jobs \ {j} : i \in jobs'
    BY DEF DriftMisread, ProbeErrs, SidecarsMissed, WriteErrs, dbVars, diskVars
  <1>2. \A i \in jobs' : i \in jobs \/ (i.path = j.path /\ (i.step \in InHand => j.path \in DOMAIN disk /\ disk[j.path].good))
    <2>1. CASE DriftMisread(j)
      BY <2>1 DEF DriftMisread, InHand, TypeInv, TypeOK, Job
    <2>2. CASE SidecarsMissed(j)
      BY <2>2 DEF SidecarsMissed, TypeInv, TypeOK, Job
    <2>3. CASE ProbeErrs(j) \/ WriteErrs(j)
      BY <2>3 DEF ProbeErrs, WriteErrs
    <2> QED
      BY <2>1, <2>2, <2>3
  <1>3. PhaseInv'
    <2>1. pc = "filtering" => \A i \in jobs' : i \in jobs \/ i.step = "changed"
      BY DEF DriftMisread, ProbeErrs, SidecarsMissed, WriteErrs, TypeInv, TypeOK, Job
    <2> QED
      BY <1>1, <2>1 DEF WakeInv, PhaseInv
  <1>4. RecordedInv' /\ ReadableInv' /\ FreshInv'
    BY <1>1, <1>2 DEF WakeInv, RecordedInv, ReadableInv, FreshInv, Told
  <1>5. ASSUME NEW p \in Path \ Excused', Behind(p)', ~Told'
        PROVE  Served(p)'
    <2>1. Behind(p) /\ ~Told /\ p \notin Excused /\ p # j.path
      BY <1>1, <1>5 DEF Behind, CaughtUp, Covered, Roots, Rooted, Told, Excused
    <2>2. Served(p)
      BY <1>5, <2>1 DEF WakeInv, ServedInv
    <2> QED
      BY <1>1, <2>1, <2>2 DEF Served, Exists
  <1> QED
    BY <1>3, <1>4, <1>5 DEF WakeInv, ServedInv

\* A scan or the watch task ends with an error: what the catalog is behind of is noted as unseen.
LEMMA EndWakes ==
    ASSUME WakeInv, ScanFails \/ WatchFails
    PROVE  WakeInv'
  <1>1. /\ unseen' = unseen \cup {p \in Path : Behind(p)}
        /\ pc # "walking" /\ pc' \in {"idle", "sweeping", "stopped"} /\ jobs' \subseteq jobs
        /\ pc = "sweeping" \/ jobs' = {}
        /\ UNCHANGED <<disk, restated, libraries, files, scanState, failures, todo, dropped>>
    BY DEF ScanFails, WatchFails, dbVars, diskVars
  <1>2. jobs' = {} /\ PhaseInv'
    BY <1>1 DEF WakeInv, PhaseInv
  <1>3. RecordedInv' /\ ReadableInv' /\ FreshInv'
    BY <1>1, <1>2 DEF WakeInv, RecordedInv, ReadableInv, FreshInv
  <1>4. ServedInv'
    <2>1. \A p : Behind(p)' => Behind(p)
      BY <1>1 DEF Behind, CaughtUp, Covered, Roots, Rooted
    <2> QED
      BY <1>1, <2>1 DEF ServedInv, Excused
  <1> QED
    BY <1>2, <1>3, <1>4 DEF WakeInv

LEMMA SkippedWakes ==
    ASSUME WakeInv, NEW root, NEW p, EntrySkipped(root, p)
    PROVE  WakeInv'
  <1>1. /\ pc = "walking" /\ todo' = todo \ {<<root, p>>} /\ unseen' = unseen \cup {p}
        /\ UNCHANGED <<disk, restated, libraries, files, scanState, failures, jobs, pc, event, trigger, dropped>>
    BY DEF EntrySkipped, dbVars, diskVars
  <1>2. PhaseInv' /\ RecordedInv' /\ ReadableInv' /\ FreshInv'
    BY <1>1 DEF WakeInv, PhaseInv, RecordedInv, ReadableInv, FreshInv, Told
  <1>3. ASSUME NEW q \in Path \ Excused', Behind(q)', ~Told'
        PROVE  Served(q)'
    <2>1. Behind(q) /\ ~Told /\ q \notin Excused /\ q # p
      BY <1>1, <1>3 DEF Behind, CaughtUp, Covered, Roots, Rooted, Told, Excused
    <2>2. Served(q) /\ \A e \in todo : e[2] = q => e \in todo'
      BY <1>1, <1>3, <2>1 DEF WakeInv, ServedInv
    <2> QED
      BY <1>1, <2>2 DEF Served, Exists
  <1> QED
    BY <1>2, <1>3 DEF WakeInv, ServedInv

\* What is written of a file is what is on disk, or its change was told of.
LEMMA WriteWakes ==
    ASSUME WakeInv, NEW j \in jobs, WriteOne(j)
    PROVE  WakeInv'
  <1> DEFINE row == [owner |-> <<j.kind, NameOf[j.path]>>, ver |-> j.ver, side |-> j.side]
  <1>1. /\ pc = "probing" /\ j.step = "probed" /\ jobs' = jobs \ {j} /\ dropped' = dropped \ {j.path}
        /\ files' = Put(files, j.path, row) /\ scanState' = Put(scanState, j.path, j.stat)
        /\ UNCHANGED <<disk, restated, libraries, failures, pc, todo, unseen, event, trigger>>
    BY DEF WriteOne, RecordedStat, diskVars
  <1>2. row.ver = j.ver /\ row.side = j.side
    OBVIOUS
  <1> HIDE DEF row
  <1>3. /\ DOMAIN scanState' = DOMAIN scanState \cup {j.path} /\ scanState'[j.path] = j.stat
        /\ \A p \in DOMAIN scanState \ {j.path} : scanState'[p] = scanState[p]
    BY <1>1 DEF Put
  <1>4. /\ DOMAIN files' = DOMAIN files \cup {j.path} /\ files'[j.path] = row
        /\ \A p \in DOMAIN files \ {j.path} : files'[p] = files[p]
    BY <1>1 DEF Put
  <1>5. PhaseInv' /\ ReadableInv' /\ FreshInv'
    BY <1>1 DEF WakeInv, PhaseInv, ReadableInv, FreshInv, Told
  <1>6. RecordedInv'
    <2> SUFFICES ASSUME NEW p \in (DOMAIN scanState' \cap DOMAIN disk') \ restated', scanState'[p] = disk'[p].stat
                 PROVE  disk'[p].good /\ (p \in DOMAIN files' \/ p \in dropped')
      BY DEF RecordedInv
    <2>1. CASE p = j.path
      BY <1>1, <1>3, <1>4, <2>1 DEF WakeInv, ReadableInv, InHand
    <2>2. CASE p # j.path
      BY <1>1, <1>3, <1>4, <2>2 DEF WakeInv, RecordedInv
    <2> QED
      BY <2>1, <2>2
  <1>7. ASSUME NEW p \in Path \ Excused', Behind(p)', ~Told'
        PROVE  Served(p)'
    <2>1. ~Told /\ p \notin unseen \cup restated /\ p \in DOMAIN disk \cap Covered
      BY <1>1, <1>7 DEF Behind, Covered, Roots, Rooted, Told, Excused
    <2>2. CASE p = j.path
      <3>1. disk[p].good /\ j.ver = disk[p].ver /\ j.side = disk[p].side
        BY <1>1, <2>1, <2>2 DEF WakeInv, FreshInv, InHand
      <3> QED
        BY <1>1, <1>2, <1>4, <1>7, <2>2, <3>1 DEF Behind, CaughtUp
    <2>3. CASE p # j.path
      <3>1. Behind(p) /\ p \notin dropped
        BY <1>1, <1>4, <1>7, <2>1, <2>3 DEF Behind, CaughtUp, Excused
      <3>2. Served(p)
        BY <1>7, <2>1, <3>1 DEF WakeInv, ServedInv, Excused
      <3> QED
        BY <1>1, <2>3, <3>2 DEF Served, Exists
    <2> QED
      BY <2>2, <2>3
  <1> QED
    BY <1>5, <1>6, <1>7 DEF WakeInv, ServedInv

LEMMA DiskWakes == ASSUME WakeInv, TypeInv, DiskStep PROVE WakeInv'
  <1>1. PICK p \in Path :
              /\ event' \/ (event' = event /\ unseen' = unseen \cup {p})
              /\ \A q : q # p => (q \in DOMAIN disk' <=> q \in DOMAIN disk) /\ (q \in restated' <=> q \in restated)
              /\ \A q \in DOMAIN disk \ {p} : disk'[q] = disk[q]
              /\ p \in DOMAIN disk' =>
                    \/ p \in restated'
                    \/ disk'[p].stat \notin Noted(p)
                    \/ /\ p \in DOMAIN disk \ restated /\ dropped' = dropped
                       /\ disk'[p].ver = disk[p].ver /\ disk'[p].stat = disk[p].stat /\ disk'[p].good = disk[p].good
              /\ dropped' \subseteq dropped /\ dropped \subseteq dropped' \cup {p}
              /\ UNCHANGED <<libraries, files, scanState, failures, pc, todo, jobs, trigger>>
    BY DiskEffect, Zenon
  <1>2. PhaseInv'
    BY <1>1 DEF WakeInv, PhaseInv
  <1>3. RecordedInv'
    <2> SUFFICES ASSUME NEW q \in (DOMAIN scanState' \cap DOMAIN disk') \ restated', scanState'[q] = disk'[q].stat
                 PROVE  disk'[q].good /\ (q \in DOMAIN files' \/ q \in dropped')
      BY DEF RecordedInv
    <2>1. scanState[q] \in Noted(q)
      BY <1>1, NotedFacts
    <2> QED
      BY <1>1, <2>1 DEF WakeInv, RecordedInv
  <1>4. ReadableInv'
    <2> SUFFICES ASSUME NEW j \in jobs', j.step \in InHand, j.path \in DOMAIN disk' \ restated', disk'[j.path].stat = j.stat
                 PROVE  disk'[j.path].good
      BY DEF ReadableInv
    <2>1. j.stat \in Noted(j.path)
      BY <1>1, NotedFacts
    <2> QED
      BY <1>1, <2>1 DEF WakeInv, ReadableInv
  <1>5. CASE event'
    <2>1. FreshInv' /\ ServedInv'
      BY <1>5 DEF FreshInv, ServedInv, Told
    <2> QED
      BY <1>2, <1>3, <1>4, <2>1 DEF WakeInv
  <1>6. CASE event' = event /\ unseen' = unseen \cup {p}
    <2>1. Told' <=> Told
      BY <1>1, <1>6 DEF Told
    <2>2. FreshInv'
      BY <1>1, <1>6, <2>1 DEF WakeInv, FreshInv
    <2>3. ASSUME NEW q \in Path \ Excused', Behind(q)', ~Told'
          PROVE  Served(q)'
      <3>1. q # p /\ q \notin Excused /\ ~Told
        BY <1>1, <1>6, <2>1, <2>3 DEF Excused
      <3>2. q \in DOMAIN disk /\ disk'[q] = disk[q] /\ q \in DOMAIN disk'
        BY <1>1, <2>3, <3>1 DEF Behind
      <3>3. Behind(q)
        BY <1>1, <2>3, <3>2 DEF Behind, CaughtUp, Covered, Roots, Rooted
      <3>4. Served(q)
        BY <2>3, <3>1, <3>3 DEF WakeInv, ServedInv
      <3> QED
        BY <1>1, <3>2, <3>4 DEF Served, Exists
    <2> QED
      BY <1>2, <1>3, <1>4, <2>2, <2>3 DEF WakeInv, ServedInv
  <1> QED
    BY <1>1, <1>5, <1>6

\* What a request adds to the covered paths is noted as unseen.
LEMMA FolderWakes ==
    ASSUME WakeInv, DOMAIN libraries' = DOMAIN libraries, unseen' = unseen \cup (Covered' \ Covered),
           UNCHANGED <<disk, restated, files, scanState, failures, pc, todo, jobs, event, trigger, dropped>>
    PROVE  WakeInv'
  <1>1. PhaseInv' /\ RecordedInv' /\ ReadableInv' /\ FreshInv'
    BY DEF WakeInv, PhaseInv, RecordedInv, ReadableInv, FreshInv, Told
  <1>2. ASSUME NEW p \in Path \ Excused', Behind(p)', ~Told'
        PROVE  Served(p)'
    <2>1. ~Told /\ p \notin Excused /\ p \in Covered
      BY <1>2 DEF Behind, Told, Excused
    <2>2. Behind(p)
      BY <1>2, <2>1 DEF Behind, CaughtUp
    <2>3. Served(p)
      BY <1>2, <2>1, <2>2 DEF WakeInv, ServedInv
    <2> QED
      BY <2>3 DEF Served, Exists
  <1> QED
    BY <1>1, <1>2 DEF WakeInv, ServedInv

\* A library without a folder covers nothing yet.
LEMMA CreateWakes ==
    ASSUME WakeInv, TypeInv, NEW k, NEW folder, CreateLibrary(k, folder)
    PROVE  WakeInv'
  <1>1. /\ libraries' = Put(libraries, NextId, [kind |-> k, folder |-> {}])
        /\ UNCHANGED <<disk, restated, files, scanState, failures, pc, todo, jobs, event, trigger, unseen, dropped>>
    BY DEF CreateLibrary, workVars, diskVars
  <1>2. NextId \notin DOMAIN libraries
    <2>1. 2 + admin \in Nat /\ DOMAIN libraries \subseteq 1 .. (2 + admin)
      BY CatalogAssumption DEF TypeInv, TypeOK, IdBound
    <2> QED
      BY <2>1, NextIdBound
  <1> DEFINE new == [kind |-> k, folder |-> {}]
  <1>3. new.folder = {}
    OBVIOUS
  <1> HIDE DEF new
  <1>4. /\ DOMAIN libraries' = DOMAIN libraries \cup {NextId} /\ libraries'[NextId] = new
        /\ \A l \in DOMAIN libraries : libraries'[l] = libraries[l]
    BY <1>1, <1>2 DEF Put, new
  <1>5. Rooted' = Rooted
    BY <1>2, <1>3, <1>4 DEF Rooted
  <1>6. Covered' = Covered
    BY <1>2, <1>4, <1>5 DEF Covered, Roots, Rooted
  <1>7. PhaseInv' /\ RecordedInv' /\ ReadableInv' /\ FreshInv'
    BY <1>1 DEF WakeInv, PhaseInv, RecordedInv, ReadableInv, FreshInv, Told
  <1>8. \A p : (Behind(p)' <=> Behind(p)) /\ (Served(p) => Served(p)')
    BY <1>1, <1>4, <1>6 DEF Behind, CaughtUp, Served, Exists
  <1>9. ServedInv'
    BY <1>1, <1>8 DEF WakeInv, ServedInv, Excused, Told
  <1> QED
    BY <1>7, <1>9 DEF WakeInv

\* A scan is asked for: it will see to what is covered; once the watch task has stopped, nothing is.
LEMMA AskWakes ==
    ASSUME WakeInv, AskForScan,
           UNCHANGED <<disk, restated, libraries, files, scanState, failures, pc, todo, jobs, event, dropped>>
    PROVE  WakeInv'
  <1>1. PhaseInv'
    BY DEF WakeInv, PhaseInv
  <1>2. CASE UNCHANGED <<trigger, unseen>>
    BY <1>1, <1>2, HandedOn DEF Told
  <1>3. CASE trigger' = TRUE
    <2>1. Told'
      BY <1>3 DEF Told
    <2> QED
      BY <1>1, <2>1, ToldStep
  <1> QED
    BY <1>2, <1>3 DEF AskForScan

LEMMA DeleteWakes ==
    ASSUME WakeInv, NEW l \in DOMAIN libraries, DeleteLibrary(l)
    PROVE  WakeInv'
  <1> DEFINE F == FilesOf(TitlesOf(l))
  <1>1. /\ libraries' = Without(libraries, {l}) /\ files' = Without(files, F) /\ dropped' = dropped \cup F
        /\ unseen' = unseen \cup Scanning(l) \cup (Covered' \ Covered)
        /\ UNCHANGED <<disk, restated, scanState, failures, pc, todo, jobs, event, trigger>>
    BY DEF DeleteLibrary, CascadeFiles, workVars, diskVars
  <1> HIDE DEF F
  <1>2. DOMAIN libraries' = DOMAIN libraries \ {l}
    BY <1>1, WithoutFacts, Zenon
  <1>3. DOMAIN files' = DOMAIN files \ F /\ \A p \in DOMAIN files \ F : files'[p] = files[p]
    BY <1>1, WithoutFacts, Zenon
  <1>4. PhaseInv' /\ ReadableInv' /\ FreshInv'
    BY <1>1 DEF WakeInv, PhaseInv, ReadableInv, FreshInv, Told
  <1>5. RecordedInv'
    BY <1>1, <1>3 DEF WakeInv, RecordedInv
  <1>6. ASSUME NEW p \in Path \ Excused', Behind(p)', ~Told'
        PROVE  Served(p)'
    <2>1. ~Told /\ p \notin Excused /\ p \in Covered /\ p \notin F /\ p \notin Scanning(l)
      BY <1>1, <1>6 DEF Behind, Told, Excused
    <2>2. Behind(p)
      BY <1>1, <1>3, <1>6, <2>1 DEF Behind, CaughtUp
    <2>3. Served(p)
      BY <1>6, <2>1, <2>2 DEF WakeInv, ServedInv
    <2>4. /\ \A e \in todo : e[2] = p => e[1].lib # l
          /\ \A j \in jobs : j.path = p => j.lib # l
      BY <2>1 DEF Scanning
    <2> QED
      BY <1>1, <1>2, <2>3, <2>4 DEF Served, Exists
  <1> QED
    BY <1>4, <1>5, <1>6 DEF WakeInv, ServedInv

LEMMA WakeStep == WakeInv /\ CurrentInv /\ TypeInv /\ [Next]_vars => WakeInv'
  <1> SUFFICES ASSUME WakeInv, CurrentInv, TypeInv, [Next]_vars PROVE WakeInv'
    OBVIOUS
  <1>1. CASE Restart
    <2>1. pc' = "down" /\ jobs' = {} /\ todo' = {} /\ UNCHANGED <<disk, restated, files, scanState, dropped>>
      BY <1>1 DEF Restart, dbVars, diskVars
    <2>2. Told' /\ PhaseInv'
      BY <2>1 DEF Told, Booting, PhaseInv
    <2> QED
      BY <2>1, <2>2, ToldStep
  <1>2. CASE \E c \in creations : AddFolder(c) \/ FolderFails(c) \/ AskScan(c) \/ RequestDropped(c)
    <2>1. PICK c \in creations : AddFolder(c) \/ FolderFails(c) \/ AskScan(c) \/ RequestDropped(c)
      BY <1>2
    <2>2. CASE AddFolder(c)
      BY <2>2, FolderWakes DEF AddFolder, workVars, diskVars
    <2>3. CASE FolderFails(c) \/ RequestDropped(c)
      <3>1. UNCHANGED <<disk, restated, libraries, files, scanState, failures, pc, todo, jobs, event, trigger, unseen,
                        dropped>>
        BY <2>3 DEF FolderFails, RequestDropped, dbVars, workVars, diskVars
      <3>2. PhaseInv' /\ (Told => Told')
        BY <3>1 DEF WakeInv, PhaseInv, Told
      <3> QED
        BY <3>1, <3>2, HandedOn
    <2>4. CASE AskScan(c)
      BY <2>4, AskWakes DEF AskScan, dbVars, workVars, diskVars
    <2> QED
      BY <2>1, <2>2, <2>3, <2>4
  <1>3. CASE ScanLibrary
    BY <1>3, AskWakes DEF ScanLibrary, dbVars, workVars, diskVars
  <1>4. CASE UNCHANGED vars
    <2>1. PhaseInv' /\ (Told => Told')
      BY <1>4 DEF vars, workVars, WakeInv, PhaseInv, Told
    <2> QED
      BY <1>4, <2>1, HandedOn DEF vars, dbVars, workVars, diskVars
  <1>5. CASE \E l \in DOMAIN libraries, folder \in Folder \cup {{}} : PatchLibrary(l, folder)
    BY <1>5, FolderWakes DEF PatchLibrary, workVars, diskVars
  <1>6. CASE AdminStep
    BY <1>2, <1>3, <1>5, <1>6, CreateWakes, DeleteWakes DEF AdminStep
  <1>7. CASE ScanStep
    BY <1>7, WorkerWakes, StartScanWakes, DiscoverWakes, FilterWakes, ProbeWakes, ClearWakes, FailureWakes, WriteWakes
       DEF ScanStep
  <1>8. CASE WorkerFault
    BY <1>8, EndWakes, SkippedWakes, GivenUpWakes, ClearWakes DEF WorkerFault, ScanFault
  <1> QED
    BY <1>1, <1>4, <1>6, <1>7, <1>8, WorkerWakes, BootWakes, DiskWakes DEF Next, WorkerStep

\* No lost wake-up: while the watch loop sleeps and its channels are empty, nothing that was told of
\* is missing from the catalog, whatever was edited, requested, restarted and went wrong during the
\* scans, but for the paths an error made the worker give up (run_scan, write_one).
THEOREM QuietAlwaysCaughtUp == Spec => []QuietMeansCaughtUp
  <1>1. Init => WakeInv
    BY DEF Init, WakeInv, PhaseInv, RecordedInv, ReadableInv, FreshInv, ServedInv, Behind
  <1>2. WakeInv => QuietMeansCaughtUp
    <2> SUFFICES ASSUME WakeInv, Quiet, NEW p \in Path \ Excused, Behind(p) PROVE FALSE
      BY DEF QuietMeansCaughtUp
    <2>1. ~Told /\ todo = {} /\ jobs = {}
      BY DEF Quiet, Told, Booting, WakeInv, PhaseInv
    <2> QED
      BY <2>1 DEF WakeInv, ServedInv, Served
  <1>3. Init => TypeInv
    BY TypeStarts
  <1> QED
    BY <1>1, <1>2, <1>3, WakeStep, CurrentStarts, CurrentStep, TypeStep, PTL DEF Spec

=============================================================================
