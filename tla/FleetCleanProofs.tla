-------------------------- MODULE FleetCleanProofs --------------------------
(***************************************************************************)
(* What a clean --write leaves: a repository whose records are those of    *)
(* what is there, that no later run of the hardener changes, and that the  *)
(* script which guards releases accepts.                                   *)
(***************************************************************************)
EXTENDS FleetProofs, FiniteSetTheorems

-----------------------------------------------------------------------------
(* The definitions of ContractFleet that speak of the directories chosen,     *)
(* for any directories c, those of the matrix too.                            *)

SharedBy(c, i) == Specs[i].runtime # "" /\ c[i] = SharedTypescript

PlaceIn(c, i) == <<c[i], IF SharedBy(c, i) THEN Specs[i].runtime ELSE "">>

ExtensionsIn(c) == {d \in ClientDirs : \A i \in Indices : ~ IsPrefix(d, c[i])}

\* The choice for one target, after the directories of c for those before it.
SelectedFor(i, c) ==
    LET dir == Preferred(Specs[i])
    IN  IF /\ Inside(dir) /\ dir \notin {c[j] : j \in 1..(i - 1)}
           /\ ~ \E j \in Indices \ {i} : Specs[j].canonical = dir
        THEN dir ELSE Specs[i].canonical

-----------------------------------------------------------------------------
(* What a run has done with the repository by each of its phases.             *)

Laid(c, i) == Parents(c[i]) \subseteq dirs /\ (HasProduct(c[i]) \/ SharedBy(c, i))

\* The manifest says what the run would write of it.
SettledIn(c) ==
    /\ \A i \in Indices : \A k \in DOMAIN Specs[i].zedAliases :
          Specs[i].zedAliases[k] \notin DOMAIN targets
    /\ LegacyRoot = {}
    /\ \A i \in Published :
          /\ Specs[i].zed \in DOMAIN targets
          /\ targets[Specs[i].zed] =
                Entry(c[i], Specs[i].adapter, targets[Specs[i].zed].native)
    /\ "repository" \in DOMAIN targets
    /\ targets["repository"] =
          Entry(<<>>, targets["repository"].adapter, targets["repository"].native)
    /\ targets = [n \in DOMAIN targets |-> targets[n]]

ManifestDone(c) == Mature \/ SettledIn(c)

StandardUpTo(n, symbols) == \A k \in 1..n : Standard[k].name \in Names(symbols)

TargetMarked(c, i) == Marked(PlaceIn(c, i), FALSE, Specs[i].name, surface)
ExtensionMarked(d) == Marked(<<d, "">>, TRUE, d[2], surface)

TargetEntries(c, n)  == {LedgerEntry(FALSE, Specs[i].name, c[i]) : i \in 1..n}
ExtensionEntries(ds) == {LedgerEntry(TRUE, d[2], d) : d \in ds}
Listed == Extensions \ Unlisted

\* All that a run records, of the directories c.
Recorded(c) ==
    /\ c \in [Indices -> Dirs]
    /\ \A i \in Indices : Laid(c, i)
    /\ ManifestDone(c)
    /\ depends # None /\ surface # None /\ surface.interfaces = depends
    /\ SchemaErrors(surface.symbols) = {}
    /\ StandardUpTo(Len(Standard), surface.symbols)
    /\ finger = surface
    /\ \A i \in Indices : TargetMarked(c, i)
    /\ \A d \in ExtensionsIn(c) : ExtensionMarked(d)
    /\ ledger = [surface |-> surface,
                 entries |-> TargetEntries(c, Len(Specs)) \union ExtensionEntries(ExtensionsIn(c))]

Marking == {"mark", "sign", "extensions"}

LaidOut ==
    /\ pc = "scaffold" =>
        /\ \A i \in 1..(at - 1) : Laid(chosen, i)
        /\ file > 0 =>
            /\ Parents(chosen[at]) \subseteq dirs
            /\ \A k \in 1..(file - 1) : IsFile(chosen[at], ScaffoldOf[Specs[at].name][k].file)
    /\ pc \in {"manifest", "matrix", "surface", "merge", "publish"} \union Recording =>
        \A i \in Indices : Laid(chosen, i)

Entered ==
    /\ pc \in {"matrix", "surface", "merge", "publish"} \union Recording => ManifestDone(chosen)
    /\ pc \in {"surface", "merge", "publish"} \union Recording => matrix = chosen

Drafted ==
    /\ pc \in {"merge", "publish"} \union Recording => depends # None /\ draft.interfaces = depends
    /\ pc = "merge" => StandardUpTo(at - 1, draft.symbols)
    /\ pc \in {"publish"} \union Recording => StandardUpTo(Len(Standard), draft.symbols)
    /\ pc \in Recording => surface = draft
    /\ pc \in Marking => finger = draft

RecordedSoFar ==
    /\ pc \notin Marking \union {"rechoose", "verify"} => entries = {}
    /\ pc \in {"mark", "sign"} =>
        /\ entries = TargetEntries(chosen, at - 1)
        /\ \A i \in 1..(at - 1) : TargetMarked(chosen, i)
    /\ pc = "sign" =>
        /\ PlaceIn(chosen, at) \in DOMAIN markers
        /\ markers[PlaceIn(chosen, at)] = Marker(FALSE, Specs[at].name, surface)
    /\ pc = "extensions" =>
        /\ entries = TargetEntries(chosen, Len(Specs)) \union ExtensionEntries(Listed)
        /\ \A i \in Indices : TargetMarked(chosen, i)
        /\ \A d \in Listed : ExtensionMarked(d)

Judged ==
    pc \in {"rechoose", "verify"} =>
        /\ mode = "write" => Recorded(matrix)
        /\ \A i \in Indices : chosen[i] # None => chosen[i] = SelectedFor(i, chosen)

Functional ==
    /\ markers = [p \in DOMAIN markers |-> markers[p]]
    /\ shas = [p \in DOMAIN shas |-> shas[p]]

Trace == LaidOut /\ Entered /\ Drafted /\ RecordedSoFar /\ Judged /\ Functional

\* What a clean --write leaves, and the choice that later runs repeat.
Clean ==
    /\ ledger # None /\ Recorded(matrix)
    /\ \A i \in Indices : matrix[i] = SelectedFor(i, matrix)

\* A run that finds a clean repository has in memory what is already there.
Replays ==
    /\ \A i \in Indices : chosen[i] # None => chosen[i] = matrix[i]
    /\ pc = "scaffold" => file = 0
    /\ pc \in {"merge", "publish"} \union Recording => draft = surface
    /\ pc # "baseline"

Trusted == trust = "written" => Clean /\ Replays
-----------------------------------------------------------------------------
(* Every step keeps the trace: first, steps that end a run or are of none.    *)

LEMMA FunctionalKept ==
    ASSUME Functional, UNCHANGED <<markers, shas>>
    PROVE  Functional'
BY DEF Functional

LEMMA AtRest ==
    ASSUME Trace, Functional', pc' \in {"idle", "baseline", "choose"}, entries' = {}
    PROVE  Trace'
BY DEF Trace, LaidOut, Entered, Drafted, RecordedSoFar, Judged, Recording, Marking

LEMMA NothingListed ==
    ASSUME Trace, pc \in {"idle", "baseline", "choose", "scaffold", "manifest", "matrix",
                          "surface", "merge", "publish", "finger"}
    PROVE  entries = {}
BY DEF Trace, RecordedSoFar, Marking

LEMMA MovedIsFunction ==
    ASSUME NEW f, NEW from, NEW to
    PROVE  Moved(f, from, to) = [p \in DOMAIN Moved(f, from, to) |-> Moved(f, from, to)[p]]
BY DEF Moved

LEMMA DevelopersTrace == Trace /\ Developers => Trace'
<1> SUFFICES ASSUME Trace, Developers PROVE Trace'
  OBVIOUS
<1>1. pc' = "idle" /\ entries' = {}
  BY NothingListed DEF Developers, WriteFile, DeclareTarget, Depend, EditSurface, MoveDirectory,
                       Edited, run
<1>2. CASE MoveDirectory
  <2>1. PICK m : markers' = Moved(markers, m[1], m[2]) /\ shas' = Moved(shas, m[1], m[2])
    BY <1>2 DEF MoveDirectory
  <2>2. Functional'
    BY <2>1, MovedIsFunction DEF Functional
  <2> QED  BY <1>1, <2>2, AtRest
<1>3. CASE ~ MoveDirectory
  <2>1. Functional'
    BY <1>3, FunctionalKept DEF Trace, Developers, WriteFile, DeclareTarget, Depend, EditSurface,
                                Edited, contract
  <2> QED  BY <1>1, <2>1, AtRest
<1> QED  BY <1>2, <1>3

LEMMA StandardizerTrace == Trace /\ (Standardize \/ BaselineFile) => Trace'
<1> SUFFICES ASSUME Trace, Standardize \/ BaselineFile PROVE Trace'
  OBVIOUS
<1>1. pc' \in {"idle", "baseline"} /\ entries' = {} /\ UNCHANGED <<markers, shas>>
  BY NothingListed DEF Standardize, BaselineFile, NextTarget, contract
<1> QED  BY <1>1, AtRest, FunctionalKept DEF Trace

LEMMA EndTrace ==
    ASSUME Trace, pc' = "idle", Clear, UNCHANGED <<markers, shas>>
    PROVE  Trace'
BY AtRest, FunctionalKept DEF Clear, Trace

LEMMA StartTrace ==
    ASSUME Core, Trace, NEW m \in {"write", "check"}, Start(m)
    PROVE  Trace'
<1>1. entries' = {} /\ UNCHANGED <<markers, shas>> /\ \A i \in Indices : chosen'[i] = None
  BY NothingListed DEF Start, contract, Core, RunInv, ChosenSoFar, Unchosen
<1>2. CASE m = "write"
  BY <1>1, <1>2, AtRest, FunctionalKept DEF Start, Trace
<1>3. CASE m = "check"
  BY <1>1, <1>3, FunctionalKept
     DEF Start, Trace, LaidOut, Entered, Drafted, RecordedSoFar, Judged, Recording, Marking
<1> QED  BY <1>2, <1>3

-----------------------------------------------------------------------------
(* The tables.                                                                *)

LEMMA SpecIsStandard == ASSUME NEW i \in Indices PROVE Specs[i] \in Fleet
BY FleetAssumption DEF Indices

LEMMA TargetsAreListed == DOMAIN TARGETS \subseteq Nat
BY DEF TARGETS

LEMMA ScaffoldIs ==
    ASSUME NEW i \in Indices
    PROVE  /\ ScaffoldOf[Specs[i].name] \in Seq([file : STRING, how : {"missing", "generated"}])
           /\ \E k \in DOMAIN ScaffoldOf[Specs[i].name] :
                 ScaffoldOf[Specs[i].name][k].file \notin MetadataFiles
BY SpecIsStandard, ScaffoldsHaveSource

-----------------------------------------------------------------------------
(* The choice of the directories.                                             *)

LEMMA SelectedIs == ASSUME at \in Indices PROVE Selected = SelectedFor(at, chosen)
BY DEF Selected, SelectedFor, Claimed, ReservedForAnother

LEMMA SelectedAgrees ==
    ASSUME NEW i \in Indices, NEW c, NEW e, \A j \in 1..(i - 1) : c[j] = e[j]
    PROVE  SelectedFor(i, c) = SelectedFor(i, e)
<1>1. {c[j] : j \in 1..(i - 1)} = {e[j] : j \in 1..(i - 1)}
  OBVIOUS
<1> QED  BY <1>1, Zenon DEF SelectedFor

LEMMA PreferredKept ==
    ASSUME UNCHANGED work, NEW spec
    PROVE  Preferred(spec)' = Preferred(spec)
BY DEF work, Preferred, SharesRuntime, IsFile, Exists, Some, First

LEMMA SelectedKept ==
    ASSUME UNCHANGED work, NEW i, NEW c
    PROVE  SelectedFor(i, c)' = SelectedFor(i, c)
BY PreferredKept DEF SelectedFor

\* Nothing that is recorded changes as long as neither the work nor the contract does.
LEMMA ClientsKept ==
    ASSUME UNCHANGED <<work, contract>>, NEW c
    PROVE  /\ \A i : Laid(c, i)' = Laid(c, i) /\ TargetMarked(c, i)' = TargetMarked(c, i)
           /\ \A d : ExtensionMarked(d)' = ExtensionMarked(d)
           /\ ExtensionsIn(c)' = ExtensionsIn(c) /\ Mature' = Mature
           /\ \A e, t, d : LedgerEntry(e, t, d)' = LedgerEntry(e, t, d)
BY DEF work, contract, Laid, HasProduct, TargetMarked, ExtensionMarked, Marked, ExtensionsIn,
       ClientDirs, LedgerEntry, Evidence, Mature, SafeDirs, DeclaredDirs

LEMMA SettledKept ==
    ASSUME UNCHANGED targets, NEW c
    PROVE  SettledIn(c)' = SettledIn(c)
BY DEF SettledIn, LegacyRoot

LEMMA RecordedKept ==
    ASSUME UNCHANGED <<work, contract>>, NEW c
    PROVE  Recorded(c)' = Recorded(c)
<1>1. ManifestDone(c)' = ManifestDone(c)
  BY ClientsKept, SettledKept DEF ManifestDone, work
<1>2. (TargetEntries(c, Len(Specs)) \union ExtensionEntries(ExtensionsIn(c)))'
        = TargetEntries(c, Len(Specs)) \union ExtensionEntries(ExtensionsIn(c))
  BY DEF TargetEntries, ExtensionEntries, LedgerEntry, Evidence, ExtensionsIn, ClientDirs, work
<1> QED  BY <1>1, <1>2, ClientsKept DEF Recorded, work, contract, StandardUpTo

LEMMA ChooseDirTrace == Core /\ Trace /\ ChooseDir => Trace'
<1> SUFFICES ASSUME Core, Trace, ChooseDir PROVE Trace'
  OBVIOUS
<1>1. /\ at \in Indices /\ chosen \in [Indices -> Dirs \union {None}] /\ file = 0
      /\ \A i \in Indices : chosen[i] # None <=> i < at
      /\ UNCHANGED <<work, contract>>
  BY DEF ChooseDir, Core, TypeOK, PerTarget, RunInv, ChosenSoFar
<1>2. Functional'
  BY <1>1, FunctionalKept DEF Trace, contract
<1>3. CASE Selected \in Claimed
  BY <1>1, <1>3, EndTrace DEF ChooseDir, Raise, contract
<1>4. CASE Selected \notin Claimed /\ pc = "choose"
  <2>a. entries' = {} /\ file' = 0 /\ NextTarget("choose", "scaffold")
    BY <1>1, <1>4, NothingListed DEF ChooseDir
  <2>1. entries' = {} /\ file' = 0 /\ (pc' = "choose" \/ (pc' = "scaffold" /\ at' = 1))
    BY <2>a DEF NextTarget
  <2>2. CASE pc' = "choose"
    BY <1>2, <2>1, <2>2, AtRest
  <2>3. CASE pc' = "scaffold" /\ at' = 1
    BY <1>2, <2>1, <2>3
       DEF Trace, LaidOut, Entered, Drafted, RecordedSoFar, Judged, Recording, Marking
  <2> QED  BY <2>1, <2>2, <2>3
<1>5. CASE Selected \notin Claimed /\ pc = "rechoose"
  <2>1. /\ pc' \in {"rechoose", "verify"} /\ mode' = mode /\ UNCHANGED matrix
        /\ chosen' = [chosen EXCEPT ![at] = Selected]
    BY <1>1, <1>5, NextTargetIs DEF ChooseDir, Step, contract
  <2>2. mode' = "write" => Recorded(matrix)'
    BY <1>1, <1>5, <2>1, RecordedKept DEF Trace, Judged
  <2>3. ASSUME NEW i \in Indices, chosen'[i] # None PROVE chosen'[i] = SelectedFor(i, chosen')
    <3>1. i <= at /\ chosen'[i] = SelectedFor(i, chosen)
      BY <1>1, <1>5, <2>1, <2>3, SelectedIs DEF Trace, Judged, Indices
    <3>2. \A j \in 1..(i - 1) : chosen'[j] = chosen[j]
      BY <1>1, <2>1, <3>1 DEF Indices
    <3> QED  BY <3>1, <3>2, SelectedAgrees
  <2>4. \A i \in Indices : chosen'[i] # None => chosen'[i] = SelectedFor(i, chosen)'
    BY <1>1, <2>3, SelectedKept
  <2> QED  BY <1>2, <2>1, <2>2, <2>4
           DEF Trace, LaidOut, Entered, Drafted, RecordedSoFar, Judged, Recording, Marking
<1> QED  BY <1>3, <1>4, <1>5 DEF ChooseDir

-----------------------------------------------------------------------------
(* The layout.                                                                *)

\* A target that is laid out stays so as the repository grows.
LEMMA LaidGrows ==
    ASSUME dirs \subseteq dirs', DOMAIN files \subseteq DOMAIN files', NEW c, NEW i
    PROVE  Laid(c, i) => Laid(c, i)'
BY DEF Laid, HasProduct, SharedBy

\* The next target of a scaffold, or the next phase, when this one is laid out.
LEMMA TargetLaid ==
    ASSUME Core, Trace, pc = "scaffold", dirs \subseteq dirs', DOMAIN files \subseteq DOMAIN files',
           UNCHANGED <<chosen, entries, contract>>, file' = 0, NextTarget("scaffold", "manifest"),
           NEW j \in Indices, j = at, Laid(chosen, j)'
    PROVE  Trace'
<1>1. at \in Indices /\ entries = {} /\ \A i \in 1..(at - 1) : Laid(chosen, i)
  BY NothingListed DEF Core, TypeOK, PerTarget, Trace, LaidOut
<1>2. \A i \in 1..at : Laid(chosen, i)'
  BY <1>1, LaidGrows DEF Indices
<1>3. \/ pc' = "manifest" /\ at = Len(Specs)
      \/ pc' = "scaffold" /\ at' = at + 1
  BY <1>1, NextTargetIs
<1>4. LaidOut'
  BY <1>1, <1>2, <1>3 DEF LaidOut, Indices, Recording
<1>5. Functional'
  BY FunctionalKept DEF Trace, contract
<1> QED  BY <1>1, <1>3, <1>4, <1>5
         DEF Trace, Entered, Drafted, RecordedSoFar, Judged, Recording, Marking

LEMMA EnterTargetTrace == Core /\ Trace /\ EnterTarget => Trace'
<1> SUFFICES ASSUME Core, Trace, EnterTarget PROVE Trace'
  OBVIOUS
<1>1. /\ at \in Indices /\ pc = "scaffold" /\ file = 0 /\ entries = {}
      /\ dirs' = dirs \union Parents(chosen[at])
      /\ UNCHANGED <<files, chosen, entries, contract>>
  BY NothingListed DEF EnterTarget, Core, TypeOK, PerTarget
<1>2. CASE HasProduct(chosen[at]) \/ InSharedTypescript(at)
  <2>1. NextTarget("scaffold", "manifest") /\ file' = 0
    BY <1>1, <1>2 DEF EnterTarget
  <2>2. PICK j \in Indices : j = at
    BY <1>1
  <2>3. Laid(chosen, j)'
    BY <1>1, <1>2, <2>2 DEF Laid, SharedBy, InSharedTypescript, HasProduct
  <2> QED  BY <1>1, <2>1, <2>2, <2>3, TargetLaid
<1>3. CASE ~ (HasProduct(chosen[at]) \/ InSharedTypescript(at))
  <2>1. pc' = "scaffold" /\ file' = 1 /\ at' = at
    BY <1>1, <1>3 DEF EnterTarget
  <2>2. \A i \in 1..(at - 1) : Laid(chosen, i)'
    BY <1>1, LaidGrows DEF Trace, LaidOut
  <2>3. LaidOut'
    BY <1>1, <2>1, <2>2 DEF LaidOut, Recording
  <2> QED  BY <1>1, <2>1, <2>3, FunctionalKept
           DEF Trace, Entered, Drafted, RecordedSoFar, Judged, Recording, Marking, contract
<1> QED  BY <1>2, <1>3

LEMMA ScaffoldFileTrace == Core /\ Trace /\ ScaffoldFile => Trace'
<1> SUFFICES ASSUME Core, Trace, ScaffoldFile PROVE Trace'
  OBVIOUS
<1> DEFINE rows == ScaffoldOf[Specs[at].name]
           key  == <<chosen[at], rows[file].file>>
<1>1. /\ at \in Indices /\ pc = "scaffold" /\ file \in Nat /\ file > 0 /\ entries = {}
      /\ UNCHANGED <<dirs, chosen, entries, contract>>
      /\ Parents(chosen[at]) \subseteq dirs
      /\ \A k \in 1..(file - 1) : IsFile(chosen[at], rows[k].file)
  BY NothingListed DEF ScaffoldFile, Core, TypeOK, PerTarget, Trace, LaidOut
<1>2. key \in DOMAIN files' /\ DOMAIN files \subseteq DOMAIN files'
  <2>1. (files' = files /\ key \in DOMAIN files) \/ files' = Put(files, key, "template")
    BY DEF ScaffoldFile
  <2> HIDE DEF key
  <2> QED  BY <2>1 DEF Put
<1>3. \A k \in 1..file : <<chosen[at], rows[k].file>> \in DOMAIN files'
  BY <1>1, <1>2 DEF IsFile
<1>4. CASE file < Len(rows)
  <2>1. pc' = "scaffold" /\ file' = file + 1 /\ at' = at
    BY <1>1, <1>4 DEF ScaffoldFile
  <2>2. \A i \in 1..(at - 1) : Laid(chosen, i)'
    BY <1>1, <1>2, LaidGrows DEF Trace, LaidOut
  <2>3. LaidOut'
    BY <1>1, <1>3, <2>1, <2>2 DEF LaidOut, IsFile, Recording
  <2> QED  BY <1>1, <2>1, <2>3, FunctionalKept
           DEF Trace, Entered, Drafted, RecordedSoFar, Judged, Recording, Marking, contract
<1>5. CASE ~ (file < Len(rows))
  <2>1. NextTarget("scaffold", "manifest") /\ file' = 0
    BY <1>1, <1>5 DEF ScaffoldFile
  <2>2. PICK k \in DOMAIN rows : rows[k].file \notin MetadataFiles
    BY <1>1, ScaffoldIs
  <2>3. k \in 1..file
    BY <1>1, <1>5, ScaffoldIs
  <2>4. PICK j \in Indices : j = at
    BY <1>1
  <2>5. Laid(chosen, j)'
    BY <1>1, <1>3, <2>2, <2>3, <2>4 DEF Laid, HasProduct
  <2> QED  BY <1>1, <1>2, <2>1, <2>4, <2>5, TargetLaid
<1> QED  BY <1>4, <1>5

-----------------------------------------------------------------------------
(* The manifest.                                                              *)

LEMMA PublishedIs ==
    ASSUME NEW i \in Published, NEW j \in Published, Specs[i].zed = Specs[j].zed
    PROVE  i = j
<1>1. i \in Indices /\ j \in Indices /\ Specs[i].publish /\ Specs[j].publish
  BY DEF Published
<1>2. ASSUME NEW k \in Indices, NEW l \in Indices, k < l, Specs[k].publish, Specs[l].publish
      PROVE  Specs[k].zed # Specs[l].zed
  <2>1. PICK m, n \in DOMAIN TARGETS : m < n /\ Specs[k] = TARGETS[m] /\ Specs[l] = TARGETS[n]
    BY <1>2, FleetAssumption
  <2>2. m # n
    BY <2>1, TargetsAreListed
  <2> QED  BY <1>2, <2>1, <2>2, TargetsDiffer
<1> QED  BY <1>1, <1>2 DEF Indices

LEMMA PublishedZed ==
    ASSUME NEW i \in Published
    PROVE  /\ Specs[i].zed \notin {"repository", "contract"}
           /\ \A j \in Indices : \A k \in DOMAIN Specs[j].zedAliases :
                 /\ Specs[j].zedAliases[k] # Specs[i].zed
                 /\ Specs[j].zedAliases[k] \notin {"repository", "contract"}
<1>1. i \in Indices /\ Specs[i].publish /\ Specs[i] \in Fleet
  BY SpecIsStandard DEF Published
<1>2. PICK m \in DOMAIN TARGETS : Specs[i] = TARGETS[m]
  BY <1>1 DEF Fleet
<1>3. Specs[i].zed \notin {"repository", "contract"}
  BY <1>2, TargetsDiffer
<1>4. ASSUME NEW j \in Indices, NEW k \in DOMAIN Specs[j].zedAliases
      PROVE  /\ Specs[j].zedAliases[k] # Specs[i].zed
             /\ Specs[j].zedAliases[k] \notin {"repository", "contract"}
  <2>1. PICK n \in DOMAIN TARGETS : Specs[j] = TARGETS[n]
    BY SpecIsStandard DEF Fleet
  <2> QED  BY <1>1, <1>2, <2>1, SpecIsStandard, TargetsDiffer, OlderNamesDiffer
<1> QED  BY <1>3, <1>4

\* The older names are no other's, nor the repository's.
LEMMA RetiredIs ==
    /\ LegacyRoot \subseteq {"contract"}
    /\ "repository" \notin Retired
    /\ \A i \in Published : Specs[i].zed \notin Retired
<1>1. LegacyRoot \subseteq {"contract"}
  BY DEF LegacyRoot
<1>2. ASSUME NEW j \in Indices PROVE "repository" \notin Range(Specs[j].zedAliases)
  BY SpecIsStandard, OlderNamesDiffer DEF Range
<1>3. ASSUME NEW i \in Published PROVE Specs[i].zed \notin Retired
  BY <1>1, PublishedZed DEF Retired, Range
<1> QED  BY <1>1, <1>2, <1>3 DEF Retired

\* The entries that the rewriting writes.
LEMMA RewrittenIs ==
    /\ DOMAIN Rewritten = (DOMAIN targets \ Retired) \union {Specs[i].zed : i \in Published}
                          \union {"repository"}
    /\ Rewritten["repository"] = RepositoryEntry
    /\ \A i \in Published : Rewritten[Specs[i].zed] = TargetEntry(i)
    /\ \A n \in DOMAIN targets \ Retired :
          n # "repository" /\ n \notin {Specs[i].zed : i \in Published} => Rewritten[n] = targets[n]
    /\ Rewritten = [n \in DOMAIN Rewritten |-> Rewritten[n]]
<1> DEFINE zeds == {Specs[i].zed : i \in Published}
           new(n) == IF n = "repository" THEN RepositoryEntry
                     ELSE IF n \in zeds THEN TargetEntry(CHOOSE i \in Published : Specs[i].zed = n)
                     ELSE targets[n]
<1>1. Rewritten = [n \in ((DOMAIN targets \ Retired) \union zeds \union {"repository"}) |-> new(n)]
  BY DEF Rewritten
<1>2. ASSUME NEW i \in Published PROVE new(Specs[i].zed) = TargetEntry(i)
  <2>1. Specs[i].zed \in zeds /\ Specs[i].zed # "repository"
    BY PublishedZed
  <2>2. (CHOOSE j \in Published : Specs[j].zed = Specs[i].zed) = i
    BY PublishedIs
  <2> QED  BY <2>1, <2>2
<1>3. new("repository") = RepositoryEntry
  OBVIOUS
<1>4. \A n : n # "repository" /\ n \notin zeds => new(n) = targets[n]
  OBVIOUS
<1> HIDE DEF new
<1> QED  BY <1>1, <1>2, <1>3, <1>4

\* What the first name says of the native metadata counts, if it says anything.
LEMMA NativeOfFirst ==
    ASSUME NEW names, Len(names) \in Nat \ {0}, DOMAIN names = 1..Len(names),
           names[1] \in DOMAIN targets, targets[names[1]].native # None
    PROVE  NativeOf(names) = targets[names[1]].native
BY DEF NativeOf, Some, First

LEMMA NativeOfOnly ==
    ASSUME NEW names, Len(names) \in Nat \ {0}, DOMAIN names = 1..Len(names),
           names[1] \in DOMAIN targets,
           \A k \in 2..Len(names) : names[k] \notin DOMAIN targets
    PROVE  NativeOf(names) = targets[names[1]].native
<1>1. CASE targets[names[1]].native # None
  BY <1>1, NativeOfFirst
<1>2. CASE targets[names[1]].native = None
  <2>1. {i \in 1..Len(names) : names[i] \in DOMAIN targets /\ targets[names[i]].native # None} = {}
    BY <1>2
  <2> QED  BY <1>2, <2>1 DEF NativeOf, Some, First
<1> QED  BY <1>1, <1>2

LEMMA DeclaredNamesAre ==
    ASSUME NEW i \in Published
    PROVE  /\ Len(DeclaredNames(Specs[i])) \in Nat \ {0}
           /\ DOMAIN DeclaredNames(Specs[i]) = 1..Len(DeclaredNames(Specs[i]))
           /\ DeclaredNames(Specs[i])[1] = Specs[i].zed
           /\ \A k \in 2..Len(DeclaredNames(Specs[i])) :
                 /\ k - 1 \in DOMAIN Specs[i].zedAliases
                 /\ DeclaredNames(Specs[i])[k] = Specs[i].zedAliases[k - 1]
<1>1. /\ Specs[i].zed \in STRING /\ Specs[i].zedAliases \in Seq(STRING)
      /\ DeclaredNames(Specs[i]) = <<Specs[i].zed>> \o Specs[i].zedAliases
  BY SpecIsStandard, OlderNamesDiffer DEF DeclaredNames, Published
<1>2. ASSUME NEW first \in STRING, NEW others \in Seq(STRING)
      PROVE  LET all == <<first>> \o others
             IN  /\ Len(all) \in Nat \ {0} /\ all[1] = first
                 /\ \A k \in 2..Len(all) : k - 1 \in DOMAIN others /\ all[k] = others[k - 1]
  OBVIOUS
<1> QED  BY <1>1, <1>2

LEMMA RewrittenSettles ==
    ASSUME targets' = Rewritten, UNCHANGED chosen
    PROVE  SettledIn(chosen)'
<1>1. ASSUME NEW i \in Indices, NEW k \in DOMAIN Specs[i].zedAliases
      PROVE  Specs[i].zedAliases[k] \notin DOMAIN targets'
  <2>1. Specs[i].zedAliases[k] \in Retired
    BY DEF Retired, Range
  <2>2. /\ Specs[i].zedAliases[k] # "repository"
        /\ Specs[i].zedAliases[k] \notin {Specs[j].zed : j \in Published}
    BY PublishedZed, SpecIsStandard, OlderNamesDiffer
  <2> QED  BY <2>1, <2>2, RewrittenIs
<1>2. LegacyRoot' = {}
  <2>1. ASSUME "contract" \in DOMAIN targets' PROVE targets'["contract"].dir # <<>>
    <3>1. "contract" \notin {Specs[j].zed : j \in Published}
      BY PublishedZed
    <3>2. "contract" \in DOMAIN targets \ Retired /\ targets'["contract"] = targets["contract"]
      BY <2>1, <3>1, RewrittenIs
    <3> QED  BY <3>2 DEF Retired, LegacyRoot
  <2> QED  BY <2>1 DEF LegacyRoot
<1>3. ASSUME NEW i \in Published
      PROVE  /\ Specs[i].zed \in DOMAIN targets'
             /\ targets'[Specs[i].zed] =
                   Entry(chosen'[i], Specs[i].adapter, targets'[Specs[i].zed].native)
  <2>1. Specs[i].zed \in DOMAIN targets' /\ targets'[Specs[i].zed] = TargetEntry(i)
    BY RewrittenIs
  <2>2. TargetEntry(i) = Entry(chosen[i], Specs[i].adapter, TargetEntry(i).native)
    BY DEF TargetEntry, Entry
  <2> QED  BY <2>1, <2>2
<1>4. /\ "repository" \in DOMAIN targets'
      /\ targets'["repository"] =
            Entry(<<>>, targets'["repository"].adapter, targets'["repository"].native)
  BY RewrittenIs DEF RepositoryEntry, Entry
<1>5. targets' = [n \in DOMAIN targets' |-> targets'[n]]
  BY RewrittenIs
<1> QED  BY <1>1, <1>2, <1>3, <1>4, <1>5 DEF SettledIn

\* A manifest that is settled is rewritten to itself.
LEMMA SettledStays ==
    ASSUME NEW c, SettledIn(c), \A i \in Published : chosen[i] = c[i]
    PROVE  Rewritten = targets
<1>1. DOMAIN targets \intersect Retired = {}
  BY DEF SettledIn, Retired, Range
<1>2. DOMAIN Rewritten = DOMAIN targets
  BY <1>1, RewrittenIs DEF SettledIn
<1>3. Rewritten["repository"] = targets["repository"]
  <2>1. NativeOf(<<"repository">>) = targets["repository"].native
    <3> DEFINE names == <<"repository">>
    <3>1. names[1] = "repository" /\ Len(names) = 1
      OBVIOUS
    <3>2. "repository" \in DOMAIN targets
      BY DEF SettledIn
    <3> HIDE DEF names
    <3>3. NativeOf(names) = targets[names[1]].native
      BY <3>1, <3>2, NativeOfOnly
    <3> QED  BY <3>1, <3>3 DEF names
  <2>2. Rewritten["repository"] =
           Entry(<<>>, targets["repository"].adapter, NativeOf(<<"repository">>))
    BY RewrittenIs DEF SettledIn, RepositoryEntry
  <2> QED  BY <2>1, <2>2 DEF SettledIn
<1>4. ASSUME NEW i \in Published PROVE Rewritten[Specs[i].zed] = targets[Specs[i].zed]
  <2>1. NativeOf(DeclaredNames(Specs[i])) = targets[Specs[i].zed].native
    <3> DEFINE names == DeclaredNames(Specs[i])
    <3>1. names[1] \in DOMAIN targets /\ i \in Indices
      BY DeclaredNamesAre DEF SettledIn, Published
    <3>2. \A k \in 2..Len(names) : names[k] \notin DOMAIN targets
      BY <3>1, DeclaredNamesAre DEF SettledIn
    <3> HIDE DEF names
    <3>3. NativeOf(names) = targets[names[1]].native
      BY <3>1, <3>2, DeclaredNamesAre, NativeOfOnly DEF names
    <3> QED  BY <3>3, DeclaredNamesAre DEF names
  <2> QED  BY <2>1, RewrittenIs DEF SettledIn, TargetEntry
<1>5. ASSUME NEW n \in DOMAIN targets PROVE Rewritten[n] = targets[n]
  BY <1>1, <1>3, <1>4, RewrittenIs
<1>6. Rewritten = [n \in DOMAIN targets |-> targets[n]]
  BY <1>2, <1>5, RewrittenIs
<1> QED  BY <1>6 DEF SettledIn

-----------------------------------------------------------------------------
(* The phases that follow the layout.                                         *)

Later == {"manifest", "matrix", "surface", "merge", "publish"} \union Recording

\* Nothing lays anything out any more, nor changes its mind about a directory.
LEMMA LayoutKept ==
    ASSUME Trace, pc \in Later, pc' \in Later, UNCHANGED <<dirs, files, chosen>>
    PROVE  LaidOut'
<1>1. \A i \in Indices : Laid(chosen, i)'
  BY LaidGrows DEF Trace, LaidOut, Later
<1> QED  BY <1>1 DEF LaidOut, Later, Recording

LEMMA EnteredKept ==
    ASSUME Trace, pc \in Later \ {"manifest", "matrix"}, pc' \in Later,
           UNCHANGED <<targets, chosen, matrix>>
    PROVE  Entered'
<1>1. ManifestDone(chosen)' /\ matrix' = chosen'
  <2>1. ManifestDone(chosen) /\ matrix = chosen
    BY DEF Trace, Entered, Later
  <2>2. Mature' = Mature
    BY DEF Mature, SafeDirs, DeclaredDirs
  <2> QED  BY <2>1, <2>2, SettledKept DEF ManifestDone
<1> QED  BY <1>1 DEF Entered

LEMMA NotJudged == ASSUME pc' \in Later PROVE Judged'
BY DEF Judged, Later, Recording

LEMMA EnsureManifestTrace == Core /\ Trace /\ EnsureManifest => Trace'
<1> SUFFICES ASSUME Core, Trace, EnsureManifest PROVE Trace'
  OBVIOUS
<1>1. /\ pc = "manifest" /\ pc' = "matrix" /\ entries' = {}
      /\ UNCHANGED <<dirs, files, chosen, markers, shas>>
  BY NothingListed DEF EnsureManifest, contract
<1>2. ManifestDone(chosen)'
  <2>1. CASE Mature
    BY <2>1 DEF EnsureManifest, ManifestDone, Mature, SafeDirs, DeclaredDirs
  <2>2. CASE ~ Mature
    BY <1>1, <2>2, RewrittenSettles DEF EnsureManifest, ManifestDone
  <2> QED  BY <2>1, <2>2
<1>3. Entered'
  BY <1>1, <1>2 DEF Entered, Recording
<1> QED  BY <1>1, <1>3, LayoutKept, NotJudged, FunctionalKept
         DEF Trace, Drafted, RecordedSoFar, Marking, Recording, Later

LEMMA EnsureMatrixTrace == Core /\ Trace /\ EnsureMatrix => Trace'
<1> SUFFICES ASSUME Core, Trace, EnsureMatrix PROVE Trace'
  OBVIOUS
<1>1. /\ pc = "matrix" /\ pc' = "surface" /\ entries' = {} /\ matrix' = chosen'
      /\ UNCHANGED <<dirs, files, targets, chosen, markers, shas>>
  BY NothingListed DEF EnsureMatrix, work
<1>2. ManifestDone(chosen)'
  <2>1. Mature' = Mature
    BY <1>1 DEF Mature, SafeDirs, DeclaredDirs
  <2> QED  BY <1>1, <2>1, SettledKept DEF Trace, Entered, ManifestDone
<1>3. Entered'
  BY <1>1, <1>2 DEF Entered
<1> QED  BY <1>1, <1>3, LayoutKept, NotJudged, FunctionalKept
         DEF Trace, Drafted, RecordedSoFar, Marking, Recording, Later

LEMMA WithSymbolNames ==
    ASSUME NEW surf \in Seq(Symbol), NEW s \in Symbol
    PROVE  Names(WithSymbol(surf, s)) = Names(surf) \union {s.name}
<1>1. CASE s.name \in Names(surf)
  BY <1>1 DEF WithSymbol
<1>2. CASE s.name \notin Names(surf)
  <2> DEFINE more == Append(surf, s)
  <2>1. /\ DOMAIN more = DOMAIN surf \union {Len(surf) + 1} /\ more[Len(surf) + 1] = s
        /\ \A i \in DOMAIN surf : more[i] = surf[i]
    OBVIOUS
  <2>2. WithSymbol(surf, s) = more
    BY <1>2 DEF WithSymbol
  <2> HIDE DEF more
  <2> QED  BY <2>1, <2>2 DEF Names
<1> QED  BY <1>1, <1>2

\* What the schema accepts is complete: enriching changes nothing of it.
LEMMA CompleteAlready ==
    ASSUME NEW surf \in Seq(Symbol), SchemaErrors(surf) = {}
    PROVE  Enriched(surf) = surf
<1>1. \A i \in DOMAIN surf : surf[i] \in Symbol /\ ~ Incomplete(surf[i]) /\ i \in Nat
  BY DEF SchemaErrors
<1>2. ASSUME NEW i \in DOMAIN surf PROVE EnrichedSymbol(i, surf[i]) = surf[i]
  <2> DEFINE s == surf[i]
  <2>1. s \in Symbol /\ i \in Nat /\ s.id # None /\ s.stability # None
        /\ ~ (s.behavior = None /\ s.async # None)
    BY <1>1 DEF Incomplete
  <2>2. s = [f \in Fields |-> s[f]]
    BY <2>1 DEF Symbol, Fields
  <2> HIDE DEF s
  <2>3. \A f \in Fields : FilledIn(i, s, f) = s[f]
    BY <2>1 DEF FilledIn
  <2>4. EnrichedSymbol(i, s) = [f \in Fields |-> FilledIn(i, s, f)]
    BY <2>1, EnrichedFields
  <2>5. EnrichedSymbol(i, s) = s
    BY <2>2, <2>3, <2>4
  <2> QED  BY <2>5 DEF s
<1>3. surf = [i \in DOMAIN surf |-> surf[i]]
  OBVIOUS
<1> QED  BY <1>2, <1>3 DEF Enriched

LEMMA EnrichedNames ==
    ASSUME NEW surf \in Seq(Symbol)
    PROVE  Names(Enriched(surf)) = Names(surf)
<1>1. \A i \in DOMAIN surf : EnrichedSymbol(i, surf[i]).name = surf[i].name
  BY EnrichedFields DEF Fields, FilledIn
<1> QED  BY <1>1 DEF Names, Enriched

LEMMA LoadSurfaceTrace == Core /\ Trace /\ LoadSurface => Trace'
<1> SUFFICES ASSUME Core, Trace, LoadSurface PROVE Trace'
  OBVIOUS
<1>1. pc = "surface" /\ UNCHANGED <<work, contract>> /\ at = 1
  BY DEF LoadSurface, Core, TypeOK, PerTarget
<1>2. CASE depends = None
  BY <1>1, <1>2, EndTrace DEF LoadSurface, Raise, contract
<1>3. CASE depends # None
  <2>1. /\ draft' = [interfaces |-> depends,
                     symbols |-> IF surface = None THEN Standard ELSE surface.symbols]
        /\ pc' = IF surface = None THEN "publish" ELSE "merge"
        /\ UNCHANGED <<at, chosen, entries>> /\ entries = {}
    BY <1>1, <1>3, NothingListed DEF LoadSurface
  <2>2. Drafted'
    BY <1>1, <1>3, <2>1, FleetAssumption DEF Drafted, StandardUpTo, Names, Recording, Marking, work
  <2> QED  BY <1>1, <2>1, <2>2, LayoutKept, EnteredKept, NotJudged, FunctionalKept
           DEF Trace, RecordedSoFar, Marking, Recording, Later, work, contract
<1> QED  BY <1>2, <1>3

LEMMA MergeSymbolTrace == Core /\ Trace /\ MergeSymbol => Trace'
<1> SUFFICES ASSUME Core, Trace, MergeSymbol PROVE Trace'
  OBVIOUS
<1>1. /\ pc = "merge" /\ at \in DOMAIN Standard /\ Standard[at] \in Symbol /\ entries = {}
      /\ draft \in Surface(Versions) /\ UNCHANGED <<work, contract, chosen, entries>>
  BY NothingListed, FleetAssumption
     DEF MergeSymbol, Core, TypeOK, PerTarget, RunInv, DraftIsReady
<1>2. draft' = [draft EXCEPT !.symbols = WithSymbol(draft.symbols, Standard[at])]
  BY DEF MergeSymbol
<1>3. /\ draft'.interfaces = draft.interfaces
      /\ Names(draft'.symbols) = Names(draft.symbols) \union {Standard[at].name}
  BY <1>1, <1>2, WithSymbolNames DEF Surface
<1>4. \A k \in 1..at : Standard[k].name \in Names(draft'.symbols)
  BY <1>1, <1>3, FleetAssumption DEF Trace, Drafted, StandardUpTo
<1>5. \/ at = Len(Standard) /\ at' = 1 /\ pc' = "publish"
      \/ at # Len(Standard) /\ at' = at + 1 /\ pc' = "merge"
  BY DEF MergeSymbol
<1>6. Drafted'
  BY <1>1, <1>3, <1>4, <1>5, FleetAssumption
     DEF Trace, Drafted, StandardUpTo, Recording, Marking, work
<1> QED  BY <1>1, <1>5, <1>6, LayoutKept, EnteredKept, NotJudged, FunctionalKept
         DEF Trace, RecordedSoFar, Marking, Recording, Later, work, contract

LEMMA PublishSurfaceTrace == Core /\ Trace /\ PublishSurface => Trace'
<1> SUFFICES ASSUME Core, Trace, PublishSurface PROVE Trace'
  OBVIOUS
<1>1. /\ pc = "publish" /\ entries = {} /\ draft \in Surface(Versions)
      /\ UNCHANGED <<dirs, files, targets, depends, contract>>
  BY NothingListed DEF PublishSurface, Core, RunInv, DraftIsReady
<1>2. CASE Refused
  BY <1>1, <1>2, EndTrace DEF PublishSurface, Raise, contract
<1>3. CASE ~ Refused
  <2>1. /\ draft' = Completed /\ surface' = Completed /\ pc' = "finger"
        /\ UNCHANGED <<chosen, entries>>
    BY <1>3 DEF PublishSurface
  <2>2. /\ Completed.interfaces = draft.interfaces
        /\ Names(Completed.symbols) = Names(draft.symbols)
    BY <1>1, EnrichedNames DEF Completed, Surface
  <2>3. Drafted'
    BY <1>1, <2>1, <2>2 DEF Trace, Drafted, StandardUpTo, Recording, Marking
  <2> QED  BY <1>1, <2>1, <2>3, LayoutKept, EnteredKept, NotJudged, FunctionalKept
           DEF Trace, RecordedSoFar, Marking, Recording, Later, contract
<1> QED  BY <1>2, <1>3

-----------------------------------------------------------------------------
(* The phases that record.                                                    *)

LEMMA FingerprintTrace == Core /\ Trace /\ Fingerprint => Trace'
<1> SUFFICES ASSUME Core, Trace, Fingerprint PROVE Trace'
  OBVIOUS
<1>1. /\ pc = "finger" /\ pc' = "mark" /\ at = 1 /\ at' = 1 /\ entries' = {} /\ finger' = draft
      /\ UNCHANGED <<work, markers, shas, matrix, chosen, draft>>
  BY NothingListed DEF Fingerprint, Core, TypeOK, PerTarget
<1>2. Drafted'
  BY <1>1 DEF Trace, Drafted, StandardUpTo, Recording, Marking, work
<1>3. RecordedSoFar'
  BY <1>1, FleetAssumption DEF RecordedSoFar, TargetEntries, Marking
<1> QED  BY <1>1, <1>2, <1>3, LayoutKept, EnteredKept, NotJudged, FunctionalKept
         DEF Trace, Recording, Later, work

\* The places of the targets are apart, and no extension's.
LEMMA PlacesDiffer ==
    ASSUME Core, pc \in Recording
    PROVE  /\ \A i \in Indices : MarkerPlace(i) = PlaceIn(chosen, i)
           /\ \A i, j \in Indices : i # j => PlaceIn(chosen, i) # PlaceIn(chosen, j)
           /\ \A i \in Indices : \A d \in Extensions :
                 d # chosen[i] /\ PlaceIn(chosen, i) # <<d, "">>
<1>1. \A i, j \in Indices : i # j => chosen[i] # chosen[j]
  BY DEF Core, RunInv, ChosenSoFar, ChosenFairly, Recording
<1>2. ASSUME NEW d \in Extensions, NEW i \in Indices PROVE d # chosen[i]
  BY InputAssumption DEF Extensions, ClientDirs, IsPrefix
<1> QED  BY <1>1, <1>2 DEF MarkerPlace, PlaceIn, SharedBy, InSharedTypescript

\* What is marked stays marked when a file is written for another client.
LEMMA MarksKept ==
    ASSUME NEW place, UNCHANGED <<surface, chosen>>,
           \A p \in DOMAIN markers : p # place => p \in DOMAIN markers' /\ markers'[p] = markers[p],
           \A p \in DOMAIN shas : p # place => p \in DOMAIN shas' /\ shas'[p] = shas[p]
    PROVE  /\ \A i \in Indices : PlaceIn(chosen, i) # place /\ TargetMarked(chosen, i)
                                 => TargetMarked(chosen, i)'
           /\ \A d : <<d, "">> # place /\ ExtensionMarked(d) => ExtensionMarked(d)'
BY DEF Marked, TargetMarked, ExtensionMarked, PlaceIn, SharedBy

LEMMA EntriesKept ==
    ASSUME UNCHANGED <<files, chosen>>
    PROVE  /\ \A n : TargetEntries(chosen, n)' = TargetEntries(chosen, n)
           /\ \A ds : ExtensionEntries(ds)' = ExtensionEntries(ds)
BY DEF TargetEntries, ExtensionEntries, LedgerEntry, Evidence

LEMMA MarkTargetTrace == Core /\ Trace /\ MarkTarget => Trace'
<1> SUFFICES ASSUME Core, Trace, MarkTarget PROVE Trace'
  OBVIOUS
<1>1. /\ pc = "mark" /\ pc' = "sign" /\ at \in Indices /\ at' = at /\ surface = draft
      /\ markers' = Put(markers, PlaceIn(chosen, at), Marker(FALSE, Specs[at].name, surface))
      /\ UNCHANGED <<work, finger, shas, matrix, chosen, draft, entries>>
  BY PlacesDiffer
     DEF MarkTarget, Core, TypeOK, PerTarget, Trace, Drafted, Recording
<1>2. PICK place, value : /\ place = PlaceIn(chosen, at)
                          /\ value = Marker(FALSE, Specs[at].name, surface)
  OBVIOUS
<1>3. /\ markers' = [p \in DOMAIN markers' |-> markers'[p]]
      /\ DOMAIN markers' = DOMAIN markers \union {place}
      /\ \A p \in DOMAIN markers : p # place => markers'[p] = markers[p]
      /\ markers'[place] = value
  <2>1. markers' = Put(markers, place, value)
    BY <1>1, <1>2
  <2> QED  BY <2>1 DEF Put
<1>4. \A i \in 1..(at - 1) : TargetMarked(chosen, i)'
  <2> SUFFICES ASSUME NEW i \in 1..(at - 1) PROVE TargetMarked(chosen, i)'
    OBVIOUS
  <2>1. i \in Indices /\ i # at /\ TargetMarked(chosen, i)
    BY <1>1 DEF Indices, Trace, RecordedSoFar
  <2>2. PlaceIn(chosen, i) # place
    BY <1>1, <1>2, <2>1, PlacesDiffer DEF Recording
  <2> QED  BY <1>1, <1>3, <2>1, <2>2, MarksKept DEF work
<1>5. RecordedSoFar'
  <2>1. PlaceIn(chosen, at)' = place /\ surface' = surface
    BY <1>1, <1>2 DEF PlaceIn, SharedBy, work
  <2>2. entries' = TargetEntries(chosen, at - 1)'
    BY <1>1 DEF Trace, RecordedSoFar, work, TargetEntries, LedgerEntry, Evidence
  <2>3. Marker(FALSE, Specs[at].name, surface)' = value
    BY <1>1, <1>2, <2>1 DEF Marker
  <2> QED  BY <1>1, <1>3, <1>4, <2>1, <2>2, <2>3 DEF RecordedSoFar, Marking
<1>6. Functional'
  BY <1>1, <1>3 DEF Trace, Functional
<1>7. Drafted'
  BY <1>1 DEF Trace, Drafted, StandardUpTo, Recording, Marking, work
<1> QED  BY <1>1, <1>5, <1>6, <1>7, LayoutKept, EnteredKept, NotJudged
         DEF Trace, Recording, Later, work

\* Between the targets and the extensions, no extension is listed.
LEMMA NoneListed ==
    ASSUME Core, pc \in Recording, NEW n \in 0..Len(Specs)
    PROVE  \A d \in Extensions : \A e \in TargetEntries(chosen, n) : e.dir # d
<1> SUFFICES ASSUME NEW d \in Extensions, NEW i \in 1..n
             PROVE  LedgerEntry(FALSE, Specs[i].name, chosen[i]).dir # d
  BY DEF TargetEntries
<1>1. i \in Indices
  BY FleetAssumption DEF Indices
<1> QED  BY <1>1, PlacesDiffer DEF LedgerEntry

LEMMA SignTargetTrace == Core /\ Trace /\ SignTarget => Trace'
<1> SUFFICES ASSUME Core, Trace, SignTarget PROVE Trace'
  OBVIOUS
<1>1. /\ pc = "sign" /\ at \in Indices /\ surface = draft
      /\ shas' = Put(shas, PlaceIn(chosen, at), surface)
      /\ UNCHANGED <<work, finger, markers, matrix, chosen, draft>>
      /\ entries' = TargetEntries(chosen, at - 1) \union {LedgerEntry(FALSE, Specs[at].name, chosen[at])}
  BY PlacesDiffer
     DEF SignTarget, Core, TypeOK, PerTarget, Trace, Drafted, Recording, RecordedSoFar
<1>2. PICK place : place = PlaceIn(chosen, at)
  OBVIOUS
<1>3. /\ shas' = [p \in DOMAIN shas' |-> shas'[p]]
      /\ DOMAIN shas' = DOMAIN shas \union {place}
      /\ \A p \in DOMAIN shas : p # place => shas'[p] = shas[p]
      /\ shas'[place] = surface
  <2>1. shas' = Put(shas, place, surface)
    BY <1>1, <1>2
  <2> QED  BY <2>1 DEF Put
<1>4. \A i \in 1..at : TargetMarked(chosen, i)'
  <2> SUFFICES ASSUME NEW i \in 1..at PROVE TargetMarked(chosen, i)'
    OBVIOUS
  <2>1. CASE i = at
    <3>1. /\ place \in DOMAIN markers
          /\ markers[place] = Marker(FALSE, Specs[i].name, surface)
      BY <1>1, <1>2, <2>1 DEF Trace, RecordedSoFar
    <3>2. PlaceIn(chosen, i)' = place /\ surface' = surface
      BY <1>1, <1>2, <2>1 DEF PlaceIn, SharedBy, work
    <3> QED  BY <1>1, <1>3, <3>1, <3>2 DEF TargetMarked, Marked, Marker
  <2>2. CASE i # at
    <3>1. i \in Indices /\ i \in 1..(at - 1) /\ TargetMarked(chosen, i)
      BY <1>1, <2>2 DEF Indices, Trace, RecordedSoFar
    <3>2. PlaceIn(chosen, i) # place
      BY <1>1, <1>2, <2>2, <3>1, PlacesDiffer DEF Recording
    <3> QED  BY <1>1, <1>3, <3>1, <3>2, MarksKept DEF work
  <2> QED  BY <2>1, <2>2
<1>5. \/ pc' = "extensions" /\ at = Len(Specs) /\ at' = 1
      \/ pc' = "mark" /\ at' = at + 1
  BY <1>1, NextTargetIs DEF SignTarget
<1>6. entries' = TargetEntries(chosen, at)
  <2>1. 1..at = 1..(at - 1) \union {at}
    BY <1>1 DEF Indices
  <2> QED  BY <1>1, <2>1 DEF TargetEntries
<1>7. PICK n \in Indices : n = at
  BY <1>1
<1>8. entries' = TargetEntries(chosen, n)'
  BY <1>1, <1>6, <1>7, EntriesKept DEF work
<1>9. RecordedSoFar'
  <2>1. CASE pc' = "mark"
    <3>1. at' - 1 = n
      BY <1>5, <1>7, <2>1 DEF Indices
    <3> QED  BY <1>4, <1>7, <1>8, <2>1, <3>1 DEF RecordedSoFar, Marking
  <2>2. CASE pc' = "extensions"
    <3>1. \A d \in Extensions : \A e \in entries' : e.dir # d
      <4>1. n \in 0..Len(Specs) /\ entries' = TargetEntries(chosen, n)
        BY <1>6, <1>7, FleetAssumption DEF Indices
      <4> QED  BY <1>1, <4>1, NoneListed DEF Recording
    <3>2. Listed' = {}
      BY <1>1, <3>1 DEF Listed, Unlisted, Extensions, ClientDirs, work
    <3> QED  BY <1>4, <1>5, <1>7, <1>8, <2>2, <3>2
             DEF RecordedSoFar, Marking, ExtensionEntries, Indices
  <2> QED  BY <1>5, <2>1, <2>2
<1>10. Functional'
  BY <1>1, <1>3 DEF Trace, Functional
<1>11. Drafted'
  BY <1>1, <1>5 DEF Trace, Drafted, StandardUpTo, Recording, Marking, work
<1> QED  BY <1>1, <1>5, <1>9, <1>10, <1>11, LayoutKept, EnteredKept, NotJudged
         DEF Trace, Recording, Later, work

LEMMA RecordExtensionTrace == Core /\ Trace /\ RecordExtension => Trace'
<1> SUFFICES ASSUME Core, Trace, RecordExtension PROVE Trace'
  OBVIOUS
<1>1. PICK d \in Unlisted : /\ markers' = Put(markers, <<d, "">>, Marker(TRUE, d[2], draft))
                            /\ shas' = Put(shas, <<d, "">>, draft)
                            /\ entries' = entries \union {LedgerEntry(TRUE, d[2], d)}
  BY DEF RecordExtension
<1>2. /\ pc = "extensions" /\ pc' = "extensions" /\ surface = draft /\ d \in Extensions
      /\ UNCHANGED <<work, finger, matrix, at, chosen, draft>>
  BY DEF RecordExtension, Trace, Drafted, Recording, Unlisted
<1>3. PICK place, value : place = <<d, "">> /\ value = Marker(TRUE, d[2], surface)
  OBVIOUS
<1>4. /\ markers' = [p \in DOMAIN markers' |-> markers'[p]]
      /\ DOMAIN markers' = DOMAIN markers \union {place}
      /\ \A p \in DOMAIN markers : p # place => markers'[p] = markers[p]
      /\ markers'[place] = value
  <2>1. markers' = Put(markers, place, value)
    BY <1>1, <1>2, <1>3
  <2> QED  BY <2>1 DEF Put
<1>5. /\ shas' = [p \in DOMAIN shas' |-> shas'[p]]
      /\ DOMAIN shas' = DOMAIN shas \union {place}
      /\ \A p \in DOMAIN shas : p # place => shas'[p] = shas[p]
      /\ shas'[place] = surface
  <2>1. shas' = Put(shas, place, surface)
    BY <1>1, <1>2, <1>3
  <2> QED  BY <2>1 DEF Put
<1>6. /\ \A i \in Indices : TargetMarked(chosen, i)'
      /\ \A f \in Listed \union {d} : ExtensionMarked(f)'
  <2>1. \A i \in Indices : TargetMarked(chosen, i) /\ PlaceIn(chosen, i) # place
    BY <1>2, <1>3, PlacesDiffer DEF Trace, RecordedSoFar, Recording
  <2>0. /\ UNCHANGED <<surface, chosen>>
        /\ \A p \in DOMAIN markers : p # place => p \in DOMAIN markers' /\ markers'[p] = markers[p]
        /\ \A p \in DOMAIN shas : p # place => p \in DOMAIN shas' /\ shas'[p] = shas[p]
    BY <1>2, <1>4, <1>5 DEF work
  <2>2. \A i \in Indices : TargetMarked(chosen, i)'
    <3> SUFFICES ASSUME NEW i \in Indices PROVE TargetMarked(chosen, i)'
      OBVIOUS
    <3>1. TargetMarked(chosen, i) /\ PlaceIn(chosen, i) # place
      BY <2>1
    <3> QED  BY <2>0, <3>1, MarksKept
  <2>3. ExtensionMarked(d)'
    BY <1>2, <1>3, <1>4, <1>5 DEF ExtensionMarked, Marked, Marker, work
  <2>4. ASSUME NEW f \in Listed, f # d PROVE ExtensionMarked(f)'
    <3>1. ExtensionMarked(f) /\ <<f, "">> # place
      BY <1>2, <1>3, <2>4 DEF Trace, RecordedSoFar
    <3> QED  BY <2>0, <3>1, MarksKept
  <2> QED  BY <2>2, <2>3, <2>4
<1>7. Listed' = Listed \union {d}
  <2>1. Extensions' = Extensions
    BY <1>2 DEF Extensions, ClientDirs, work
  <2>2. LedgerEntry(TRUE, d[2], d).dir = d
    BY DEF LedgerEntry
  <2>3. Unlisted' = Unlisted \ {d}
    BY <1>1, <2>1, <2>2 DEF Unlisted
  <2> QED  BY <1>2, <2>1, <2>3 DEF Listed
<1>8. entries' = (TargetEntries(chosen, Len(Specs)) \union ExtensionEntries(Listed))'
  <2>1. entries' = TargetEntries(chosen, Len(Specs)) \union ExtensionEntries(Listed \union {d})
    BY <1>1, <1>2 DEF Trace, RecordedSoFar, ExtensionEntries
  <2>2. TargetEntries(chosen, Len(Specs))' = TargetEntries(chosen, Len(Specs))
    BY <1>2 DEF TargetEntries, LedgerEntry, Evidence, work
  <2>3. ExtensionEntries(Listed)' = ExtensionEntries(Listed \union {d})
    BY <1>2, <1>7 DEF ExtensionEntries, LedgerEntry, Evidence, work
  <2> QED  BY <2>1, <2>2, <2>3
<1>9. RecordedSoFar'
  BY <1>2, <1>6, <1>7, <1>8 DEF RecordedSoFar, Marking
<1>10. Functional' /\ Drafted'
  BY <1>2, <1>4, <1>5 DEF Trace, Functional, Drafted, StandardUpTo, Recording, Marking, work
<1> QED  BY <1>2, <1>9, <1>10, LayoutKept, EnteredKept, NotJudged
         DEF Trace, Recording, Later, work

\* A run that has recorded every client has recorded all.
LEMMA AllRecorded ==
    ASSUME Core, Trace, pc = "extensions", Unlisted = {}
    PROVE  /\ chosen \in [Indices -> Dirs] /\ matrix = chosen
           /\ \A i \in Indices : Laid(chosen, i) /\ TargetMarked(chosen, i)
           /\ \A d \in ExtensionsIn(chosen) : ExtensionMarked(d)
           /\ ManifestDone(chosen)
           /\ depends # None /\ surface # None /\ surface = draft /\ finger = surface
           /\ surface.interfaces = depends
           /\ SchemaErrors(surface.symbols) = {}
           /\ StandardUpTo(Len(Standard), surface.symbols)
           /\ entries = TargetEntries(chosen, Len(Specs)) \union ExtensionEntries(ExtensionsIn(chosen))
<1>1. chosen \in [Indices -> Dirs]
  BY DEF Core, TypeOK, RunInv, ChosenSoFar
<1>2. Listed = Extensions /\ Extensions = ExtensionsIn(chosen)
  BY DEF Listed, Extensions, ExtensionsIn
<1>3. /\ \A i \in Indices : Laid(chosen, i) /\ TargetMarked(chosen, i)
      /\ \A d \in ExtensionsIn(chosen) : ExtensionMarked(d)
      /\ ManifestDone(chosen) /\ matrix = chosen
      /\ entries = TargetEntries(chosen, Len(Specs)) \union ExtensionEntries(ExtensionsIn(chosen))
  BY <1>2 DEF Trace, LaidOut, Entered, RecordedSoFar, Recording, Marking
<1>4. /\ depends # None /\ surface = draft /\ finger = surface /\ surface.interfaces = depends
      /\ StandardUpTo(Len(Standard), surface.symbols)
  BY DEF Trace, Drafted, Recording, Marking
<1>5. surface # None /\ SchemaErrors(surface.symbols) = {}
  BY <1>4, FleetAssumption DEF Core, RunInv, DraftIsReady, Recording, Sound
<1> QED  BY <1>1, <1>3, <1>4, <1>5

LEMMA WriteLedgerTrace == Core /\ Trace /\ WriteLedger => Trace'
<1> SUFFICES ASSUME Core, Trace, WriteLedger PROVE Trace'
  OBVIOUS
<1>1. /\ pc = "extensions" /\ pc' = "rechoose" /\ Unlisted = {}
      /\ ledger' = [surface |-> draft, entries |-> entries]
      /\ UNCHANGED <<work, finger, markers, shas, matrix>>
      /\ \A i \in Indices : chosen'[i] = None
  BY DEF WriteLedger, Unchosen
<1> DEFINE all == TargetEntries(matrix, Len(Specs)) \union ExtensionEntries(ExtensionsIn(matrix))
<1>2. /\ matrix \in [Indices -> Dirs]
      /\ \A i \in Indices : Laid(matrix, i) /\ TargetMarked(matrix, i)
      /\ \A d \in ExtensionsIn(matrix) : ExtensionMarked(d)
      /\ ManifestDone(matrix)
      /\ depends # None /\ surface # None /\ surface = draft /\ finger = surface
      /\ surface.interfaces = depends
      /\ SchemaErrors(surface.symbols) = {}
      /\ StandardUpTo(Len(Standard), surface.symbols)
      /\ entries = all
  BY <1>1, AllRecorded
<1>3. /\ \A i \in Indices : Laid(matrix, i)' /\ TargetMarked(matrix, i)'
      /\ ExtensionsIn(matrix)' = ExtensionsIn(matrix)
      /\ \A d \in ExtensionsIn(matrix) : ExtensionMarked(d)'
  BY <1>1, <1>2 DEF work, Laid, HasProduct, SharedBy, TargetMarked, ExtensionMarked, Marked,
                    PlaceIn, ExtensionsIn, ClientDirs
<1>4. ManifestDone(matrix)'
  <2>1. Mature' = Mature
    BY <1>1 DEF Mature, SafeDirs, DeclaredDirs, work
  <2> QED  BY <1>1, <1>2, <2>1, SettledKept DEF ManifestDone, work
<1>5. all' = all
  BY <1>1, <1>3 DEF TargetEntries, ExtensionEntries, LedgerEntry, Evidence, work
<1>6. Recorded(matrix)'
  <2>1. ledger' = [surface |-> surface', entries |-> all']
    BY <1>1, <1>2, <1>5 DEF work
  <2> HIDE DEF all
  <2>2. /\ matrix' \in [Indices -> Dirs] /\ depends' # None /\ surface' # None
        /\ finger' = surface' /\ surface'.interfaces = depends'
        /\ SchemaErrors(surface'.symbols) = {}
        /\ StandardUpTo(Len(Standard), surface'.symbols)
    BY <1>1, <1>2 DEF work
  <2> QED  BY <1>3, <1>4, <2>1, <2>2 DEF Recorded, all
<1> QED  BY <1>1, <1>6, FunctionalKept
         DEF Trace, LaidOut, Entered, Drafted, RecordedSoFar, Judged, Recording, Marking

LEMMA NextTrace == Core /\ Trace /\ [Next]_vars => Trace'
<1> SUFFICES ASSUME Core, Trace, [Next]_vars PROVE Trace'
  OBVIOUS
<1>1. CASE Developers
  BY <1>1, DevelopersTrace
<1>2. CASE Start("write") \/ Start("check")
  BY <1>2, StartTrace
<1>3. CASE Writing
  <2>1. CASE Verify
    BY <2>1, EndTrace DEF Verify, contract
  <2> QED  BY <1>3, <2>1, ChooseDirTrace, EnterTargetTrace, ScaffoldFileTrace, EnsureManifestTrace,
              EnsureMatrixTrace, LoadSurfaceTrace, MergeSymbolTrace, PublishSurfaceTrace,
              FingerprintTrace, MarkTargetTrace, SignTargetTrace, RecordExtensionTrace,
              WriteLedgerTrace DEF Writing
<1>4. CASE Crash
  BY <1>4, EndTrace DEF Crash, contract
<1>5. CASE UNCHANGED vars
  <2>1. LaidOut' /\ Judged'
    <3>1. UNCHANGED <<work, contract>>
      BY <1>5 DEF vars
    <3>2. \A i : Laid(chosen, i)' = Laid(chosen, i)
      BY <1>5 DEF vars, work, run, Laid, HasProduct, SharedBy
    <3>3. Recorded(matrix)' = Recorded(matrix)
      BY <3>1, RecordedKept DEF contract
    <3>4. \A i \in Indices : SelectedFor(i, chosen)' = SelectedFor(i, chosen)
      BY <1>5, <3>1, SelectedKept DEF vars, run
    <3>5. LaidOut'
      <4>1. UNCHANGED <<dirs, files, pc, at, file, chosen>>
        BY <1>5 DEF vars, run, work
      <4> QED  BY <3>2, <4>1 DEF Trace, LaidOut, IsFile
    <3>6. Judged'
      BY <1>5, <3>3, <3>4 DEF vars, run, Trace, Judged
    <3> QED  BY <3>5, <3>6
  <2>2. Entered'
    <3>1. Mature' = Mature /\ SettledIn(chosen)' = SettledIn(chosen)
      BY <1>5, SettledKept DEF vars, work, run, Mature, SafeDirs, DeclaredDirs
    <3> QED  BY <1>5, <3>1 DEF vars, run, contract, Trace, Entered, ManifestDone
  <2>3. Drafted' /\ Functional'
    BY <1>5 DEF vars, work, run, contract, Trace, Drafted, Functional, StandardUpTo
  <2>4. RecordedSoFar'
    <3>1. UNCHANGED <<dirs, files, surface, markers, shas, pc, at, chosen, entries>>
      BY <1>5 DEF vars, work, run, contract
    <3>2. Listed' = Listed
      BY <3>1 DEF Listed, Unlisted, Extensions, ClientDirs
    <3>3. \A i \in Indices : TargetMarked(chosen, i)' = TargetMarked(chosen, i)
      BY <3>1 DEF TargetMarked, Marked, PlaceIn, SharedBy
    <3>4. \A d \in Listed : ExtensionMarked(d)' = ExtensionMarked(d)
      BY <3>1 DEF ExtensionMarked, Marked
    <3>5. TargetEntries(chosen, Len(Specs))' = TargetEntries(chosen, Len(Specs))
          /\ ExtensionEntries(Listed)' = ExtensionEntries(Listed)
      BY <3>1, <3>2 DEF TargetEntries, ExtensionEntries, LedgerEntry, Evidence
    <3>6. TargetEntries(chosen, at - 1)' = TargetEntries(chosen, at - 1)
      BY <3>1 DEF TargetEntries, LedgerEntry, Evidence
    <3>7. /\ PlaceIn(chosen, at)' = PlaceIn(chosen, at)
          /\ Marker(FALSE, Specs[at].name, surface)' = Marker(FALSE, Specs[at].name, surface)
      BY <3>1 DEF PlaceIn, SharedBy, Marker
    <3>8. \A i \in 1..(at - 1) : pc \in {"mark", "sign"} => i \in Indices
      BY DEF Core, TypeOK, PerTarget, Indices
    <3> QED  BY <3>1, <3>2, <3>3, <3>4, <3>5, <3>6, <3>7, <3>8 DEF Trace, RecordedSoFar
  <2> QED  BY <2>1, <2>2, <2>3, <2>4 DEF Trace
<1> QED  BY <1>1, <1>2, <1>3, <1>4, <1>5 DEF Next, Hardener

LEMMA FleetTrace == IInv /\ Trace /\ [FleetNext]_fleetVars => Trace'
BY NextTrace, StandardizerTrace DEF IInv, FleetNext, fleetVars

LEMMA InitTrace == FleetInit => Trace
BY DEF FleetInit, Init, Trace, LaidOut, Entered, Drafted, RecordedSoFar, Judged, Functional,
       Recording, Marking

-----------------------------------------------------------------------------
(* A clean repository is not written to: each step of a run finds what it     *)
(* would write already there.                                                 *)

Frozen == UNCHANGED <<work, contract>> /\ Replays'

LEMMA FrozenAtRest ==
    ASSUME UNCHANGED <<work, contract>>, pc' \in {"idle", "choose", "rechoose"},
           \A i \in Indices : chosen'[i] = None
    PROVE  Frozen
BY DEF Frozen, Replays, Recording

LEMMA FrozenEnd ==
    ASSUME UNCHANGED <<work, contract>>, pc' = "idle", Clear
    PROVE  Frozen
BY FrozenAtRest DEF Clear, Unchosen

\* All targets are chosen when the choice is over: they are those of the matrix.
LEMMA ChosenIsMatrix ==
    ASSUME Core, Clean, Replays, pc \in Later \union {"scaffold"}
    PROVE  /\ chosen = matrix
           /\ \A i \in Indices : MarkerPlace(i) = PlaceIn(matrix, i)
           /\ Extensions = ExtensionsIn(matrix)
<1>1. chosen \in [Indices -> Dirs \union {None}] /\ matrix \in [Indices -> Dirs]
  BY DEF Core, TypeOK, Clean, Recorded
<1>2. \A i \in Indices : chosen[i] = matrix[i]
  BY DEF Core, RunInv, ChosenSoFar, Replays, Later, Recording
<1>3. chosen = matrix
  BY <1>1, <1>2
<1> QED  BY <1>3 DEF MarkerPlace, PlaceIn, InSharedTypescript, SharedBy, Extensions, ExtensionsIn

LEMMA FrozenChoice ==
    ASSUME Core, Trace, Clean, Replays, ChooseDir \/ EnterTarget \/ ScaffoldFile
    PROVE  Frozen
<1>1. CASE ChooseDir
  <2>1. /\ at \in Indices /\ chosen \in [Indices -> Dirs \union {None}] /\ file = 0
        /\ \A i \in Indices : chosen[i] # None <=> i < at
        /\ UNCHANGED <<work, contract>>
    BY <1>1 DEF ChooseDir, Core, TypeOK, PerTarget, RunInv, ChosenSoFar
  <2>2. CASE Selected \in Claimed
    BY <1>1, <2>1, <2>2, FrozenEnd DEF ChooseDir, Raise
  <2>3. CASE Selected \notin Claimed
    <3>1. /\ chosen' = [chosen EXCEPT ![at] = Selected] /\ file' = 0
          /\ pc' \in {"choose", "rechoose", "scaffold", "verify"}
      BY <1>1, <2>1, <2>3 DEF ChooseDir, NextTarget
    <3>2. Selected = matrix[at]
      <4>1. \A j \in 1..(at - 1) : chosen[j] = matrix[j]
        BY <2>1 DEF Replays, Indices
      <4> QED  BY <2>1, <4>1, SelectedIs, SelectedAgrees DEF Clean
    <3>3. \A i \in Indices : chosen'[i] # None => chosen'[i] = matrix'[i]
      BY <2>1, <3>1, <3>2 DEF Replays, contract
    <3> QED  BY <2>1, <3>1, <3>3 DEF Frozen, Replays, Recording
  <2> QED  BY <2>2, <2>3
<1>2. CASE EnterTarget
  <2>1. at \in Indices /\ pc = "scaffold" /\ file = 0 /\ chosen = matrix
    BY <1>2, ChosenIsMatrix DEF EnterTarget, Core, TypeOK, PerTarget
  <2>2. Parents(chosen[at]) \subseteq dirs /\ (HasProduct(chosen[at]) \/ InSharedTypescript(at))
    BY <2>1 DEF Clean, Recorded, Laid, SharedBy, InSharedTypescript
  <2>3. UNCHANGED <<work, contract>>
    BY <1>2, <2>2 DEF EnterTarget, work
  <2>4. file' = 0 /\ pc' \in {"scaffold", "manifest"} /\ chosen' = chosen
    BY <1>2, <2>1, <2>2 DEF EnterTarget, NextTarget
  <2> QED  BY <2>1, <2>3, <2>4 DEF Frozen, Replays, Recording, contract
<1>3. CASE ScaffoldFile
  BY <1>3 DEF ScaffoldFile, Replays
<1> QED  BY <1>1, <1>2, <1>3

LEMMA FrozenRecords ==
    ASSUME Core, Trace, Clean, Replays, EnsureManifest \/ EnsureMatrix \/ Fingerprint
    PROVE  Frozen
<1>1. chosen = matrix /\ UNCHANGED chosen
  BY ChosenIsMatrix DEF EnsureManifest, EnsureMatrix, Fingerprint, Later, Recording
<1>2. CASE EnsureManifest
  <2>1. targets' = targets
    <3>1. Mature \/ SettledIn(matrix)
      BY DEF Clean, Recorded, ManifestDone
    <3> QED  BY <1>1, <1>2, <3>1, SettledStays DEF EnsureManifest
  <2> QED  BY <1>1, <1>2, <2>1 DEF EnsureManifest, Frozen, Replays, Recording, work, contract
<1>3. CASE EnsureMatrix
  BY <1>1, <1>3 DEF EnsureMatrix, Frozen, Replays, Recording, contract
<1>4. CASE Fingerprint
  <2>1. finger' = finger /\ draft = surface
    BY <1>4 DEF Fingerprint, Replays, Recording, Clean, Recorded
  <2> QED  BY <1>1, <1>4, <2>1 DEF Fingerprint, Frozen, Replays, Recording, contract, work
<1> QED  BY <1>2, <1>3, <1>4

LEMMA FrozenSurface ==
    ASSUME Core, Trace, Clean, Replays, LoadSurface \/ MergeSymbol \/ PublishSurface
    PROVE  Frozen
<1>1. /\ surface \in Surface(Versions) /\ surface # None /\ depends # None
      /\ surface = [interfaces |-> depends, symbols |-> surface.symbols]
      /\ surface.symbols \in Seq(Symbol)
      /\ SchemaErrors(surface.symbols) = {}
      /\ StandardUpTo(Len(Standard), surface.symbols)
  BY DEF Clean, Recorded, Core, TypeOK, Surface
<1>2. chosen = matrix
  BY ChosenIsMatrix DEF LoadSurface, MergeSymbol, PublishSurface, Later
<1>3. CASE LoadSurface
  <2>1. draft' = surface /\ pc' = "merge" /\ UNCHANGED <<work, contract, chosen>>
    BY <1>1, <1>3 DEF LoadSurface
  <2> QED  BY <1>2, <2>1 DEF Frozen, Replays, work, contract
<1>4. CASE MergeSymbol
  <2>1. draft = surface /\ at \in DOMAIN Standard
    BY <1>4 DEF MergeSymbol, Replays, Core, TypeOK, PerTarget
  <2>2. WithSymbol(draft.symbols, Standard[at]) = draft.symbols
    <3>1. at \in 1..Len(Standard)
      BY <2>1, FleetAssumption
    <3>2. Standard[at].name \in Names(draft.symbols)
      BY <1>1, <2>1, <3>1 DEF StandardUpTo
    <3> QED  BY <3>2 DEF WithSymbol
  <2>3. draft' = [draft EXCEPT !.symbols = WithSymbol(draft.symbols, Standard[at])]
    BY <1>4 DEF MergeSymbol
  <2>4. draft' = surface
    BY <1>1, <2>1, <2>2, <2>3
  <2> QED  BY <1>2, <1>4, <2>4 DEF MergeSymbol, Frozen, Replays, work, contract
<1>5. CASE PublishSurface
  <2>1. draft = surface
    BY <1>5 DEF PublishSurface, Replays
  <2>2. Completed = surface
    BY <1>1, <2>1, CompleteAlready DEF Completed
  <2>3. surface' = surface /\ UNCHANGED <<work, contract>>
    BY <1>5, <2>2 DEF PublishSurface, work
  <2>4. CASE Refused
    BY <1>5, <2>3, <2>4, FrozenEnd DEF PublishSurface, Raise
  <2>5. CASE ~ Refused
    BY <1>2, <1>5, <2>2, <2>3, <2>5 DEF PublishSurface, Frozen, Replays, contract
  <2> QED  BY <2>4, <2>5
<1> QED  BY <1>3, <1>4, <1>5

\* To put what is there changes nothing.
LEMMA PutSame ==
    ASSUME NEW f, f = [k \in DOMAIN f |-> f[k]], NEW key \in DOMAIN f
    PROVE  Put(f, key, f[key]) = f
BY DEF Put

LEMMA FrozenMarks ==
    ASSUME Core, Trace, Clean, Replays, MarkTarget \/ SignTarget \/ RecordExtension
    PROVE  Frozen
<1>1. /\ pc \in Marking /\ chosen = matrix /\ draft = surface
      /\ \A i \in Indices : MarkerPlace(i) = PlaceIn(matrix, i)
      /\ Extensions = ExtensionsIn(matrix)
  BY ChosenIsMatrix
     DEF MarkTarget, SignTarget, RecordExtension, Later, Recording, Marking, Replays
<1>2. /\ markers = [p \in DOMAIN markers |-> markers[p]]
      /\ shas = [p \in DOMAIN shas |-> shas[p]]
  BY DEF Trace, Functional
<1>3. CASE MarkTarget
  <2>1. PICK place, value : /\ place = MarkerPlace(at)
                            /\ value = Marker(FALSE, Specs[at].name, draft)
    OBVIOUS
  <2>2. place \in DOMAIN markers /\ markers[place] = value
    <3>1. at \in Indices
      BY <1>3 DEF MarkTarget, Core, TypeOK, PerTarget
    <3>2. TargetMarked(matrix, at)
      BY <3>1 DEF Clean, Recorded
    <3> QED  BY <1>1, <2>1, <3>1, <3>2 DEF TargetMarked, Marked
  <2>3. markers' = markers
    <3>1. markers' = Put(markers, place, markers[place])
      BY <1>3, <2>1, <2>2 DEF MarkTarget
    <3> QED  BY <1>2, <2>2, <3>1, PutSame
  <2> QED  BY <1>1, <1>3, <2>3 DEF MarkTarget, Frozen, Replays, Recording, work, contract
<1>4. CASE SignTarget
  <2>1. PICK place, value : place = MarkerPlace(at) /\ value = draft
    OBVIOUS
  <2>2. place \in DOMAIN shas /\ shas[place] = value
    <3>1. at \in Indices
      BY <1>4 DEF SignTarget, Core, TypeOK, PerTarget
    <3>2. TargetMarked(matrix, at)
      BY <3>1 DEF Clean, Recorded
    <3> QED  BY <1>1, <2>1, <3>1, <3>2 DEF TargetMarked, Marked
  <2>3. shas' = shas
    BY <1>2, <1>4, <2>1, <2>2, PutSame DEF SignTarget
  <2>4. pc' \in {"mark", "extensions"} /\ UNCHANGED <<chosen, draft>>
    BY <1>4 DEF SignTarget, NextTarget
  <2> QED  BY <1>1, <1>4, <2>3, <2>4 DEF SignTarget, Frozen, Replays, Recording, work, contract
<1>5. CASE RecordExtension
  <2>1. PICK d \in Unlisted : /\ markers' = Put(markers, <<d, "">>, Marker(TRUE, d[2], draft))
                              /\ shas' = Put(shas, <<d, "">>, draft)
    BY <1>5 DEF RecordExtension
  <2>2. PICK place, value : place = <<d, "">> /\ value = Marker(TRUE, d[2], draft)
    OBVIOUS
  <2>3. /\ place \in DOMAIN markers /\ markers[place] = value
        /\ place \in DOMAIN shas /\ shas[place] = surface
    <3>1. ExtensionMarked(d)
      BY <1>1 DEF Clean, Recorded, Unlisted
    <3> QED  BY <1>1, <2>2, <3>1 DEF ExtensionMarked, Marked
  <2>4. markers' = markers
    <3>1. markers' = Put(markers, place, markers[place])
      BY <2>1, <2>2, <2>3
    <3> QED  BY <1>2, <2>3, <3>1, PutSame
  <2>5. shas' = shas
    <3>1. shas' = Put(shas, place, shas[place])
      BY <1>1, <2>1, <2>2, <2>3
    <3> QED  BY <1>2, <2>3, <3>1, PutSame
  <2> QED  BY <1>1, <1>5, <2>4, <2>5
           DEF RecordExtension, Frozen, Replays, Recording, work, contract
<1> QED  BY <1>3, <1>4, <1>5

LEMMA FrozenLedger ==
    ASSUME Core, Trace, Clean, Replays, WriteLedger
    PROVE  Frozen
<1>1. /\ pc = "extensions" /\ Unlisted = {} /\ pc' = "rechoose"
      /\ \A i \in Indices : chosen'[i] = None
      /\ ledger' = [surface |-> draft, entries |-> entries]
      /\ UNCHANGED <<work, finger, markers, shas, matrix>>
  BY DEF WriteLedger, Unchosen
<1>2. ledger' = ledger
  BY <1>1, AllRecorded DEF Clean, Recorded
<1> QED  BY <1>1, <1>2, FrozenAtRest DEF contract

LEMMA FrozenHardener ==
    ASSUME Core, Trace, Clean, Replays, Hardener
    PROVE  Frozen
<1>1. CASE Start("write") \/ Start("check")
  <2>1. \A i \in Indices : chosen'[i] = None
    BY <1>1 DEF Start, Core, RunInv, ChosenSoFar, Unchosen
  <2>2. pc' \in {"choose", "rechoose"} /\ UNCHANGED <<work, contract>>
    BY <1>1 DEF Start
  <2> QED  BY <2>1, <2>2, FrozenAtRest
<1>2. CASE Verify \/ Crash
  BY <1>2, FrozenEnd DEF Verify, Crash
<1>3. CASE Writing /\ ~ Verify
  BY <1>3, FrozenChoice, FrozenRecords, FrozenSurface, FrozenMarks, FrozenLedger DEF Writing
<1> QED  BY <1>1, <1>2, <1>3 DEF Hardener

-----------------------------------------------------------------------------
(* A run that vouches has found the repository clean, and it stays so until   *)
(* someone changes something.                                                 *)

LEMMA CleanKept == ASSUME UNCHANGED <<work, contract>>, Clean PROVE Clean'
<1>1. Recorded(matrix)'
  BY RecordedKept DEF Clean, contract
<1>2. \A i \in Indices : matrix[i] = SelectedFor(i, matrix)'
  BY SelectedKept DEF Clean, contract
<1> QED  BY <1>1, <1>2 DEF Clean, contract

LEMMA VerifyTrusts ==
    ASSUME Core, Trace, Trusted, Verify
    PROVE  Trusted'
<1>1. pc = "verify" /\ pc' = "idle" /\ Clear /\ UNCHANGED <<work, contract>>
  BY DEF Verify
<1>2. Replays'
  BY <1>1, FrozenEnd DEF Frozen
<1>3. ASSUME trust' = "written", trust # "written" PROVE Clean
  <2>1. mode = "write" /\ matrix = chosen
    BY <1>3 DEF Verify
  <2>2. Recorded(matrix)
    BY <1>1, <2>1 DEF Trace, Judged
  <2>3. \A i \in Indices : matrix[i] = SelectedFor(i, matrix)
    BY <1>1, <2>1 DEF Trace, Judged, Core, RunInv, ChosenSoFar
  <2>4. ledger # None
    BY <1>3 DEF Verify, Verdict, LedgerErrors
  <2> QED  BY <2>2, <2>3, <2>4 DEF Clean
<1>4. trust' = "written" => Clean
  BY <1>3 DEF Trusted
<1> QED  BY <1>1, <1>2, <1>4, CleanKept DEF Trusted

LEMMA NextTrusts ==
    ASSUME Core, Trace, Trusted, Next
    PROVE  Trusted'
<1>1. CASE Developers
  BY <1>1 DEF Developers, Edited, WriteFile, DeclareTarget, Depend, EditSurface, MoveDirectory,
              Trusted
<1>2. CASE Verify
  BY <1>2, VerifyTrusts
<1>3. CASE Hardener /\ ~ Verify
  <2>1. trust' = "written" => trust = "written"
    <3>1. CASE Start("write") \/ Start("check") \/ Crash
      BY <3>1 DEF Start, Crash
    <3>2. CASE ChooseDir \/ EnterTarget \/ ScaffoldFile \/ EnsureManifest \/ EnsureMatrix
      BY <3>2 DEF ChooseDir, EnterTarget, ScaffoldFile, EnsureManifest, EnsureMatrix, Raise, Step
    <3>3. CASE LoadSurface \/ MergeSymbol \/ PublishSurface \/ Fingerprint \/ MarkTarget
               \/ SignTarget \/ RecordExtension \/ WriteLedger
      BY <3>3 DEF LoadSurface, MergeSymbol, PublishSurface, Fingerprint, MarkTarget, SignTarget,
                  RecordExtension, WriteLedger, Raise, Step
    <3> QED  BY <1>3, <3>1, <3>2, <3>3 DEF Hardener, Writing
  <2>2. CASE trust = "written"
    <3>1. Frozen
      BY <1>3, <2>2, FrozenHardener DEF Trusted
    <3> QED  BY <2>2, <3>1, CleanKept DEF Frozen, Trusted
  <2> QED  BY <2>1, <2>2 DEF Trusted
<1> QED  BY <1>1, <1>2, <1>3 DEF Next

LEMMA FleetTrusts == IInv /\ Trace /\ Trusted /\ [FleetNext]_fleetVars => Trusted'
<1> SUFFICES ASSUME IInv, Trace, Trusted, [FleetNext]_fleetVars PROVE Trusted'
  OBVIOUS
<1>1. CASE Next
  BY <1>1, NextTrusts DEF IInv
<1>2. CASE Standardize
  BY <1>2 DEF Standardize, Trusted
<1>3. CASE BaselineFile
  BY <1>3 DEF BaselineFile, Step, Trusted, Replays
<1>4. CASE UNCHANGED fleetVars
  <2>1. UNCHANGED <<work, contract>> /\ UNCHANGED <<pc, file, chosen, draft, trust>>
    BY <1>4 DEF fleetVars, vars, run
  <2>2. Clean => Clean'
    BY <2>1, CleanKept
  <2>3. Replays => Replays'
    BY <2>1 DEF Replays, work, contract
  <2> QED  BY <2>1, <2>2, <2>3 DEF Trusted
<1> QED  BY <1>1, <1>2, <1>3, <1>4 DEF FleetNext

LEMMA AlwaysTrusted == FleetSpec => [](IInv /\ Trace /\ Trusted)
<1>1. FleetInit => Trusted
  BY DEF FleetInit, Init, Trusted
<1> QED  BY <1>1, AlwaysIInv, InitTrace, FleetTrace, FleetTrusts, PTL DEF FleetSpec

\* "The script is safe to run repeatedly": whatever fleet, edits and kills led to it,
\* a repository that a clean --write left is written to by no further run.
THEOREM CleanIsAFixpoint == FleetSpec => Fixpoint
<1>1. IInv /\ Trace /\ Trusted /\ [FleetNext]_fleetVars
        => [trust = "written" /\ Hardener => UNCHANGED <<work, contract>>]_vars
  BY FrozenHardener DEF IInv, Trusted, Frozen
<1> QED  BY <1>1, AlwaysTrusted, PTL DEF FleetSpec, Fixpoint

-----------------------------------------------------------------------------
(* What is vouched for: the script that guards releases accepts it.           *)

LEMMA NamesDiffer ==
    ASSUME NEW i \in Indices, NEW j \in Indices, Specs[i].name = Specs[j].name
    PROVE  i = j
<1>1. ASSUME NEW k \in Indices, NEW l \in Indices, k < l PROVE Specs[k].name # Specs[l].name
  <2>1. PICK m, n \in DOMAIN TARGETS : m < n /\ Specs[k] = TARGETS[m] /\ Specs[l] = TARGETS[n]
    BY <1>1, FleetAssumption
  <2>2. m # n
    BY <2>1, TargetsAreListed
  <2> QED  BY <2>1, <2>2, TargetsDiffer
<1> QED  BY <1>1 DEF Indices

\* As many entries as targets, at least.
LEMMA EntriesCounted ==
    ASSUME IsFiniteSet(dirs), NEW c
    PROVE  LET all == TargetEntries(c, Len(Specs)) \union ExtensionEntries(ExtensionsIn(c))
           IN  Cardinality(all) \in Nat /\ Cardinality(all) >= Len(Specs)
<1> DEFINE T == TargetEntries(c, Len(Specs))
           D == ExtensionsIn(c)
           E == ExtensionEntries(D)
           f == [i \in 1..Len(Specs) |-> LedgerEntry(FALSE, Specs[i].name, c[i])]
           g == [d \in D |-> LedgerEntry(TRUE, d[2], d)]
<1>1. Len(Specs) \in Nat /\ IsFiniteSet(1..Len(Specs)) /\ Cardinality(1..Len(Specs)) = Len(Specs)
  <2>1. Len(Specs) \in Nat
    BY FleetAssumption
  <2>2. IsFiniteSet(1..Len(Specs))
        /\ Cardinality(1..Len(Specs)) = IF 1 > Len(Specs) THEN 0 ELSE Len(Specs) - 1 + 1
    <3> HIDE DEF f, g, T, E
    <3> QED  BY <2>1, FS_Interval
  <2> QED  BY <2>1, <2>2
<1>2. f \in Surjection(1..Len(Specs), T)
  BY DEF Surjection, TargetEntries
<1>3. \A i, j \in 1..Len(Specs) : f[i] = f[j] => i = j
  BY NamesDiffer DEF LedgerEntry, Indices
<1>4. f \in Injection(1..Len(Specs), T)
  BY <1>2, <1>3 DEF Surjection, Injection, IsInjective
<1>5. IsFiniteSet(T) /\ Cardinality(T) = Len(Specs)
  BY <1>1, <1>2, <1>4, FS_Surjection
<1>6. IsFiniteSet(D)
  BY FS_Subset DEF ExtensionsIn, ClientDirs
<1>7. g \in Surjection(D, E)
  BY DEF Surjection, ExtensionEntries
<1>8. IsFiniteSet(E)
  BY <1>6, <1>7, FS_Surjection
<1> HIDE DEF T, E
<1>9. IsFiniteSet(T \union E)
  BY <1>5, <1>8, FS_Union
<1>10. Cardinality(T) <= Cardinality(T \union E) /\ Cardinality(T \union E) \in Nat
  BY <1>9, FS_Subset, FS_CardinalityType
<1> QED  BY <1>5, <1>10 DEF T, E

\* Of a client: what the release check asks of its entry of the ledger.
LEMMA EvidenceIsThere ==
    ASSUME NEW dir, HasProduct(dir)
    PROVE  DOMAIN Evidence(dir) # {}
<1>1. IsPrefix(dir, dir)
  BY DEF IsPrefix
<1> QED  BY <1>1 DEF HasProduct, Evidence, Restrict

LEMMA TargetEntryHolds ==
    ASSUME Core, Clean, SharedIsPlain, NEW i \in Indices, IsPrefix(<<"clients">>, matrix[i])
    PROVE  EntryHolds(LedgerEntry(FALSE, Specs[i].name, matrix[i]))
<1> DEFINE e == LedgerEntry(FALSE, Specs[i].name, matrix[i])
<1>1. /\ e.dir = matrix[i] /\ e.evidence = Evidence(matrix[i]) /\ e.extension = FALSE
      /\ e.target = Specs[i].name
  BY DEF LedgerEntry
<1>2. /\ matrix[i] \in Dirs /\ Laid(matrix, i) /\ TargetMarked(matrix, i)
  BY DEF Clean, Recorded
<1>3. matrix[i] \in dirs
  BY <1>2, ParentsHaveIt DEF Laid
<1>4. DOMAIN Evidence(matrix[i]) # {}
  <2>1. CASE HasProduct(matrix[i])
    BY <2>1, EvidenceIsThere
  <2>2. CASE SharedBy(matrix, i)
    BY <2>2 DEF SharedBy, SharedIsPlain
  <2> QED  BY <1>2, <2>1, <2>2 DEF Laid
<1>5. RuntimeOf(e) = Specs[i].runtime
  <2>1. (CHOOSE j \in Indices : Specs[j].name = e.target) = i
    BY <1>1, NamesDiffer
  <2> HIDE DEF e
  <2> QED  BY <1>1, <2>1 DEF RuntimeOf
<1>6. MarkerRoot(e) = PlaceIn(matrix, i)
  <2> HIDE DEF e
  <2>1. PlaceIn(matrix, i) \in DOMAIN markers
    BY <1>2 DEF TargetMarked, Marked
  <2>2. CASE SharedBy(matrix, i)
    <3>1. <<e.dir, "">> \notin DOMAIN markers /\ PlaceIn(matrix, i) = <<e.dir, Specs[i].runtime>>
      BY <1>1, <2>2 DEF SharedBy, SharedIsPlain, PlaceIn
    <3> QED  BY <1>5, <2>1, <3>1 DEF MarkerRoot
  <2>3. CASE ~ SharedBy(matrix, i)
    BY <1>1, <2>1, <2>3 DEF MarkerRoot, PlaceIn
  <2> QED  BY <2>2, <2>3
<1>7. Marked(MarkerRoot(e), e.extension, e.target, surface)
  <2> HIDE DEF e
  <2> QED  BY <1>1, <1>2, <1>6 DEF TargetMarked
<1> HIDE DEF e
<1>8. EntryHolds(e)
  BY <1>1, <1>3, <1>4, <1>7 DEF EntryHolds
<1> QED  BY <1>8 DEF e

LEMMA ExtensionEntryHolds ==
    ASSUME Core, Clean, NEW d \in ExtensionsIn(matrix)
    PROVE  EntryHolds(LedgerEntry(TRUE, d[2], d))
<1> DEFINE e == LedgerEntry(TRUE, d[2], d)
<1>1. e.dir = d /\ e.evidence = Evidence(d) /\ e.extension = TRUE /\ e.target = d[2]
  BY DEF LedgerEntry
<1>2. /\ d \in dirs /\ Len(d) = 2 /\ d[1] = "clients" /\ ExtensionMarked(d)
  BY DEF Clean, Recorded, ExtensionsIn, ClientDirs
<1>3. IsPrefix(<<"clients">>, d)
  <2>1. d \in Seq(STRING)
    BY <1>2, InputAssumption DEF Core, TypeOK
  <2> QED  BY <1>2, <2>1 DEF IsPrefix
<1> HIDE DEF e
<1>4. MarkerRoot(e) = <<d, "">>
  BY <1>1, <1>2 DEF MarkerRoot, ExtensionMarked, Marked
<1>5. Marked(MarkerRoot(e), e.extension, e.target, surface)
  BY <1>1, <1>2, <1>4 DEF ExtensionMarked
<1>6. EntryHolds(e)
  BY <1>1, <1>2, <1>3, <1>5 DEF EntryHolds
<1> QED  BY <1>6 DEF e

LEMMA EntriesDiffer ==
    ASSUME Core, Clean, NEW e \in ledger.entries, NEW f \in ledger.entries,
           e.extension = f.extension, e.target = f.target
    PROVE  e = f
<1>1. ledger.entries = TargetEntries(matrix, Len(Specs)) \union ExtensionEntries(ExtensionsIn(matrix))
  BY DEF Clean, Recorded
<1>2. CASE e \in TargetEntries(matrix, Len(Specs)) /\ f \in TargetEntries(matrix, Len(Specs))
  BY <1>2, NamesDiffer DEF TargetEntries, LedgerEntry, Indices
<1>3. CASE e \in ExtensionEntries(ExtensionsIn(matrix)) /\ f \in ExtensionEntries(ExtensionsIn(matrix))
  <2>1. PICK c, d \in ExtensionsIn(matrix) : e = LedgerEntry(TRUE, c[2], c)
                                            /\ f = LedgerEntry(TRUE, d[2], d)
    BY <1>3 DEF ExtensionEntries
  <2>2. /\ c \in Seq(STRING) /\ Len(c) = 2 /\ c[1] = "clients"
        /\ d \in Seq(STRING) /\ Len(d) = 2 /\ d[1] = "clients"
    BY InputAssumption DEF ExtensionsIn, ClientDirs, Core, TypeOK
  <2>3. c[2] = d[2]
    BY <2>1 DEF LedgerEntry
  <2>4. c = d
    BY <2>2, <2>3
  <2> QED  BY <2>1, <2>4
<1>4. CASE \/ e \in TargetEntries(matrix, Len(Specs)) /\ f \in ExtensionEntries(ExtensionsIn(matrix))
           \/ f \in TargetEntries(matrix, Len(Specs)) /\ e \in ExtensionEntries(ExtensionsIn(matrix))
  BY <1>4 DEF TargetEntries, ExtensionEntries, LedgerEntry
<1> QED  BY <1>1, <1>2, <1>3, <1>4

\* A clean repository passes the release check of its contract.
LEMMA CleanIsAccepted ==
    ASSUME Core, Clean, SharedIsPlain, \A i \in Indices : IsPrefix(<<"clients">>, matrix[i])
    PROVE  ClientContract
<1> DEFINE all == TargetEntries(matrix, Len(Specs)) \union ExtensionEntries(ExtensionsIn(matrix))
<1>1. /\ surface # None /\ depends # None /\ surface.interfaces = depends /\ finger = surface
      /\ SchemaErrors(surface.symbols) = {}
      /\ ledger = [surface |-> surface, entries |-> all]
  BY DEF Clean, Recorded
<1>2. ledger # None
  BY DEF Clean
<1>3. Cardinality(ledger.entries) >= Minimum
  <2>1. IsFiniteSet(dirs)
    BY FleetAssumption, FS_Subset DEF Core, TypeOK
  <2>2. Cardinality(all) \in Nat /\ Cardinality(all) >= Len(Specs)
    BY <2>1, EntriesCounted
  <2> HIDE DEF all
  <2> QED  BY <1>1, <2>2, FleetAssumption
<1>4. \A e, f \in ledger.entries : e.extension = f.extension /\ e.target = f.target => e = f
  BY EntriesDiffer
<1>5. \A e \in all : EntryHolds(e)
  BY TargetEntryHolds, ExtensionEntryHolds DEF TargetEntries, ExtensionEntries, Indices
<1>6. ASSUME NEW d \in ClientDirs PROVE CoveredBy(d, all)
  <2>1. CASE d \in ExtensionsIn(matrix)
    <3>1. LedgerEntry(TRUE, d[2], d) \in all /\ LedgerEntry(TRUE, d[2], d).dir = d
      BY <2>1 DEF ExtensionEntries, LedgerEntry
    <3>2. IsPrefix(d, d)
      BY DEF IsPrefix, ClientDirs
    <3> HIDE DEF all
    <3> QED  BY <3>1, <3>2 DEF CoveredBy
  <2>2. CASE d \notin ExtensionsIn(matrix)
    <3>1. PICK i \in Indices : IsPrefix(d, matrix[i])
      BY <2>2 DEF ExtensionsIn
    <3>2. /\ LedgerEntry(FALSE, Specs[i].name, matrix[i]) \in all
          /\ LedgerEntry(FALSE, Specs[i].name, matrix[i]).dir = matrix[i]
      BY DEF TargetEntries, LedgerEntry, Indices
    <3> HIDE DEF all
    <3> QED  BY <3>1, <3>2 DEF CoveredBy
  <2> QED  BY <2>1, <2>2
<1> HIDE DEF all
<1>7. ledger.entries = all /\ ledger.surface = surface
  BY <1>1
<1> QED  BY <1>1, <1>2, <1>3, <1>4, <1>5, <1>6, <1>7 DEF ClientContract

\* What a clean --write vouches for stays true, for every fleet, until someone changes
\* something: each target is recorded where it is with the digest of what is there, and
\* the script that guards releases accepts what the hardener accepted.
THEOREM AlwaysVouchedFor == FleetSpec => []VouchedFor
<1>1. IInv /\ Trusted => VouchedFor
  <2> SUFFICES ASSUME IInv, Clean
               PROVE  /\ \A i \in Indices : LedgerEntry(FALSE, Specs[i].name, matrix[i])
                                              \in ledger.entries
                      /\ (\A i \in Indices : IsPrefix(<<"clients">>, matrix[i])) /\ SharedIsPlain
                           => ClientContract
    BY DEF Trusted, VouchedFor
  <2>1. \A i \in Indices : LedgerEntry(FALSE, Specs[i].name, matrix[i]) \in ledger.entries
    BY DEF Clean, Recorded, TargetEntries, Indices
  <2> QED  BY <2>1, CleanIsAccepted DEF IInv
<1> QED  BY <1>1, AlwaysTrusted, PTL

-----------------------------------------------------------------------------
(* The metadata that developers wrote by hand.                                *)

LEMMA DeclaredNamesAreFew ==
    ASSUME NEW i \in Published
    PROVE  Len(DeclaredNames(Specs[i])) <= 3
<1>1. /\ Specs[i].zed \in STRING /\ Specs[i].zedAliases \in Seq(STRING)
      /\ Len(Specs[i].zedAliases) <= 2
      /\ DeclaredNames(Specs[i]) = <<Specs[i].zed>> \o Specs[i].zedAliases
  BY SpecIsStandard, OlderNamesDiffer DEF DeclaredNames, Published
<1> QED  BY <1>1

\* The native metadata found for a target depends only on what each name says.
LEMMA NativeUnmoved ==
    ASSUME NEW names, Len(names) \in 0..3, DOMAIN names = 1..Len(names),
           \A n : n \in DOMAIN targets /\ targets[n].native # None <=>
                  n \in DOMAIN targets' /\ targets'[n].native # None,
           \A n \in DOMAIN targets : n \in DOMAIN targets' /\ targets'[n].native = targets[n].native
    PROVE  NativeOf(names)' = NativeOf(names)
<1> DEFINE P(k) == names[k] \in DOMAIN targets /\ targets[names[k]].native # None
<1> DEFINE Q(k) == names[k] \in DOMAIN targets' /\ targets'[names[k]].native # None
<1>1. \A k : P(k) <=> Q(k)
  OBVIOUS
<1>2. CASE ~ \E k \in DOMAIN names : P(k)
  BY <1>1, <1>2 DEF NativeOf, Some
<1>3. CASE \E k \in DOMAIN names : P(k)
  <2> DEFINE least == CHOOSE k \in DOMAIN names : P(k) /\ \A j \in 1..(k - 1) : ~ P(j)
  <2> DEFINE leastAfter == CHOOSE k \in DOMAIN names : Q(k) /\ \A j \in 1..(k - 1) : ~ Q(j)
  <2>1. leastAfter = least
    BY <1>1
  <2>2. \E k \in DOMAIN names : P(k) /\ \A j \in 1..(k - 1) : ~ P(j)
    <3> HIDE DEF P
    <3>1. PICK k \in 1..3 : k \in DOMAIN names /\ P(k)
      BY <1>3
    <3> QED  BY <3>1
  <2>3. P(least)
    <3> HIDE DEF P
    <3> QED  BY <2>2
  <2>4. NativeOf(names) = targets[names[least]].native
    BY <1>3 DEF NativeOf, Some, First
  <2>5. NativeOf(names)' = targets'[names[leastAfter]].native
    BY <1>1, <1>3 DEF NativeOf, Some, First
  <2> QED  BY <2>1, <2>3, <2>4, <2>5
<1> QED  BY <1>2, <1>3

LEMMA StandardTargetsAre ==
    /\ DOMAIN targets \subseteq DOMAIN StandardTargets
    /\ \A n \in DOMAIN StandardTargets :
          StandardTargets[n].native = IF n \in DOMAIN targets THEN targets[n].native ELSE None
BY DEF StandardTargets, Updated, Entry

LEMMA NamesAre ==
    ASSUME NEW i \in Published
    PROVE  /\ Len(DeclaredNames(Specs[i])) \in 1..3
           /\ DOMAIN DeclaredNames(Specs[i]) = 1..Len(DeclaredNames(Specs[i]))
           /\ DeclaredNames(Specs[i])[1] = Specs[i].zed
<1> DEFINE n == Len(DeclaredNames(Specs[i]))
<1>1. n \in Nat \ {0} /\ n <= 3
  BY DeclaredNamesAre, DeclaredNamesAreFew
<1> HIDE DEF n
<1>2. n \in 1..3
  BY <1>1
<1> QED  BY <1>2, DeclaredNamesAre DEF n

LEMMA NativeStays ==
    ASSUME UNCHANGED targets, NEW names
    PROVE  NativeOf(names)' = NativeOf(names)
BY DEF NativeOf, Some, First

LEMMA NativeAfter ==
    ASSUME NEW names, Len(names) \in Nat \ {0}, DOMAIN names = 1..Len(names),
           names[1] \in DOMAIN targets', targets'[names[1]].native # None
    PROVE  NativeOf(names)' = targets'[names[1]].native
BY DEF NativeOf, Some, First

LEMMA StandardizeKeepsMetadata == Standardize => MetadataKept
<1> SUFFICES ASSUME Standardize, NEW i \in Published
             PROVE  NativeOf(DeclaredNames(Specs[i]))' = NativeOf(DeclaredNames(Specs[i]))
  BY DEF MetadataKept
<1>1. targets' = StandardTargets
  BY DEF Standardize
<1> DEFINE names == DeclaredNames(Specs[i])
<1>2. Len(names) \in 0..3 /\ DOMAIN names = 1..Len(names)
  BY NamesAre
<1> HIDE DEF names
<1>3. NativeOf(names)' = NativeOf(names)
  BY <1>1, <1>2, StandardTargetsAre, NativeUnmoved
<1> QED  BY <1>3 DEF names

\* The metadata under any name of a target moves to the one name it keeps.
LEMMA EnsureManifestKeepsMetadata == EnsureManifest => MetadataKept
<1> SUFFICES ASSUME EnsureManifest, NEW i \in Published,
                    NativeOf(DeclaredNames(Specs[i])) # None
             PROVE  NativeOf(DeclaredNames(Specs[i]))' = NativeOf(DeclaredNames(Specs[i]))
  BY DEF MetadataKept
<1>1. CASE targets' = targets
  BY <1>1, NativeStays
<1>2. CASE targets' = Rewritten
  <2>1. Specs[i].zed \in DOMAIN targets' /\ targets'[Specs[i].zed] = TargetEntry(i)
    BY <1>2, RewrittenIs
  <2>2. TargetEntry(i).native = NativeOf(DeclaredNames(Specs[i]))
    BY DEF TargetEntry, Entry
  <2>3. PICK names : names = DeclaredNames(Specs[i])
    OBVIOUS
  <2>4. Len(names) \in Nat \ {0} /\ DOMAIN names = 1..Len(names) /\ names[1] = Specs[i].zed
    BY <2>3, DeclaredNamesAre
  <2>5. NativeOf(names)' = targets'[Specs[i].zed].native
    BY <2>1, <2>2, <2>3, <2>4, NativeAfter
  <2> QED  BY <2>1, <2>2, <2>3, <2>5
<1> QED  BY <1>1, <1>2 DEF EnsureManifest

LEMMA OthersKeepTargets ==
    ASSUME FleetNext \/ UNCHANGED fleetVars, ~ Developers
    PROVE  UNCHANGED targets \/ EnsureManifest \/ Standardize
<1>1. CASE Start("write") \/ Start("check") \/ Crash \/ UNCHANGED fleetVars
  BY <1>1 DEF Start, Crash, work, fleetVars, vars
<1>2. CASE ChooseDir \/ EnterTarget \/ ScaffoldFile \/ EnsureManifest \/ EnsureMatrix
  BY <1>2 DEF ChooseDir, EnterTarget, ScaffoldFile, EnsureManifest, EnsureMatrix, work
<1>3. CASE LoadSurface \/ MergeSymbol \/ PublishSurface \/ Fingerprint
  BY <1>3 DEF LoadSurface, MergeSymbol, PublishSurface, Fingerprint, work
<1>4. CASE MarkTarget \/ SignTarget \/ RecordExtension \/ WriteLedger \/ Verify
  BY <1>4 DEF MarkTarget, SignTarget, RecordExtension, WriteLedger, Verify, work
<1>5. CASE Standardize \/ BaselineFile
  BY <1>5 DEF Standardize, BaselineFile
<1> QED  BY <1>1, <1>2, <1>3, <1>4, <1>5 DEF FleetNext, Next, Hardener, Writing

LEMMA ScriptsKeepMetadata ==
    ASSUME FleetNext \/ UNCHANGED fleetVars, ~ Developers
    PROVE  MetadataKept
<1>1. CASE UNCHANGED targets
  BY <1>1, NativeStays DEF MetadataKept
<1> QED  BY <1>1, OthersKeepTargets, EnsureManifestKeepsMetadata, StandardizeKeepsMetadata

-----------------------------------------------------------------------------
(* What the release checks accept stays accepted.  They require a directory   *)
(* of every published target, and the hardener chooses it for the target, or  *)
(* it was not there and nobody chooses it.                                    *)

Req(i) == RequiredDir(Specs[i])

DeclaredAsRequired ==
    /\ DOMAIN targets = Languages \union {"repository"}
    /\ \A i \in Published : targets[Specs[i].zed].dir = Req(i)

ChosenAsRequired ==
    DeclaredAsRequired /\ pc \in {"choose", "scaffold", "manifest"} =>
        \A i \in Published :
            /\ \A j \in Indices : chosen[j] # None /\ chosen[j] = Req(i) => j = i
            /\ chosen[i] \notin {None, Req(i)} =>
                  /\ pc = "choose" => Req(i) \notin dirs
                  /\ \A p \in DOMAIN files : p[1] # Req(i)

LEMMA RequiredOfOneOnly ==
    ASSUME NEW i \in Published, NEW j \in Indices, j # i
    PROVE  /\ Specs[j].canonical # Req(i)
           /\ j \in Published => Req(j) # Req(i)
           /\ j \in Published => \A k \in DOMAIN Specs[j].aliases : Specs[j].aliases[k] # Req(i)
<1>1. Specs[j] # Specs[i]
  BY FleetAssumption DEF Published
<1> QED  BY <1>1, SpecIsStandard, RequiredDirsDiffer DEF Published, Req

LEMMA PublishedFirst ==
    ASSUME NEW i \in Published, NEW j \in Indices, j < i
    PROVE  j \in Published
<1>1. PICK k \in DOMAIN TARGETS, l \in DOMAIN TARGETS :
          k < l /\ Specs[j] = TARGETS[k] /\ Specs[i] = TARGETS[l]
  BY FleetAssumption DEF Published
<1>2. k \in Nat /\ l \in Nat
  BY TargetsAreListed
<1>3. CASE ~ Specs[j].publish
  <2>1. l < k
    BY <1>1, <1>3, TargetsDiffer DEF Published
  <2> QED  BY <1>1, <1>2, <2>1
<1> QED  BY <1>3 DEF Published

\* In a manifest that the checks accept, no target has another name.
LEMMA OnlyPublishedDeclared ==
    ASSUME DeclaredAsRequired, NEW j \in Indices, NEW k \in DOMAIN Specs[j].zedAliases
    PROVE  Specs[j].zedAliases[k] \notin DOMAIN targets
<1>1. Specs[j].zedAliases[k] # "repository"
  BY SpecIsStandard, OlderNamesDiffer
<1>2. ASSUME NEW i \in Published PROVE Specs[j].zedAliases[k] # Specs[i].zed
  BY PublishedZed
<1> QED  BY <1>1, <1>2 DEF DeclaredAsRequired, Languages

\* Where the choice goes when no declared directory is there.
Fallback(spec) ==
    IF Exists(spec.canonical) THEN spec.canonical
    ELSE IF SharesRuntime(spec) THEN SharedTypescript
    ELSE IF Some(spec.aliases, Exists) THEN First(spec.aliases, Exists)
    ELSE spec.canonical

LEMMA FallbackIs ==
    ASSUME TypeOK, NEW j \in Indices, Fallback(Specs[j]) # Specs[j].canonical
    PROVE  \E k \in DOMAIN Specs[j].aliases :
              Fallback(Specs[j]) = Specs[j].aliases[k] /\ Exists(Specs[j].aliases[k])
<1> DEFINE spec == Specs[j]
<1>1. /\ DOMAIN spec.aliases \subseteq {1}
      /\ spec.runtime # "" => 1 \in DOMAIN spec.aliases /\ spec.aliases[1] = SharedTypescript
  BY SpecIsStandard, RequiredDirsDiffer
<1> HIDE DEF spec
<1>2. SharesRuntime(spec) => spec.runtime # "" /\ Exists(SharedTypescript)
  BY DEF SharesRuntime, IsFile, TypeOK, Exists
<1>3. Some(spec.aliases, Exists) =>
         /\ 1 \in DOMAIN spec.aliases /\ Exists(spec.aliases[1])
         /\ First(spec.aliases, Exists) = spec.aliases[1]
  <2> SUFFICES ASSUME Some(spec.aliases, Exists)
               PROVE  /\ 1 \in DOMAIN spec.aliases /\ Exists(spec.aliases[1])
                      /\ First(spec.aliases, Exists) = spec.aliases[1]
    OBVIOUS
  <2>1. 1 \in DOMAIN spec.aliases /\ Exists(spec.aliases[1])
    BY <1>1 DEF Some
  <2>2. \A m \in 1..(1 - 1) : ~ Exists(spec.aliases[m])
    OBVIOUS
  <2>3. \A k \in DOMAIN spec.aliases : k = 1
    BY <1>1
  <2> QED  BY <2>1, <2>2, <2>3 DEF First
<1>4. Fallback(spec) # spec.canonical
  BY DEF spec
<1>5. \E k \in DOMAIN spec.aliases : Fallback(spec) = spec.aliases[k] /\ Exists(spec.aliases[k])
  BY <1>1, <1>2, <1>3, <1>4 DEF Fallback
<1> QED  BY <1>5 DEF spec

LEMMA PreferredPublished ==
    ASSUME DeclaredAsRequired, NEW j \in Published
    PROVE  Preferred(Specs[j]) = IF Exists(Req(j)) THEN Req(j) ELSE Fallback(Specs[j])
<1> DEFINE IsThere(name) == name \in DOMAIN targets /\ Exists(targets[name].dir)
<1>1. PICK names : names = DeclaredNames(Specs[j])
  OBVIOUS
<1>2. /\ Len(names) \in Nat \ {0} /\ DOMAIN names = 1..Len(names)
      /\ names[1] = Specs[j].zed
      /\ \A k \in 2..Len(names) : names[k] \notin DOMAIN targets
  BY <1>1, DeclaredNamesAre, OnlyPublishedDeclared DEF Published
<1>3. names[1] \in DOMAIN targets /\ targets[names[1]].dir = Req(j)
  BY <1>2 DEF DeclaredAsRequired, Languages
<1>4. CASE Exists(Req(j))
  <2>1. 1 \in DOMAIN names /\ IsThere(names[1])
    BY <1>2, <1>3, <1>4
  <2>2. Some(names, IsThere) /\ First(names, IsThere) = names[1]
    BY <1>2, <2>1 DEF Some, First
  <2> QED  BY <1>1, <1>3, <1>4, <2>2 DEF Preferred
<1>5. CASE ~ Exists(Req(j))
  <2>1. ~ Some(names, IsThere)
    BY <1>2, <1>3, <1>5 DEF Some
  <2> QED  BY <1>1, <1>5, <2>1 DEF Preferred, Fallback
<1> QED  BY <1>4, <1>5

LEMMA PreferredUnpublished ==
    ASSUME DeclaredAsRequired, NEW j \in Indices \ Published
    PROVE  Preferred(Specs[j]) = Fallback(Specs[j])
<1> DEFINE IsThere(name) == name \in DOMAIN targets /\ Exists(targets[name].dir)
<1>1. DeclaredNames(Specs[j]) = Specs[j].zedAliases
  BY DEF DeclaredNames, Published
<1>2. ~ Some(DeclaredNames(Specs[j]), IsThere)
  BY <1>1, OnlyPublishedDeclared DEF Some
<1> QED  BY <1>2 DEF Preferred, Fallback

LEMMA ChoosingIs ==
    ASSUME Core, pc = "choose"
    PROVE  /\ at \in Indices /\ TypeOK
           /\ \A i \in Indices : chosen[i] # None <=> i < at
           /\ Claimed = {chosen[j] : j \in 1..(at - 1)}
BY DEF Core, TypeOK, PerTarget, RunInv, ChosenSoFar, Claimed

\* No target is given the directory that is required of another.
LEMMA RequiredIsLeft ==
    ASSUME Core, ChosenAsRequired, DeclaredAsRequired, pc = "choose", Selected \notin Claimed,
           NEW i \in Published, i # at
    PROVE  Selected # Req(i)
<1> SUFFICES ASSUME Selected = Req(i) PROVE FALSE
  OBVIOUS
<1>1. /\ at \in Indices /\ TypeOK /\ i \in Indices
      /\ \A j \in Indices : chosen[j] # None <=> j < at
  BY ChoosingIs DEF Published
<1>2. /\ Specs[at].canonical # Req(i)
      /\ at \in Published => Req(at) # Req(i)
      /\ at \in Published => \A k \in DOMAIN Specs[at].aliases : Specs[at].aliases[k] # Req(i)
  BY <1>1, RequiredOfOneOnly
<1>3. Selected = Preferred(Specs[at]) /\ Req(i) \in Dirs
  BY <1>2 DEF Selected, Inside
<1>4. CASE at \in Published
  <2>1. Preferred(Specs[at]) = Fallback(Specs[at])
    BY <1>2, <1>3, <1>4, PreferredPublished
  <2> QED  BY <1>1, <1>2, <1>3, <1>4, <2>1, FallbackIs
<1>5. CASE at \notin Published
  <2>1. Exists(Req(i))
    BY <1>1, <1>2, <1>3, <1>5, PreferredUnpublished, FallbackIs
  <2>2. Req(i) \in dirs
    BY <1>3, <2>1, FleetAssumption DEF Exists
  <2>3. i < at
    <3>1. ~ at < i
      BY <1>1, <1>5, PublishedFirst
    <3> QED  BY <1>1, <3>1 DEF Indices
  <2>4. chosen[i] = Req(i)
    BY <1>1, <2>2, <2>3 DEF ChosenAsRequired
  <2>5. Req(i) \in Claimed
    BY <1>1, <2>3, <2>4 DEF Claimed, Indices
  <2> QED  BY <2>5
<1> QED  BY <1>4, <1>5

\* A target is given the directory that is required of it, if it is there.
LEMMA RequiredIsChosen ==
    ASSUME Core, ChosenAsRequired, DeclaredAsRequired, pc = "choose", at \in Published,
           Req(at) \in dirs
    PROVE  Selected = Req(at)
<1>1. /\ at \in Indices /\ TypeOK
      /\ \A j \in Indices : chosen[j] # None <=> j < at
  BY ChoosingIs
<1>2. Preferred(Specs[at]) = Req(at)
  BY PreferredPublished DEF Exists
<1>3. Inside(Req(at))
  BY <1>1 DEF Inside, TypeOK
<1>4. Req(at) \notin Claimed
  BY <1>1 DEF Claimed, ChosenAsRequired, Indices
<1>5. ~ ReservedForAnother(Req(at))
  BY <1>1, RequiredOfOneOnly DEF ReservedForAnother
<1> QED  BY <1>2, <1>3, <1>4, <1>5 DEF Selected

LEMMA ChooseDirAsRequired == Core /\ ChosenAsRequired /\ ChooseDir => ChosenAsRequired'
<1> SUFFICES ASSUME Core, ChosenAsRequired, ChooseDir, DeclaredAsRequired', pc' \in {"choose", "scaffold"},
                    NEW i \in Published
             PROVE  (/\ \A j \in Indices : chosen[j] # None /\ chosen[j] = Req(i) => j = i
                     /\ chosen[i] \notin {None, Req(i)} =>
                           Req(i) \notin dirs /\ \A p \in DOMAIN files : p[1] # Req(i))'
  <2>1. ChooseDir => pc' \in {"idle", "choose", "scaffold", "rechoose", "verify"}
    BY DEF ChooseDir, Raise, NextTarget
  <2> QED  BY <2>1 DEF ChosenAsRequired
<1>1. /\ pc = "choose" /\ Selected \notin Claimed /\ UNCHANGED <<dirs, files, targets>>
      /\ chosen' = [chosen EXCEPT ![at] = Selected]
  BY DEF ChooseDir, Raise, NextTarget, work
<1>2. /\ at \in Indices /\ TypeOK /\ \A j \in Indices : chosen[j] # None <=> j < at
  BY <1>1, ChoosingIs
<1>3. \A j \in Indices : chosen'[j] = IF j = at THEN Selected ELSE chosen[j]
  BY <1>1, <1>2 DEF TypeOK
<1>4. DeclaredAsRequired
  BY <1>1 DEF DeclaredAsRequired
<1>5. \A j \in Indices : chosen'[j] # None /\ chosen'[j] = Req(i) => j = i
  BY <1>1, <1>2, <1>3, <1>4, RequiredIsLeft DEF ChosenAsRequired
<1>6. ASSUME chosen'[i] \notin {None, Req(i)} PROVE Req(i) \notin dirs
  <2>1. CASE i = at
    BY <1>1, <1>2, <1>3, <1>4, <1>6, <2>1, RequiredIsChosen
  <2>2. CASE i # at
    BY <1>1, <1>3, <1>4, <1>6, <2>2 DEF ChosenAsRequired, Published
  <2> QED  BY <2>1, <2>2
<1>7. Req(i) \notin dirs => \A p \in DOMAIN files : p[1] # Req(i)
  BY <1>2 DEF TypeOK
<1> QED  BY <1>1, <1>5, <1>6, <1>7

\* A file is written only into a directory that was chosen.
LEMMA LayoutAsRequired == Core /\ ChosenAsRequired /\ (EnterTarget \/ ScaffoldFile) => ChosenAsRequired'
<1> SUFFICES ASSUME Core, ChosenAsRequired, EnterTarget \/ ScaffoldFile PROVE ChosenAsRequired'
  OBVIOUS
<1>1. /\ at \in Indices /\ pc = "scaffold" /\ chosen[at] # None
      /\ chosen \in [Indices -> Dirs \union {None}]
  BY DEF EnterTarget, ScaffoldFile, Core, TypeOK, PerTarget, RunInv, ChosenSoFar
<1>2. pc' \in {"scaffold", "manifest"} /\ UNCHANGED <<targets, chosen>>
  BY <1>1 DEF EnterTarget, ScaffoldFile, NextTarget
<1>3. \A p \in DOMAIN files' : p \in DOMAIN files \/ p[1] = chosen[at]
  BY DEF EnterTarget, ScaffoldFile, Put
<1>4. ASSUME DeclaredAsRequired', NEW i \in Published
      PROVE  /\ \A j \in Indices : chosen'[j] # None /\ chosen'[j] = Req(i) => j = i
             /\ chosen'[i] \notin {None, Req(i)} => \A p \in DOMAIN files' : p[1] # Req(i)
  <2>1. DeclaredAsRequired
    BY <1>2, <1>4 DEF DeclaredAsRequired
  <2>2. /\ \A j \in Indices : chosen[j] # None /\ chosen[j] = Req(i) => j = i
        /\ chosen[i] \notin {None, Req(i)} => \A p \in DOMAIN files : p[1] # Req(i)
    BY <1>1, <2>1 DEF ChosenAsRequired
  <2> QED  BY <1>1, <1>2, <1>3, <2>2
<1> QED  BY <1>2, <1>4 DEF ChosenAsRequired

LEMMA NextAsRequired == Core /\ ChosenAsRequired /\ [FleetNext]_fleetVars => ChosenAsRequired'
<1> SUFFICES ASSUME Core, ChosenAsRequired, FleetNext \/ UNCHANGED fleetVars PROVE ChosenAsRequired'
  OBVIOUS
<1>1. CASE pc' \notin {"choose", "scaffold", "manifest"}
  BY <1>1 DEF ChosenAsRequired
<1>2. CASE Start("write") \/ Start("check")
  <2>1. \A i \in Indices : chosen'[i] = None
    BY <1>2 DEF Start, Core, RunInv, ChosenSoFar, Unchosen
  <2> QED  BY <2>1 DEF ChosenAsRequired, Published
<1>3. CASE UNCHANGED fleetVars
  BY <1>3 DEF ChosenAsRequired, DeclaredAsRequired, fleetVars, vars, work, run
<1>4. CASE Developers \/ Crash
  BY <1>1, <1>4 DEF Developers, WriteFile, DeclareTarget, Depend, EditSurface, MoveDirectory,
                    Edited, run, Crash
<1>5. CASE EnsureManifest \/ EnsureMatrix \/ LoadSurface \/ MergeSymbol \/ PublishSurface \/ Fingerprint
  BY <1>1, <1>5 DEF EnsureManifest, EnsureMatrix, LoadSurface, MergeSymbol, PublishSurface,
                    Fingerprint, Raise
<1>6. CASE MarkTarget \/ SignTarget \/ RecordExtension \/ WriteLedger \/ Verify
  BY <1>1, <1>6 DEF MarkTarget, SignTarget, RecordExtension, WriteLedger, Verify, NextTarget
<1>7. CASE Standardize \/ BaselineFile
  BY <1>1, <1>7 DEF Standardize, BaselineFile, NextTarget
<1> QED  BY <1>2, <1>3, <1>4, <1>5, <1>6, <1>7, ChooseDirAsRequired, LayoutAsRequired
         DEF FleetNext, Next, Hardener, Writing

\* What the release checks ask of the manifest and of files, in a repository that grows.
LEMMA ReleasableGrows ==
    ASSUME Releasable, UNCHANGED <<targets, depends>>, DOMAIN files \subseteq DOMAIN files'
    PROVE  Releasable'
<1>1. \A dir, name : IsFile(dir, name) => IsFile(dir, name)'
  BY DEF IsFile
<1>2. AdaptersValid'
  BY DEF Releasable, AdaptersValid
<1>3. ReleaseSet'
  BY <1>1 DEF Releasable, ReleaseSet
<1>4. RuntimeEntryPoints'
  BY <1>1 DEF Releasable, RuntimeEntryPoints
<1> QED  BY <1>2, <1>3, <1>4 DEF Releasable

LEMMA AdaptersAgree ==
    ASSUME NEW i \in Published
    PROVE  Specs[i].adapter = EXPECTED[Specs[i].zed] /\ Specs[i].adapter \in ALLOWED
BY SpecIsStandard, TablesAgree DEF Published

LEMMA ReleasableIsAsRequired == Releasable => DeclaredAsRequired
BY DEF Releasable, ReleaseSet, DeclaredAsRequired, Languages, Req, RequiredDir

\* The rewritten manifest of a repository that the checks accept.
LEMMA RewrittenReleasable ==
    ASSUME Core, ChosenAsRequired, Releasable, pc = "manifest", targets' = Rewritten,
           UNCHANGED <<files, depends>>
    PROVE  Releasable'
<1>1. /\ ReleaseSet /\ AdaptersValid /\ DOMAIN targets = Languages \union {"repository"}
      /\ Languages = {Specs[i].zed : i \in Published} /\ DeclaredAsRequired
  BY ReleasableIsAsRequired DEF Releasable, ReleaseSet, Languages
<1>2. /\ DOMAIN targets' = Languages \union {"repository"}
      /\ targets'["repository"] = RepositoryEntry
      /\ \A i \in Published : targets'[Specs[i].zed] = TargetEntry(i)
  BY <1>1, RewrittenIs
<1>3. "repository" \notin Languages
  BY <1>1, PublishedZed
<1>4. ASSUME NEW i \in Published PROVE chosen[i] = Req(i)
  <2>1. chosen[i] # None
    BY DEF Core, RunInv, ChosenSoFar, Published
  <2>2. IsFile(Req(i), REQUIRED_TARGETS[Specs[i].zed].native)
    BY <1>1 DEF ReleaseSet, Req, RequiredDir
  <2>3. \E p \in DOMAIN files : p[1] = Req(i)
    BY <2>2 DEF IsFile
  <2> QED  BY <1>1, <2>1, <2>3 DEF ChosenAsRequired
<1>5. ASSUME NEW i \in Published
      PROVE  /\ targets'[Specs[i].zed].dir = Req(i)
             /\ targets'[Specs[i].zed].adapter = Specs[i].adapter
             /\ targets[Specs[i].zed].native # None =>
                   targets'[Specs[i].zed].native = targets[Specs[i].zed].native
  <2>1. targets'[Specs[i].zed] = Entry(Req(i), Specs[i].adapter, NativeOf(DeclaredNames(Specs[i])))
    BY <1>2, <1>4 DEF TargetEntry
  <2>2. Specs[i].zed \in DOMAIN targets
    BY <1>1
  <2>3. targets[Specs[i].zed].native # None =>
           NativeOf(DeclaredNames(Specs[i])) = targets[Specs[i].zed].native
    <3>1. PICK names : names = DeclaredNames(Specs[i])
      OBVIOUS
    <3> QED  BY <2>2, <3>1, DeclaredNamesAre, NativeOfFirst
  <2> QED  BY <2>1, <2>3 DEF Entry
<1>6. AdaptersValid'
  BY <1>1, <1>2, <1>3, <1>5, AdaptersAgree DEF AdaptersValid
<1>7. ReleaseSet'
  <2>1. depends' = "^0.1.0"
    BY <1>1 DEF ReleaseSet
  <2>2. ASSUME NEW n \in Languages
        PROVE  /\ targets'[n].dir = REQUIRED_TARGETS[n].dir
               /\ IsFile(targets[n].dir, REQUIRED_TARGETS[n].native)'
    <3>1. PICK i \in Published : n = Specs[i].zed
      BY <1>1
    <3>2. targets'[n].dir = targets[n].dir /\ targets[n].dir = REQUIRED_TARGETS[n].dir
      BY <1>1, <1>5, <3>1 DEF ReleaseSet, Req, RequiredDir
    <3>3. IsFile(targets[n].dir, REQUIRED_TARGETS[n].native)
      BY <1>1 DEF ReleaseSet
    <3> QED  BY <3>2, <3>3 DEF IsFile
  <2>3. targets'["repository"].dir = <<>>
    BY <1>2 DEF RepositoryEntry, Entry
  <2>4. ASSUME NEW n \in Languages \intersect {"golang", "java", "kotlin"}
        PROVE  targets'[n].native # None
    <3>1. PICK i \in Published : n = Specs[i].zed
      BY <1>1
    <3> QED  BY <1>1, <1>5, <3>1 DEF ReleaseSet
  <2> QED  BY <1>2, <2>1, <2>2, <2>3, <2>4 DEF ReleaseSet, Languages, Published
<1>8. RuntimeEntryPoints'
  BY DEF Releasable, RuntimeEntryPoints, IsFile
<1> QED  BY <1>6, <1>7, <1>8 DEF Releasable

LEMMA FilesGrow ==
    ASSUME FleetNext \/ UNCHANGED fleetVars, ~ Developers
    PROVE  DOMAIN files \subseteq DOMAIN files'
<1>1. CASE UNCHANGED files
  BY <1>1
<1>2. CASE ScaffoldFile \/ BaselineFile
  BY <1>2 DEF ScaffoldFile, BaselineFile, Put
<1> QED  BY <1>1, <1>2, OthersKeep

\* The steps of the hardener are no developer's and none of the standardizer's first.
LEMMA HardenerIs ==
    ASSUME TypeOK, Hardener
    PROVE  pc' # "baseline" /\ ~ Developers /\ UNCHANGED depends
<1> SUFFICES pc' # "baseline" /\ UNCHANGED <<edits, depends>>
  <2>1. Developers => edits' = edits + 1
    BY DEF Developers, WriteFile, DeclareTarget, Depend, EditSurface, MoveDirectory, Edited
  <2>2. edits \in Nat
    BY FleetAssumption DEF TypeOK
  <2> QED  BY <2>1, <2>2
<1>1. CASE Start("write") \/ Start("check") \/ Crash
  BY <1>1 DEF Start, Crash, work
<1>2. CASE ChooseDir \/ LoadSurface \/ PublishSurface
  BY <1>2 DEF ChooseDir, LoadSurface, PublishSurface, Raise, Step, NextTarget, work
<1>3. CASE EnterTarget \/ ScaffoldFile \/ EnsureManifest \/ EnsureMatrix
  BY <1>3 DEF EnterTarget, ScaffoldFile, EnsureManifest, EnsureMatrix, NextTarget, Step, work
<1>4. CASE MergeSymbol \/ Fingerprint \/ MarkTarget \/ SignTarget
  BY <1>4 DEF MergeSymbol, Fingerprint, MarkTarget, SignTarget, NextTarget, Step, work
<1>5. CASE RecordExtension \/ WriteLedger \/ Verify
  BY <1>5 DEF RecordExtension, WriteLedger, Verify, Step, work
<1> QED  BY <1>1, <1>2, <1>3, <1>4, <1>5 DEF Hardener, Writing

LEMMA HardenerKeepsReleasable ==
    ASSUME Core, ChosenAsRequired, Releasable, FleetNext, Hardener
    PROVE  Releasable'
<1>1. pc' # "baseline" /\ ~ Developers /\ UNCHANGED depends
  BY HardenerIs DEF Core
<1>2. DOMAIN files \subseteq DOMAIN files'
  BY <1>1, FilesGrow
<1>3. CASE UNCHANGED targets
  BY <1>1, <1>2, <1>3, ReleasableGrows
<1>4. CASE EnsureManifest
  <2>1. UNCHANGED files /\ pc = "manifest"
    BY <1>4 DEF EnsureManifest
  <2>2. CASE targets' = Rewritten
    BY <1>1, <2>1, <2>2, RewrittenReleasable
  <2> QED  BY <1>3, <1>4, <2>2 DEF EnsureManifest
<1>5. ~ Standardize
  BY <1>1 DEF Standardize
<1> QED  BY <1>1, <1>3, <1>4, <1>5, OthersKeepTargets

\* No script, in whatever order they run and wherever they are killed, takes anything
\* from developers: their files stay as they are, the metadata they gave a published
\* target moves with it, every symbol keeps what was declared of it; and the hardener
\* leaves a repository that the release checks accept one that they accept.
THEOREM OwnWorkIsAlwaysKept == FleetSpec => OwnWorkKept
<1>1. FleetInit => DraftKept /\ ChosenAsRequired
  BY DEF FleetInit, Init, DraftKept, ChosenAsRequired
<1>2. IInv /\ DraftKept /\ ChosenAsRequired /\ [FleetNext]_fleetVars
          => [/\ Developers \/ (SourcesKept /\ MetadataKept /\ SymbolsKept)
              /\ Releasable /\ Hardener => Releasable']_fleetVars
  <2> SUFFICES ASSUME IInv, DraftKept, ChosenAsRequired, FleetNext
               PROVE  /\ Developers \/ (SourcesKept /\ MetadataKept /\ SymbolsKept)
                      /\ Releasable /\ Hardener => Releasable'
    OBVIOUS
  <2>1. ~ Developers => SourcesKept
    BY OthersKeep, ScriptsKeepSources DEF SourcesKept
  <2>2. ~ Developers => SymbolsKept
    BY OthersKeep, PublishKeepsSymbols DEF SymbolsKept
  <2>3. ~ Developers => MetadataKept
    BY ScriptsKeepMetadata
  <2>4. Releasable /\ Hardener => Releasable'
    BY HardenerKeepsReleasable DEF IInv
  <2> QED  BY <2>1, <2>2, <2>3, <2>4
<1>3. IInv /\ ChosenAsRequired /\ [FleetNext]_fleetVars => ChosenAsRequired'
  BY NextAsRequired DEF IInv
<1> QED  BY AlwaysIInv, DraftStaysKept, <1>1, <1>2, <1>3, PTL DEF FleetSpec, OwnWorkKept

=============================================================================
