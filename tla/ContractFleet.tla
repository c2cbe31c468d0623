--------------------------- MODULE ContractFleet ---------------------------
(***************************************************************************)
(* A repository of client SDKs, the developers who edit it, and the        *)
(* hardener, scripts/harden_client_contract.py, which runs again and again *)
(* to lay out a standard fleet of targets, to complete the declared API    *)
(* and to record what every target implements (--write), or only to judge  *)
(* what is there (--check).  A run writes file by file and may be killed   *)
(* between two writes; the next run starts over from what it finds.        *)
(* Developers edit between runs.  A digest is the value it is taken of,    *)
(* and no path is a symbolic link.                                         *)
(***************************************************************************)
EXTENDS ApiSurface, FiniteSets, SequencesExt, FleetTable

CONSTANTS
    Specs,       \* the standard targets: some of TARGETS, in that order
    Standard,    \* the symbols every surface gets, with no id yet
    Kinds,       \* the kinds of which a public and a private symbol is required
    Minimum,     \* MINIMUM_TARGETS
    CoreTargets, \* MINIMUM_TARGETS - 2
    Dirs,        \* the directories inside the repository, <<>> is its root
    Layouts,     \* the repositories the first run may find
    Edits,       \* the edits developers make
    MaxEdits,    \* bound: edits
    MaxCrashes   \* bound: runs killed

Indices  == 1..Len(Specs)
Contents == {"old", "template", "own", "edited"}  \* "old": an older template, else a script's
Own      == {"own", "edited"}                     \* what developers wrote
Outside  == <<"..">>            \* a declared directory that leaves the repository
Versions == Edits.versions \union {"^0.1.0"}
Places   == Dirs \X ({""} \union {Specs[i].runtime : i \in Indices})

\* An entry of [targets]: native stands for the registry metadata given by hand.
Entry(dir, adapter, native) == [dir |-> dir, adapter |-> adapter, native |-> native]

ASSUME FleetAssumption ==
    /\ Specs \in Seq(Fleet) /\ Specs # <<>>
    /\ \A i, j \in Indices : Specs[i].canonical = Specs[j].canonical => i = j
    /\ \A i, j \in Indices : i < j =>
          \E k, l \in DOMAIN TARGETS : k < l /\ Specs[i] = TARGETS[k] /\ Specs[j] = TARGETS[l]
    /\ IsFiniteSet(Dirs) /\ \A i \in Indices : Specs[i].canonical \in Dirs
    /\ <<>> \in Dirs /\ SharedTypescript \in Dirs /\ Outside \notin Dirs /\ None \notin Dirs
    /\ Standard \in Seq(Symbol) /\ Standard # <<>> /\ None \notin Surface(Versions)
    /\ Minimum \in Nat /\ Minimum <= Len(Specs)
    /\ MaxEdits \in Nat /\ MaxCrashes \in Nat

VARIABLES
    dirs,      \* the directories there are
    files,     \* <<directory, file>> -> content
    targets,   \* [targets] of .zpkg.toml: name -> entry
    depends,   \* the version of its *-interfaces dependency, or None
    surface,   \* api-surface.json, or None
    finger,    \* .api-surface.sha256, or None
    markers,   \* place -> .zed-client-contract.json
    shas,      \* place -> .zed-api-surface.sha256
    ledger,    \* contract-manifest.json, or None
    matrix,    \* client-contract-matrix.json: the directory of each target, or None
    pc,        \* where the run is, "idle" between runs
    mode,      \* "write" or "check"
    at,        \* the target, or the standard symbol, it works on
    file,      \* the file of the scaffold it writes next, 0 before the first
    chosen,    \* the directory chosen for each target so far
    draft,     \* the surface in memory
    entries,   \* the entries of the next contract-manifest.json
    trust,     \* history: "none", "checked" when a run found no error since the last
               \* change, "written" when it also recorded the directories in use
    edits, crashes

work     == <<dirs, files, targets, depends, surface>>
contract == <<finger, markers, shas, ledger, matrix>>
run      == <<pc, mode, at, file, chosen, draft, entries>>
vars     == <<work, contract, run, trust, edits, crashes>>
-----------------------------------------------------------------------------
(* Helpers on paths and on functions that are defined where something is.   *)

Put(f, key, value) == [k \in DOMAIN f \union {key} |-> IF k = key THEN value ELSE f[k]]

Parents(dir) == {SubSeq(dir, 1, n) : n \in 0..Len(dir)}

\* Layouts and edits are of directories that have their parents.
ASSUME InputAssumption ==
    /\ \A d \in Dirs : d \in Seq(STRING) /\ Parents(d) \subseteq Dirs
    /\ \A l \in Layouts :
        /\ \A p \in DOMAIN l.files : p[1] \in Dirs /\ l.files[p] \in Contents
        /\ \A n \in DOMAIN l.targets : l.targets[n].dir \in Dirs \union {Outside}
        /\ l.depends \in Versions \union {None}
    /\ \A e \in Edits.written : e[1] \in Dirs /\ e[3] \in Contents
    /\ \A e \in Edits.declared : e[2].dir \in Dirs \union {Outside}
    /\ Edits.symbols \subseteq Symbol /\ Edits.names \subseteq STRING

\* Whether some element of a sequence passes a test, and the first that does.
Some(seq, Test(_))  == \E k \in DOMAIN seq : Test(seq[k])
First(seq, Test(_)) ==
    seq[CHOOSE k \in DOMAIN seq : Test(seq[k]) /\ \A j \in 1..(k - 1) : ~ Test(seq[j])]

Inside(dir) == dir \in Dirs
Exists(dir) == dir \in dirs \/ dir = Outside

IsFile(dir, name) == <<dir, name>> \in DOMAIN files

\* Everything below a directory that counts as source or as export metadata.
Evidence(dir) == Restrict(files, {p \in DOMAIN files : IsPrefix(dir, p[1])})

HasProduct(dir) ==
    \E p \in DOMAIN files : p[1] = dir /\ p[2] \notin MetadataFiles
-----------------------------------------------------------------------------
(* The choice of a directory for a target.                                  *)

DeclaredNames(spec) == IF spec.publish THEN <<spec.zed>> \o spec.zedAliases ELSE spec.zedAliases

SharesRuntime(spec) ==
    /\ spec.runtime # ""
    /\ IsFile(SharedTypescript, "package.json")
    /\ IsFile(SharedTypescript, RuntimeSource(spec.runtime))

\* The first of: a declared directory, the canonical one, the shared package, an
\* alias, each if it is there.
Preferred(spec) ==
    LET names         == DeclaredNames(spec)
        IsThere(name) == name \in DOMAIN targets /\ Exists(targets[name].dir)
    IN  IF Some(names, IsThere) THEN targets[First(names, IsThere)].dir
        ELSE IF Exists(spec.canonical) THEN spec.canonical
        ELSE IF SharesRuntime(spec) THEN SharedTypescript
        ELSE IF Some(spec.aliases, Exists) THEN First(spec.aliases, Exists)
        ELSE spec.canonical

Claimed == {chosen[i] : i \in 1..(at - 1)}

\* Faulty variant: no canonical directory is kept for its own target.
ReservedForNone(dir) == FALSE

ReservedForAnother(dir) == \E i \in Indices \ {at} : Specs[i].canonical = dir

Selected ==
    LET spec == Specs[at]
        dir  == Preferred(spec)
    IN  IF Inside(dir) /\ dir \notin Claimed /\ ~ ReservedForAnother(dir)
        THEN dir ELSE spec.canonical
-----------------------------------------------------------------------------
(* The manifest a run leaves.                                               *)

DeclaredDirs == {n \in DOMAIN targets : targets[n].dir # <<>>}
SafeDirs     == {n \in DeclaredDirs : Inside(targets[n].dir) /\ targets[n].dir[1] = "clients"}

\* A complete publish matrix belongs to its repository.
Mature == SafeDirs = DeclaredDirs /\ Cardinality(SafeDirs) >= CoreTargets

Published == {i \in Indices : Specs[i].publish}

LegacyRoot == IF "contract" \in DOMAIN targets /\ targets["contract"].dir = <<>>
              THEN {"contract"} ELSE {}

\* The names a run removes: those of a target that has another name, or none.
Retired == LegacyRoot \union UNION {Range(Specs[i].zedAliases) : i \in Indices}

\* What the first of these entries that has native metadata says.
NativeOf(names) ==
    LET described(name) == name \in DOMAIN targets /\ targets[name].native # None
    IN  IF Some(names, described) THEN targets[First(names, described)].native ELSE None

RepositoryEntry ==
    Entry(<<>>,
          IF "repository" \in DOMAIN targets /\ LegacyRoot = {}
          THEN targets["repository"].adapter ELSE None,
          NativeOf(IF LegacyRoot = {} THEN <<"repository">> ELSE <<"repository", "contract">>))

\* Faulty variant: the metadata under an older name of the target is not looked for.
TargetEntryForgetsAlias(i) == Entry(chosen[i], Specs[i].adapter, NativeOf(<<Specs[i].zed>>))

TargetEntry(i) == Entry(chosen[i], Specs[i].adapter, NativeOf(DeclaredNames(Specs[i])))

Rewritten ==
    LET zeds == {Specs[i].zed : i \in Published}
    IN  [n \in ((DOMAIN targets \ Retired) \union zeds \union {"repository"}) |->
            IF n = "repository" THEN RepositoryEntry
            ELSE IF n \in zeds THEN TargetEntry(CHOOSE i \in Published : Specs[i].zed = n)
            ELSE targets[n]]
-----------------------------------------------------------------------------
(* What a run records about a client, and what it finds when it judges.     *)

InSharedTypescript(i) == Specs[i].runtime # "" /\ chosen[i] = SharedTypescript

\* The markers of targets that share the TypeScript package lie side by side.
MarkerPlace(i) == <<chosen[i], IF InSharedTypescript(i) THEN Specs[i].runtime ELSE "">>

Marker(extension, target, digest) ==
    [extension |-> extension, target |-> target, surface |-> digest]

LedgerEntry(extension, target, dir) ==
    [extension |-> extension, target |-> target, dir |-> dir, evidence |-> Evidence(dir)]

ClientDirs == {d \in dirs : Len(d) = 2 /\ d[1] = "clients"}

\* The client directories that are no standard target's, nor hold one.
Extensions == {d \in ClientDirs : \A i \in Indices : ~ IsPrefix(d, chosen[i])}

CoveredBy(d, listed) == \E e \in listed : IsPrefix(d, e.dir)

Marked(place, extension, target, digest) ==
    /\ place \in DOMAIN shas /\ shas[place] = digest
    /\ place \in DOMAIN markers /\ markers[place] = Marker(extension, target, digest)

LedgerErrors ==
    IF ledger = None THEN {"no_ledger"}
    ELSE LET Failing == [
            count     |-> Cardinality(ledger.entries) # Len(Specs) + Cardinality(Extensions),
            drifted   |-> \E e \in ledger.entries : e.dir \in dirs /\ e.evidence # Evidence(e.dir),
            uncovered |-> \E d \in ClientDirs : ~ CoveredBy(d, ledger.entries)]
         IN  {e \in DOMAIN Failing : Failing[e]}

ManifestErrors ==
    LET Failing == [
            escapes |-> \E n \in DOMAIN targets : ~ Inside(targets[n].dir),
            shares  |-> \E n, m \in DOMAIN targets :
                            n # m /\ targets[n].dir = targets[m].dir /\ Inside(targets[n].dir)]
    IN  {e \in DOMAIN Failing : Failing[e]}

Verdict ==
    LET Failing == [
            missing  |-> \E i \in Indices : chosen[i] \notin dirs,
            unmarked |-> \/ \E i \in Indices :
                              /\ chosen[i] \in dirs
                              /\ ~ Marked(MarkerPlace(i), FALSE, Specs[i].name, surface)
                         \/ \E d \in Extensions : ~ Marked(<<d, "">>, TRUE, d[2], surface),
            matrix   |-> matrix = None]
    IN  IF surface = None THEN {"no_surface"}
        ELSE SchemaErrors(surface.symbols) \union SemanticErrors(surface.symbols, Kinds)
             \union ManifestErrors
             \union {e \in DOMAIN Failing : Failing[e]} \union LedgerErrors
-----------------------------------------------------------------------------
Unchosen == [i \in Indices |-> None]

\* What a process holds in memory when it starts, and nothing of it is left after.
Clear ==
    /\ mode' = "check" /\ at' = 1 /\ file' = 0
    /\ chosen' = Unchosen /\ draft' = None /\ entries' = {}

Init ==
    /\ \E l \in Layouts :
        /\ dirs = UNION {Parents(p[1]) : p \in DOMAIN l.files}
        /\ files = l.files /\ targets = l.targets /\ depends = l.depends
    /\ surface = None /\ finger = None /\ ledger = None /\ matrix = None
    /\ markers = <<>> /\ shas = <<>>
    /\ pc = "idle" /\ mode = "check" /\ at = 1 /\ file = 0
    /\ chosen = Unchosen /\ draft = None /\ entries = {}
    /\ trust = "none" /\ edits = 0 /\ crashes = 0
-----------------------------------------------------------------------------
(* Developers, between two runs.                                            *)

Edited ==
    /\ pc = "idle" /\ edits < MaxEdits
    /\ edits' = edits + 1 /\ trust' = "none"
    /\ UNCHANGED <<contract, run, crashes>>

WriteFile ==
    /\ Edited
    /\ \E e \in Edits.written :
        /\ dirs' = dirs \union Parents(e[1])
        /\ files' = Put(files, <<e[1], e[2]>>, e[3])
    /\ UNCHANGED <<targets, depends, surface>>

DeclareTarget ==
    /\ Edited
    /\ \E e \in Edits.declared : targets' = Put(targets, e[1], e[2])
    /\ UNCHANGED <<dirs, files, depends, surface>>

Depend ==
    /\ Edited
    /\ \E v \in Edits.versions \ {depends} : depends' = v
    /\ UNCHANGED <<dirs, files, targets, surface>>

\* Renaming a symbol leaves the identifier that was derived from its old name.
EditSurface ==
    /\ Edited /\ surface # None
    /\ \E i \in 1..(Len(surface.symbols) + 1) :
        \/ \E s \in Edits.symbols : surface' = [surface EXCEPT !.symbols = InsertAt(@, i, s)]
        \/ /\ i \in DOMAIN surface.symbols
           /\ \/ \E n \in Edits.names : surface' = [surface EXCEPT !.symbols[i].name = n]
              \/ surface' = [surface EXCEPT !.symbols = RemoveAt(@, i)]
    /\ UNCHANGED <<dirs, files, targets, depends>>

Rebased(dir, from, to) ==
    IF IsPrefix(from, dir) THEN to \o SubSeq(dir, Len(from) + 1, Len(dir)) ELSE dir

\* f, defined on pairs of a directory and a name, after the directories moved.
Moved(f, from, to) ==
    LET Key(k) == <<Rebased(k[1], from, to), k[2]>>
    IN  [key \in {Key(k) : k \in DOMAIN f} |-> f[CHOOSE k \in DOMAIN f : Key(k) = key]]

MoveDirectory ==
    /\ pc = "idle" /\ edits < MaxEdits
    /\ \E m \in Edits.moved :
        /\ m[1] \in dirs /\ m[2] \notin dirs
        /\ \A d \in dirs : Inside(Rebased(d, m[1], m[2]))
        /\ dirs' = {Rebased(d, m[1], m[2]) : d \in dirs}
        /\ files' = Moved(files, m[1], m[2])
        /\ markers' = Moved(markers, m[1], m[2])
        /\ shas' = Moved(shas, m[1], m[2])
    /\ edits' = edits + 1 /\ trust' = "none"
    /\ UNCHANGED <<targets, depends, surface, finger, ledger, matrix, run, crashes>>

Developers == WriteFile \/ DeclareTarget \/ Depend \/ EditSurface \/ MoveDirectory
-----------------------------------------------------------------------------
(* The hardener: run, with what it calls in the order it calls it.          *)

\* A --check chooses the directories twice from the same files: once is enough.
Start(m) ==
    /\ pc = "idle" /\ mode' = m
    /\ pc' = IF m = "write" THEN "choose" ELSE "rechoose"
    /\ trust' = IF m = "write" /\ trust = "checked" THEN "none" ELSE trust
    /\ UNCHANGED <<work, contract, at, file, chosen, draft, entries, edits, crashes>>

Step == UNCHANGED <<mode, trust, edits, crashes>>

\* An exception ends the run; what it wrote so far stays.
Raise == pc' = "idle" /\ Clear /\ UNCHANGED <<trust, edits, crashes>>

\* Faulty variant: one target too many.
NextTargetTooFar(this, next) ==
    /\ at' = IF at > Len(Specs) THEN 1 ELSE at + 1
    /\ pc' = IF at > Len(Specs) THEN next ELSE this

\* After the last target comes the next phase.
NextTarget(this, next) ==
    /\ at' = IF at = Len(Specs) THEN 1 ELSE at + 1
    /\ pc' = IF at = Len(Specs) THEN next ELSE this

ChooseDir ==
    /\ pc \in {"choose", "rechoose"}
    /\ IF Selected \in Claimed
       THEN Raise
       ELSE /\ chosen' = [chosen EXCEPT ![at] = Selected]
            /\ NextTarget(pc, IF pc = "choose" THEN "scaffold" ELSE "verify")
            /\ UNCHANGED <<file, draft, entries>> /\ Step
    /\ UNCHANGED <<work, contract>>

\* A target that has source is left alone, and so is the shared TypeScript package.
EnterTarget ==
    /\ pc = "scaffold" /\ file = 0
    /\ dirs' = dirs \union Parents(chosen[at])
    /\ IF HasProduct(chosen[at]) \/ InSharedTypescript(at)
       THEN NextTarget("scaffold", "manifest") /\ UNCHANGED file
       ELSE file' = 1 /\ UNCHANGED <<pc, at>>
    /\ UNCHANGED <<files, targets, depends, surface, contract, chosen, draft, entries>>
    /\ Step

\* A file that is there stays, save an older template that is not "missing" only.
ScaffoldFile ==
    /\ pc = "scaffold" /\ file > 0
    /\ LET rows == ScaffoldOf[Specs[at].name]
           key  == <<chosen[at], rows[file].file>>
           due  == key \in DOMAIN files => rows[file].how = "generated" /\ files[key] = "old"
       IN  /\ files' = IF due THEN Put(files, key, "template") ELSE files
           /\ IF file < Len(rows)
              THEN file' = file + 1 /\ UNCHANGED <<pc, at>>
              ELSE file' = 0 /\ NextTarget("scaffold", "manifest")
    /\ UNCHANGED <<dirs, targets, depends, surface, contract, chosen, draft, entries>>
    /\ Step

EnsureManifest ==
    /\ pc = "manifest" /\ pc' = "matrix"
    /\ targets' = IF Mature THEN targets ELSE Rewritten
    /\ UNCHANGED <<dirs, files, depends, surface, contract, at, file, chosen, draft, entries>>
    /\ Step

EnsureMatrix ==
    /\ pc = "matrix" /\ pc' = "surface"
    /\ matrix' = chosen
    /\ UNCHANGED <<work, finger, markers, shas, ledger, at, file, chosen, draft, entries>>
    /\ Step

\* Faulty variant: a new surface lacks the last standard symbol, which the next run adds.
LoadSurfaceShort ==
    /\ pc = "surface"
    /\ IF depends = None
       THEN Raise
       ELSE /\ draft' = [interfaces |-> depends,
                         symbols |-> IF surface = None THEN Front(Standard) ELSE surface.symbols]
            /\ pc' = IF surface = None THEN "publish" ELSE "merge"
            /\ UNCHANGED <<at, file, chosen, entries>> /\ Step
    /\ UNCHANGED <<work, contract>>

LoadSurface ==
    /\ pc = "surface"
    /\ IF depends = None
       THEN Raise
       ELSE /\ draft' = [interfaces |-> depends,
                         symbols |-> IF surface = None THEN Standard ELSE surface.symbols]
            /\ pc' = IF surface = None THEN "publish" ELSE "merge"
            /\ UNCHANGED <<at, file, chosen, entries>> /\ Step
    /\ UNCHANGED <<work, contract>>

MergeSymbol ==
    /\ pc = "merge"
    /\ draft' = [draft EXCEPT !.symbols = WithSymbol(@, Standard[at])]
    /\ at' = IF at = Len(Standard) THEN 1 ELSE at + 1
    /\ pc' = IF at = Len(Standard) THEN "publish" ELSE "merge"
    /\ UNCHANGED <<work, contract, file, chosen, entries>> /\ Step

Completed == [draft EXCEPT !.symbols = Enriched(@)]

\* Faulty variant: the surface is not validated against the schema.
RefusedForMeaning == SemanticErrors(Completed.symbols, Kinds) # {}

Refused ==
    \/ SchemaErrors(Completed.symbols) # {}
    \/ SemanticErrors(Completed.symbols, Kinds) # {}

\* Nothing of a surface that is refused is written.
PublishSurface ==
    /\ pc = "publish"
    /\ IF Refused
       THEN Raise /\ UNCHANGED surface
       ELSE /\ draft' = Completed /\ surface' = Completed
            /\ pc' = "finger" /\ UNCHANGED <<at, file, chosen, entries>> /\ Step
    /\ UNCHANGED <<dirs, files, targets, depends, contract>>

\* Faulty variant: a fingerprint that is there is taken for the current one.
FingerprintOnce ==
    /\ pc = "finger" /\ pc' = "mark"
    /\ finger' = IF finger = None THEN draft ELSE finger
    /\ UNCHANGED <<work, markers, shas, ledger, matrix, at, file, chosen, draft, entries>>
    /\ Step

Fingerprint ==
    /\ pc = "finger" /\ pc' = "mark"
    /\ finger' = draft
    /\ UNCHANGED <<work, markers, shas, ledger, matrix, at, file, chosen, draft, entries>>
    /\ Step

MarkTarget ==
    /\ pc = "mark" /\ pc' = "sign"
    /\ markers' = Put(markers, MarkerPlace(at), Marker(FALSE, Specs[at].name, draft))
    /\ UNCHANGED <<work, finger, shas, ledger, matrix, at, file, chosen, draft, entries>>
    /\ Step

SignTarget ==
    /\ pc = "sign"
    /\ shas' = Put(shas, MarkerPlace(at), draft)
    /\ entries' = entries \union {LedgerEntry(FALSE, Specs[at].name, chosen[at])}
    /\ NextTarget("mark", "extensions")
    /\ UNCHANGED <<work, finger, markers, ledger, matrix, file, chosen, draft>>
    /\ Step

\* Faulty variant: the clients of other languages are not recorded.
UnlistedIgnored == {}

Unlisted == {d \in Extensions : \A e \in entries : e.dir # d}

\* Both files of an extension in one step.
RecordExtension ==
    /\ pc = "extensions"
    /\ \E d \in Unlisted :
        /\ markers' = Put(markers, <<d, "">>, Marker(TRUE, d[2], draft))
        /\ shas' = Put(shas, <<d, "">>, draft)
        /\ entries' = entries \union {LedgerEntry(TRUE, d[2], d)}
    /\ UNCHANGED <<work, finger, ledger, matrix, pc, at, file, chosen, draft>>
    /\ Step

WriteLedger ==
    /\ pc = "extensions" /\ Unlisted = {}
    /\ ledger' = [surface |-> draft, entries |-> entries]
    /\ pc' = "rechoose" /\ chosen' = Unchosen
    /\ UNCHANGED <<work, finger, markers, shas, matrix, at, file, draft, entries>>
    /\ Step

Verify ==
    /\ pc = "verify" /\ pc' = "idle" /\ Clear
    /\ trust' = IF Verdict # {} THEN "none"
                ELSE IF trust = "written" \/ (mode = "write" /\ matrix = chosen)
                THEN "written" ELSE "checked"
    /\ UNCHANGED <<work, contract, edits, crashes>>

Crash ==
    /\ pc # "idle" /\ crashes < MaxCrashes
    /\ pc' = "idle" /\ crashes' = crashes + 1 /\ Clear
    /\ UNCHANGED <<work, contract, trust, edits>>

Writing ==
    \/ ChooseDir \/ EnterTarget \/ ScaffoldFile \/ EnsureManifest \/ EnsureMatrix
    \/ LoadSurface \/ MergeSymbol \/ PublishSurface \/ Fingerprint
    \/ MarkTarget \/ SignTarget \/ RecordExtension \/ WriteLedger \/ Verify

Hardener == Start("write") \/ Start("check") \/ Writing \/ Crash

Next == Developers \/ Hardener

\* A run goes on until it is killed, and the nightly --write comes again and again.
Fairness == WF_vars(Writing) /\ SF_vars(Start("write"))

Spec == Init /\ [][Next]_vars /\ Fairness
-----------------------------------------------------------------------------
Phases == {"idle", "choose", "scaffold", "manifest", "matrix", "surface", "merge", "publish",
           "finger", "mark", "sign", "extensions", "rechoose", "verify", "baseline"}
PerTarget == {"choose", "scaffold", "mark", "sign", "rechoose", "baseline"}

TypeOK ==
    /\ dirs \subseteq Dirs
    /\ \A p \in DOMAIN files : p[1] \in dirs /\ files[p] \in Contents
    /\ \A p \in DOMAIN markers \union DOMAIN shas : p[1] \in dirs
    /\ \A n \in DOMAIN targets : targets[n].dir \in Dirs \union {Outside}
    /\ depends \in Versions \union {None}
    /\ surface \in Surface(Versions) \union {None} /\ draft \in Surface(Versions) \union {None}
    /\ pc \in Phases /\ mode \in {"write", "check"}
    /\ at \in CASE pc \in PerTarget -> Indices
                [] pc = "merge"      -> DOMAIN Standard
                [] OTHER             -> {1}
    /\ file \in IF pc \in {"scaffold", "baseline"} THEN Nat ELSE {0}
    /\ chosen \in [Indices -> Dirs \union {None}]
    /\ matrix \in [Indices -> Dirs \union {None}] \union {None}
    /\ trust \in {"none", "checked", "written"}
    /\ edits \in 0..MaxEdits /\ crashes \in 0..MaxCrashes

(* Every target has a source root of its own, and inside the repository: the *)
(* directories chosen are distinct however the manifest and the disk          *)
(* disagree, and the choice always succeeds, because no target is given the   *)
(* canonical directory of another one, which that one may have to fall back   *)
(* on (choose_target_dirs).                                                   *)
DirsAreOwned ==
    /\ \A i, j \in Indices : chosen[i] = chosen[j] /\ chosen[i] # None => i = j
    /\ pc \in {"choose", "rechoose"} => Selected \notin Claimed

(* No fingerprint is ever published of a surface that the checks refuse, in   *)
(* no file and at no point of a run, killed or not.                           *)
Sound(digest) ==
    digest # None => /\ SchemaErrors(digest.symbols) = {}
                     /\ SemanticErrors(digest.symbols, Kinds) = {}

PublishedIsSound ==
    /\ Sound(finger) /\ (ledger # None => Sound(ledger.surface))
    /\ \A p \in DOMAIN markers : Sound(markers[p].surface)
    /\ \A p \in DOMAIN shas : Sound(shas[p])

(* What developers made, in two states that a step of a script relates: their *)
(* source and metadata files, the native registry metadata of a published     *)
(* target, which moves with it to its new name (entries of targets that are   *)
(* not published are removed with theirs), and the symbols of the surface,    *)
(* each with its identifier and all that was declared of it.                  *)
SourcesKept ==
    \A p \in DOMAIN files : files[p] \in Own => p \in DOMAIN files' /\ files'[p] = files[p]

MetadataKept ==
    \A i \in Published : LET native == NativeOf(DeclaredNames(Specs[i]))
                         IN  native # None => NativeOf(DeclaredNames(Specs[i]))' = native

SymbolsKept ==
    surface # None =>
        \A i \in DOMAIN surface.symbols :
            LET old == surface.symbols[i]
            IN  \A f \in DOMAIN old : old[f] # None => surface'.symbols[i][f] = old[f]

(* "The script is safe to run repeatedly": after a clean --write no further   *)
(* run writes anything else, until something is changed.                      *)
Fixpoint == [][trust = "written" /\ Hardener => UNCHANGED <<work, contract>>]_vars

(* However far edits, other scripts and killed runs took the repository, the  *)
(* nightly runs bring it back: from some point on it is covered, or what is   *)
(* wrong is for developers to decide: no interfaces dependency, target        *)
(* directories that two names share or that leave the repository, or an API   *)
(* that is refused.                                                           *)
NeedsDeveloper ==
    \/ depends = None
    \/ ManifestErrors # {}
    \/ /\ surface # None
       /\ \E next \in {Enriched(FoldLeft(WithSymbol, surface.symbols, Standard))} :
             SchemaErrors(next) # {} \/ SemanticErrors(next, Kinds) # {}

Converges == <>[](trust = "written" \/ NeedsDeveloper)
=============================================================================
