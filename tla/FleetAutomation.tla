-------------------------- MODULE FleetAutomation --------------------------
(***************************************************************************)
(* The repository of ContractFleet with the other scripts that work on it: *)
(* scripts/standardize_zed_matrix.py, which lays out its own matrix of     *)
(* targets and whose commit skips the checks, and the checks that guard a  *)
(* release: verify_client_contract.py, validate-client-matrix.py,          *)
(* validate_zed_adapters.py and those of runtime entry points.             *)
(***************************************************************************)
EXTENDS ContractFleet

CONSTANTS
    Mobile,          \* the standardizer lays out Kotlin and Swift too
    MaxStandardized  \* bound: runs of the standardizer

ASSUME AutomationAssumption ==
    /\ Mobile \in BOOLEAN /\ MaxStandardized \in Nat

VARIABLE standardized   \* the runs of the standardizer so far

fleetVars == <<vars, standardized>>

FleetInit == Init /\ standardized = 0
-----------------------------------------------------------------------------
(* The standardizer.                                                        *)

\* The targets it knows.  It gives each its own name and canonical directory.
Baseline == {i \in Indices : Specs[i].name \in DOMAIN Standardized(Mobile)}

Updated(name, dir, adapter) ==
    Entry(dir, adapter, IF name \in DOMAIN targets THEN targets[name].native ELSE None)

StandardTargets ==
    LET names == {Specs[i].name : i \in Baseline}
        Dir(n) == Specs[CHOOSE i \in Baseline : Specs[i].name = n].canonical
    IN  [n \in DOMAIN targets \union names \union {"repository"} |->
            IF n \in names THEN Updated(n, Dir(n), Standardized(Mobile)[n])
            ELSE IF n = "repository"
            THEN Updated(n, <<>>, IF n \in DOMAIN targets THEN targets[n].adapter ELSE None)
            ELSE targets[n]]

Standardize ==
    /\ pc = "idle" /\ standardized < MaxStandardized
    /\ standardized' = standardized + 1
    /\ targets' = StandardTargets
    /\ depends' = IF depends = None THEN "^0.1.0" ELSE depends
    /\ pc' = "baseline" /\ file' = 1 /\ trust' = "none"
    /\ UNCHANGED <<dirs, files, surface, contract, mode, at, chosen, draft, entries,
                   edits, crashes>>

\* write_missing.  None of its texts is an older template of the hardener, not even
\* that of its gemspec, so the hardener leaves them all as they are.
BaselineFile ==
    /\ pc = "baseline"
    /\ LET spec == Specs[at]
           rows == IF at \in Baseline THEN ScaffoldOf[spec.name] ELSE <<>>
           key  == <<spec.canonical, rows[file].file>>
           due  == file <= Len(rows) /\ key \notin DOMAIN files
       IN  /\ files' = IF due THEN Put(files, key, "template") ELSE files
           /\ dirs' = IF due THEN dirs \union Parents(spec.canonical) ELSE dirs
           /\ IF file < Len(rows)
              THEN file' = file + 1 /\ UNCHANGED <<pc, at>>
              ELSE file' = (IF at = Len(Specs) THEN 0 ELSE 1) /\ NextTarget("baseline", "idle")
    /\ UNCHANGED <<targets, depends, surface, contract, chosen, draft, entries,
                   standardized>>
    /\ Step

FleetNext ==
    \/ Next /\ UNCHANGED standardized
    \/ Standardize
    \/ BaselineFile

FleetFairness ==
    /\ WF_fleetVars(Writing /\ UNCHANGED standardized)
    /\ WF_fleetVars(BaselineFile)
    /\ SF_fleetVars(Start("write") /\ UNCHANGED standardized)

FleetSpec == FleetInit /\ [][FleetNext]_fleetVars /\ FleetFairness
-----------------------------------------------------------------------------
(* verify_client_contract.py, which every release passes.                   *)

RuntimeOf(e) ==
    IF e.extension THEN e.target
    ELSE Specs[CHOOSE i \in Indices : Specs[i].name = e.target].runtime

MarkerRoot(e) ==
    IF <<e.dir, "">> \notin DOMAIN markers /\ <<e.dir, RuntimeOf(e)>> \in DOMAIN markers
    THEN <<e.dir, RuntimeOf(e)>> ELSE <<e.dir, "">>

EntryHolds(e) ==
    /\ IsPrefix(<<"clients">>, e.dir) /\ e.dir \in dirs
    /\ e.extension \/ DOMAIN Evidence(e.dir) # {}
    /\ e.evidence = Evidence(e.dir)
    /\ Marked(MarkerRoot(e), e.extension, e.target, surface)

ClientContract ==
    /\ surface # None /\ ledger # None /\ depends # None
    /\ SchemaErrors(surface.symbols) = {}
    /\ finger = surface /\ ledger.surface = surface
    /\ surface.interfaces = depends
    /\ Cardinality(ledger.entries) >= Minimum
    /\ \A e, f \in ledger.entries :
          e.extension = f.extension /\ e.target = f.target => e = f
    /\ \A e \in ledger.entries : EntryHolds(e)
    /\ \A d \in ClientDirs : CoveredBy(d, ledger.entries)
-----------------------------------------------------------------------------
(* The checks of the manifest.  Languages: the published names.             *)

Languages == {Specs[i].zed : i \in Published}

AdaptersValid ==
    /\ DOMAIN targets \ {"repository"} = Languages
    /\ \A n \in Languages : targets[n].adapter \in ALLOWED /\ targets[n].adapter = EXPECTED[n]

ReleaseSet ==
    /\ depends = "^0.1.0"
    /\ DOMAIN targets = Languages \union {"repository"}
    /\ \A n \in Languages :
        /\ targets[n].dir = REQUIRED_TARGETS[n].dir
        /\ IsFile(targets[n].dir, REQUIRED_TARGETS[n].native)
    /\ targets["repository"].dir = <<>>
    /\ \A n \in Languages \intersect {"golang", "java", "kotlin"} : targets[n].native # None

RuntimeEntryPoints ==
    \A i \in Indices : Specs[i].runtime # "" =>
        IsFile(SharedTypescript, RuntimeSource(Specs[i].runtime))

Releasable == AdaptersValid /\ ReleaseSet /\ RuntimeEntryPoints
-----------------------------------------------------------------------------
FleetTypeOK == TypeOK /\ standardized \in 0..MaxStandardized

\* What the release check alone looks at: a marker that an earlier layout left in
\* the shared TypeScript package, and whether a runtime's package has any source.
SharedIsPlain ==
    \A i \in Indices : Specs[i].runtime # "" /\ matrix[i] = SharedTypescript =>
        /\ <<SharedTypescript, "">> \notin DOMAIN markers
        /\ DOMAIN Evidence(SharedTypescript) # {}

(* What a clean --write vouches for stays true until someone changes          *)
(* something, through later runs and kills.  Every standard target is         *)
(* recorded at the directory in use with the digest of what is there now; and *)
(* the two implementations of the contract agree: when the fleet is below     *)
(* clients/ and nothing is peculiar about the shared package, the script that *)
(* guards releases accepts it.                                                *)
VouchedFor ==
    trust = "written" =>
        /\ \A i \in Indices : LedgerEntry(FALSE, Specs[i].name, matrix[i]) \in ledger.entries
        /\ (\A i \in Indices : IsPrefix(<<"clients">>, matrix[i])) /\ SharedIsPlain
              => ClientContract

(* No script takes from developers a file, the registry metadata of a         *)
(* published target, or anything of a symbol; and the hardener never makes a  *)
(* repository whose manifest, layout and runtime entry points the release     *)
(* checks accept one that they refuse.                                        *)
OwnWorkKept ==
    [][/\ Developers \/ (SourcesKept /\ MetadataKept /\ SymbolsKept)
       /\ Releasable /\ Hardener => Releasable']_fleetVars
=============================================================================
