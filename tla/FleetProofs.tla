---------------------------- MODULE FleetProofs ----------------------------
(***************************************************************************)
(* What the scripts keep true of every fleet, every layout and every       *)
(* sequence of edits, runs and kills: type correctness, a directory of its *)
(* own for every target, no fingerprint of a surface that is refused, and  *)
(* the sources and symbols that developers made.                           *)
(***************************************************************************)
EXTENDS FleetAutomation, TLAPS

\* The fields that enriching fills in, and the others.
Fields == {"kind", "name", "visibility", "methods", "async", "behavior", "refs", "id",
           "stability", "explained"}

FilledIn(i, s, f) ==
    CASE f = "id"        -> IF s.id = None THEN <<i, s.name>> ELSE s.id
      [] f = "stability" -> IF s.stability = None THEN "stable" ELSE s.stability
      [] f = "behavior"  -> IF s.behavior = None /\ s.async # None
                            THEN DefaultBehavior(s.async) ELSE s.behavior
      [] OTHER           -> s[f]

LEMMA EnrichedFields ==
    ASSUME NEW i \in Nat, NEW s \in Symbol
    PROVE  EnrichedSymbol(i, s) = [f \in Fields |-> FilledIn(i, s, f)]
<1>1. s = [f \in Fields |-> s[f]]
  BY DEF Symbol, Fields
<1>2. DOMAIN EnrichedSymbol(i, s) = Fields
  BY <1>1 DEF EnrichedSymbol
<1>3. ASSUME NEW f \in Fields PROVE EnrichedSymbol(i, s)[f] = FilledIn(i, s, f)
  <2>1. CASE f = "id"
    BY <2>1, <1>1 DEF EnrichedSymbol, FilledIn, DocumentationId, Fields
  <2>2. CASE f = "stability"
    BY <2>2, <1>1 DEF EnrichedSymbol, FilledIn, Fields
  <2>3. CASE f = "behavior"
    BY <2>3, <1>1 DEF EnrichedSymbol, FilledIn, Fields
  <2>4. CASE f \notin {"id", "stability", "behavior"}
    BY <2>4, <1>1 DEF EnrichedSymbol, FilledIn, Fields
  <2> QED  BY <2>1, <2>2, <2>3, <2>4
<1>4. EnrichedSymbol(i, s) = [f \in Fields |-> EnrichedSymbol(i, s)[f]]
  BY <1>2 DEF EnrichedSymbol
<1> QED  BY <1>3, <1>4

LEMMA EnrichedIsSymbol ==
    ASSUME NEW i \in Nat, NEW s \in Symbol
    PROVE  EnrichedSymbol(i, s) \in Symbol
<1> DEFINE e == EnrichedSymbol(i, s)
<1>1. s.async # None => DefaultBehavior(s.async) \in Behaviors
  BY DEF Symbol, DefaultBehavior, Behaviors
<1>2. e = [kind |-> e.kind, name |-> e.name, visibility |-> e.visibility,
           methods |-> e.methods, async |-> e.async, behavior |-> e.behavior,
           refs |-> e.refs, id |-> e.id, stability |-> e.stability,
           explained |-> e.explained]
  BY EnrichedFields DEF Fields
<1>3. /\ e.kind \in STRING /\ e.name \in STRING /\ e.visibility \in Visibilities
      /\ e.methods \in SUBSET Visibilities /\ e.async \in BOOLEAN \union {None}
      /\ e.refs \in SUBSET STRING /\ e.explained \in BOOLEAN
  BY EnrichedFields DEF Fields, FilledIn, Symbol
<1>4. e.id \in (Nat \X STRING) \union {None}
  BY EnrichedFields DEF Fields, FilledIn, Symbol
<1>5. e.stability \in Stabilities \union {None} /\ e.behavior \in Behaviors \union {None}
  <2>1. s.stability \in Stabilities \union {None} /\ s.behavior \in Behaviors \union {None}
    BY DEF Symbol
  <2>2. e.stability = IF s.stability = None THEN "stable" ELSE s.stability
    BY EnrichedFields DEF Fields, FilledIn
  <2>3. e.behavior = IF s.behavior = None /\ s.async # None
                     THEN DefaultBehavior(s.async) ELSE s.behavior
    BY EnrichedFields DEF Fields, FilledIn
  <2>4. e.stability \in Stabilities \union {None}
    BY <2>1, <2>2 DEF Stabilities
  <2>5. CASE s.behavior = None /\ s.async # None
    BY <2>3, <2>4, <2>5, <1>1, Zenon
  <2>6. CASE ~ (s.behavior = None /\ s.async # None)
    BY <2>1, <2>3, <2>4, <2>6, Zenon
  <2> QED  BY <2>5, <2>6
<1> HIDE DEF e
<1>6. e \in Symbol
  BY <1>2, <1>3, <1>4, <1>5 DEF Symbol
<1> QED  BY <1>6 DEF e

\* The choice of a directory stays in the repository and avoids the canonical
\* directory of every other target.
LEMMA SelectedIsFair ==
    ASSUME at \in Indices
    PROVE  /\ Selected \in Dirs
           /\ \A j \in Indices \ {at} : Selected # Specs[j].canonical
           /\ Selected # Specs[at].canonical => Selected \notin Claimed
BY FleetAssumption DEF Selected, Inside, ReservedForAnother, Indices

LEMMA EnrichedIsSeq ==
    ASSUME NEW surf \in Seq(Symbol)
    PROVE  Enriched(surf) \in Seq(Symbol) /\ DOMAIN Enriched(surf) = DOMAIN surf
BY EnrichedIsSymbol DEF Enriched

LEMMA WithSymbolIsSeq ==
    ASSUME NEW surf \in Seq(Symbol), NEW s \in Symbol
    PROVE  WithSymbol(surf, s) \in Seq(Symbol)
BY DEF WithSymbol

LEMMA EditedIsSeq ==
    ASSUME NEW surf \in Seq(Symbol), NEW s \in Symbol, NEW i \in 1..(Len(surf) + 1)
    PROVE  /\ InsertAt(surf, i, s) \in Seq(Symbol)
           /\ i \in DOMAIN surf => RemoveAt(surf, i) \in Seq(Symbol)
           /\ \A n \in STRING : i \in DOMAIN surf =>
                    [surf EXCEPT ![i].name = n] \in Seq(Symbol)
<1>1. InsertAt(surf, i, s) \in Seq(Symbol)
  BY DEF InsertAt
<1>2. i \in DOMAIN surf => RemoveAt(surf, i) \in Seq(Symbol)
  BY DEF RemoveAt
<1>3. ASSUME NEW n \in STRING, i \in DOMAIN surf PROVE [surf EXCEPT ![i].name = n] \in Seq(Symbol)
  <2>1. [surf[i] EXCEPT !.name = n] \in Symbol
    <3> DEFINE t == surf[i]
    <3>1. t \in Symbol
      BY <1>3
    <3> HIDE DEF t
    <3>2. [t EXCEPT !.name = n] \in Symbol
      BY <3>1, SMTT(30) DEF Symbol
    <3> QED  BY <3>2 DEF t
  <2> QED  BY <2>1, <1>3
<1> QED  BY <1>1, <1>2, <1>3

\* A directory has itself among the parents that are made with it.
LEMMA ParentsHaveIt ==
    ASSUME NEW d \in Dirs
    PROVE  d \in Parents(d) /\ Parents(d) \subseteq Dirs
<1>1. d \in Seq(STRING) /\ Parents(d) \subseteq Dirs
  BY InputAssumption
<1>2. d = SubSeq(d, 1, Len(d)) /\ Len(d) \in 0..Len(d)
  BY <1>1
<1> QED  BY <1>1, <1>2 DEF Parents

-----------------------------------------------------------------------------
(* The inductive invariant: how far the directories have been chosen, which   *)
(* of them are there by now, and that the surface in memory is sound from the *)
(* moment it is accepted.                                                     *)

Recording == {"finger", "mark", "sign", "extensions"}

ChosenSoFar ==
    /\ pc \in {"idle", "baseline"} => chosen = Unchosen
    /\ pc \in {"choose", "rechoose"} => \A i \in Indices : chosen[i] # None <=> i < at
    /\ pc \notin {"idle", "baseline", "choose", "rechoose"} => \A i \in Indices : chosen[i] # None

\* No directory is another's, nor one that another may fall back on.
ChosenFairly ==
    \A i \in Indices : chosen[i] # None =>
        \A j \in Indices \ {i} : chosen[i] # chosen[j] /\ chosen[i] # Specs[j].canonical

ChosenIsThere ==
    /\ pc = "scaffold" =>
        \A i \in Indices : i < at \/ (i = at /\ file > 0) => chosen[i] \in dirs
    /\ pc \in {"manifest", "matrix", "surface", "merge", "publish"} \union Recording =>
        \A i \in Indices : chosen[i] \in dirs

DraftIsReady ==
    /\ pc \in {"merge", "publish"} \union Recording => draft \in Surface(Versions)
    /\ pc \in Recording => Sound(draft)

RunInv == ChosenSoFar /\ ChosenFairly /\ ChosenIsThere /\ DraftIsReady

Core == TypeOK /\ RunInv /\ PublishedIsSound

IInv == FleetTypeOK /\ Core

LEMMA InitIInv == FleetInit => IInv
<1> SUFFICES ASSUME FleetInit PROVE IInv
  OBVIOUS
<1> USE DEF FleetInit, Init
<1>1. PICK l \in Layouts : /\ dirs = UNION {Parents(p[1]) : p \in DOMAIN l.files}
                           /\ files = l.files /\ targets = l.targets /\ depends = l.depends
  OBVIOUS
<1>2. \A p \in DOMAIN l.files : p[1] \in Dirs /\ l.files[p] \in Contents
  BY InputAssumption
<1>3. dirs \subseteq Dirs /\ \A p \in DOMAIN files : p[1] \in dirs
  BY <1>1, <1>2, ParentsHaveIt
<1>4. TypeOK
  <2>1. \A n \in DOMAIN targets : targets[n].dir \in Dirs \union {Outside}
    BY <1>1, InputAssumption
  <2>2. depends \in Versions \union {None}
    BY <1>1, InputAssumption
  <2>3. chosen \in [Indices -> Dirs \union {None}]
    BY DEF Unchosen
  <2> QED  BY <1>1, <1>2, <1>3, <2>1, <2>2, <2>3, FleetAssumption DEF TypeOK, Phases, PerTarget
<1>5. ChosenSoFar /\ ChosenFairly /\ ChosenIsThere /\ DraftIsReady
  BY DEF ChosenSoFar, ChosenFairly, ChosenIsThere, DraftIsReady, Unchosen, Recording
<1>6. PublishedIsSound
  BY DEF PublishedIsSound, Sound
<1> QED  BY <1>4, <1>5, <1>6, AutomationAssumption DEF IInv, Core, RunInv, FleetTypeOK

-----------------------------------------------------------------------------
(* Developers' steps.                                                        *)

LEMMA IdleRunKept ==
    ASSUME RunInv, pc = "idle", UNCHANGED run
    PROVE  RunInv'
BY DEF RunInv, run, ChosenSoFar, ChosenFairly, ChosenIsThere, DraftIsReady, Recording

LEMMA ContractKept ==
    ASSUME PublishedIsSound, UNCHANGED contract
    PROVE  PublishedIsSound'
BY DEF PublishedIsSound, contract

\* What an edit of the files, the manifest or the surface leaves as it was.
LEMMA EditedKeeps ==
    ASSUME Core, Edited, dirs \subseteq dirs', dirs' \subseteq Dirs,
           \A p \in DOMAIN files' : p[1] \in dirs' /\ files'[p] \in Contents,
           \A n \in DOMAIN targets' : targets'[n].dir \in Dirs \union {Outside},
           depends' \in Versions \union {None}, surface' \in Surface(Versions) \union {None}
    PROVE  Core'
<1>1. TypeOK'
  BY FleetAssumption DEF Core, TypeOK, Edited, contract, run, PerTarget, Phases
<1>2. RunInv'
  BY IdleRunKept DEF Core, Edited
<1>3. PublishedIsSound'
  BY ContractKept DEF Core, Edited
<1> QED  BY <1>1, <1>2, <1>3 DEF Core

LEMMA WriteFileKeeps == Core /\ WriteFile => Core'
<1> SUFFICES ASSUME Core, WriteFile PROVE Core'
  OBVIOUS
<1>1. PICK e \in Edits.written : /\ dirs' = dirs \union Parents(e[1])
                                 /\ files' = Put(files, <<e[1], e[2]>>, e[3])
  BY DEF WriteFile
<1>2. e[1] \in Parents(e[1]) /\ Parents(e[1]) \subseteq Dirs /\ e[3] \in Contents
  BY InputAssumption, ParentsHaveIt
<1>3. \A p \in DOMAIN files' : p[1] \in dirs' /\ files'[p] \in Contents
  BY <1>1, <1>2 DEF Put, Core, TypeOK
<1> QED  BY <1>1, <1>2, <1>3, EditedKeeps DEF WriteFile, Core, TypeOK

LEMMA DeclareTargetKeeps == Core /\ DeclareTarget => Core'
<1> SUFFICES ASSUME Core, DeclareTarget PROVE Core'
  OBVIOUS
<1>1. PICK e \in Edits.declared : targets' = Put(targets, e[1], e[2])
  BY DEF DeclareTarget
<1>2. \A n \in DOMAIN targets' : targets'[n].dir \in Dirs \union {Outside}
  BY <1>1, InputAssumption DEF Put, Core, TypeOK
<1> QED  BY <1>2, EditedKeeps DEF DeclareTarget, Core, TypeOK

LEMMA DependKeeps == Core /\ Depend => Core'
BY EditedKeeps DEF Depend, Core, TypeOK, Versions

LEMMA EditSurfaceKeeps == Core /\ EditSurface => Core'
<1> SUFFICES ASSUME Core, EditSurface PROVE Core'
  OBVIOUS
<1>1. surface \in Surface(Versions)
  BY DEF EditSurface, Core, TypeOK
<1>2. PICK i \in 1..(Len(surface.symbols) + 1) :
        \/ \E s \in Edits.symbols : surface' = [surface EXCEPT !.symbols = InsertAt(@, i, s)]
        \/ /\ i \in DOMAIN surface.symbols
           /\ \/ \E n \in Edits.names : surface' = [surface EXCEPT !.symbols[i].name = n]
              \/ surface' = [surface EXCEPT !.symbols = RemoveAt(@, i)]
  BY DEF EditSurface
<1>3. surface.symbols \in Seq(Symbol)
  BY <1>1 DEF Surface
<1>4. ASSUME NEW new \in Seq(Symbol) PROVE [surface EXCEPT !.symbols = new] \in Surface(Versions)
  BY <1>1 DEF Surface
<1>5. ASSUME NEW s \in Edits.symbols, surface' = [surface EXCEPT !.symbols = InsertAt(@, i, s)]
      PROVE  surface' \in Surface(Versions)
  BY <1>3, <1>4, <1>5, EditedIsSeq, InputAssumption
<1>6. ASSUME i \in DOMAIN surface.symbols, NEW n \in Edits.names,
             surface' = [surface EXCEPT !.symbols[i].name = n]
      PROVE  surface' \in Surface(Versions)
  <2>1. surface' = [surface EXCEPT !.symbols = [surface.symbols EXCEPT ![i].name = n]]
    BY <1>6
  <2>2. n \in STRING /\ \E s : s \in Symbol
    BY <1>3, <1>6, InputAssumption
  <2>3. [surface.symbols EXCEPT ![i].name = n] \in Seq(Symbol)
    BY <1>3, <1>6, <2>2, EditedIsSeq
  <2> QED  BY <1>4, <2>1, <2>3
<1>7. ASSUME i \in DOMAIN surface.symbols, surface' = [surface EXCEPT !.symbols = RemoveAt(@, i)]
      PROVE  surface' \in Surface(Versions)
  <2>1. \E s : s \in Symbol
    BY <1>3, <1>7
  <2> QED  BY <1>3, <1>4, <1>7, <2>1, EditedIsSeq
<1>8. surface' \in Surface(Versions)
  BY <1>2, <1>5, <1>6, <1>7
<1> QED  BY <1>8, EditedKeeps DEF EditSurface, Core, TypeOK

\* What lay in a directory lies in the moved one, unchanged.
LEMMA MovedKeeps ==
    \A f, from, to : \A key \in DOMAIN Moved(f, from, to) :
        \E k \in DOMAIN f : /\ key[1] = Rebased(k[1], from, to)
                           /\ Moved(f, from, to)[key] = f[k]
<1> SUFFICES ASSUME NEW f, NEW from, NEW to, NEW key \in DOMAIN Moved(f, from, to)
    PROVE  \E k \in DOMAIN f : /\ key[1] = Rebased(k[1], from, to)
                              /\ Moved(f, from, to)[key] = f[k]
  OBVIOUS
<1> DEFINE Key(k) == <<Rebased(k[1], from, to), k[2]>>
<1>1. key \in {Key(k) : k \in DOMAIN f}
  BY Zenon DEF Moved
<1>2. PICK k \in DOMAIN f : k = CHOOSE j \in DOMAIN f : Key(j) = key
  BY <1>1, Zenon
<1>3. Key(k) = key
  BY <1>1, <1>2, Zenon
<1>4. Moved(f, from, to)[key] = f[k]
  BY <1>1, <1>2, Zenon DEF Moved
<1> QED  BY <1>3, <1>4

LEMMA MoveDirectoryKeeps == Core /\ MoveDirectory => Core'
<1> SUFFICES ASSUME Core, MoveDirectory PROVE Core'
  OBVIOUS
<1>1. PICK m \in Edits.moved :
        /\ \A d \in dirs : Inside(Rebased(d, m[1], m[2]))
        /\ dirs' = {Rebased(d, m[1], m[2]) : d \in dirs}
        /\ files' = Moved(files, m[1], m[2])
        /\ markers' = Moved(markers, m[1], m[2])
        /\ shas' = Moved(shas, m[1], m[2])
  BY DEF MoveDirectory
<1>2. dirs' \subseteq Dirs
  BY <1>1 DEF Inside
<1>a. ASSUME NEW f, \A k \in DOMAIN f : k[1] \in dirs
      PROVE  \A p \in DOMAIN Moved(f, m[1], m[2]) :
                /\ p[1] \in dirs'
                /\ \E q \in DOMAIN f : Moved(f, m[1], m[2])[p] = f[q]
  <2> SUFFICES ASSUME NEW p \in DOMAIN Moved(f, m[1], m[2])
      PROVE  p[1] \in dirs' /\ \E q \in DOMAIN f : Moved(f, m[1], m[2])[p] = f[q]
    OBVIOUS
  <2>1. PICK k \in DOMAIN f : /\ p[1] = Rebased(k[1], m[1], m[2])
                              /\ Moved(f, m[1], m[2])[p] = f[k]
    BY MovedKeeps
  <2> QED  BY <1>1, <1>a, <2>1, Zenon
<1>b. /\ \A k \in DOMAIN files : k[1] \in dirs /\ files[k] \in Contents
      /\ \A k \in DOMAIN markers : k[1] \in dirs
      /\ \A k \in DOMAIN shas : k[1] \in dirs
  BY DEF Core, TypeOK
<1>3. \A p \in DOMAIN files' : p[1] \in dirs' /\ files'[p] \in Contents
  <2>1. \A p \in DOMAIN files' : p[1] \in dirs' /\ \E q \in DOMAIN files : files'[p] = files[q]
    BY <1>1, <1>a, <1>b, Zenon
  <2> QED  BY <1>b, <2>1
<1>4. \A p \in DOMAIN markers' : p[1] \in dirs' /\ \E q \in DOMAIN markers : markers'[p] = markers[q]
  BY <1>1, <1>a, <1>b, Zenon
<1>5. \A p \in DOMAIN shas' : p[1] \in dirs' /\ \E q \in DOMAIN shas : shas'[p] = shas[q]
  BY <1>1, <1>a, <1>b, Zenon
<1>6. TypeOK'
  BY <1>2, <1>3, <1>4, <1>5, FleetAssumption
     DEF Core, TypeOK, MoveDirectory, run, PerTarget, Phases
<1>7. RunInv'
  BY IdleRunKept DEF Core, MoveDirectory
<1>8. PublishedIsSound'
  <2>1. \A p \in DOMAIN markers' : Sound(markers'[p].surface)
    BY <1>4 DEF Core, PublishedIsSound
  <2>2. \A p \in DOMAIN shas' : Sound(shas'[p])
    BY <1>5 DEF Core, PublishedIsSound
  <2> QED  BY <2>1, <2>2 DEF MoveDirectory, Core, PublishedIsSound, Sound
<1> QED  BY <1>6, <1>7, <1>8 DEF Core
-----------------------------------------------------------------------------
(* The steps of a run.                                                      *)

LEMMA UnchosenIsTyped == Unchosen \in [Indices -> Dirs \union {None}] /\ 1 \in Indices
                         /\ 1 \in DOMAIN Standard
BY FleetAssumption DEF Unchosen, Indices

\* A run that has ended has nothing in memory.
LEMMA ClearedKeeps ==
    ASSUME Core, pc' = "idle", Clear, UNCHANGED <<work, edits>>, PublishedIsSound',
           UNCHANGED <<markers, shas, matrix>>,
           trust' \in {"none", "checked", "written"}, crashes' \in 0..MaxCrashes
    PROVE  Core'
<1>1. TypeOK'
  BY UnchosenIsTyped DEF Core, TypeOK, Clear, work, PerTarget, Phases
<1>2. RunInv'
  BY DEF Clear, RunInv, ChosenSoFar, ChosenFairly, ChosenIsThere, DraftIsReady, Recording,
         Unchosen
<1> QED  BY <1>1, <1>2 DEF Core

LEMMA StartKeeps == ASSUME Core, NEW m \in {"write", "check"}, Start(m) PROVE Core'
<1>1. pc = "idle" /\ at = 1 /\ at' = 1 /\ chosen = Unchosen /\ chosen' = Unchosen
      /\ pc' \in {"choose", "rechoose"}
  BY DEF Start, Core, TypeOK, RunInv, ChosenSoFar, PerTarget
<1>2. TypeOK'
  BY <1>1, UnchosenIsTyped DEF Start, Core, TypeOK, work, contract, PerTarget, Phases
<1>3. RunInv'
  BY <1>1 DEF RunInv, ChosenSoFar, ChosenFairly, ChosenIsThere, DraftIsReady, Recording,
              Unchosen, Indices
<1>4. PublishedIsSound'
  BY ContractKept DEF Start, Core
<1> QED  BY <1>2, <1>3, <1>4 DEF Core

LEMMA NextTargetIs ==
    ASSUME NEW this, NEW next, at \in Indices, NextTarget(this, next)
    PROVE  \/ at = Len(Specs) /\ at' = 1 /\ pc' = next
           \/ at # Len(Specs) /\ at' = at + 1 /\ at' \in Indices /\ pc' = this
BY FleetAssumption DEF NextTarget, Indices
\* A step of a run: the counters, the mode and the history are as before.
LEMMA StepTyped ==
    ASSUME TypeOK, Step
    PROVE  /\ mode' \in {"write", "check"} /\ trust' \in {"none", "checked", "written"}
           /\ edits' \in 0..MaxEdits /\ crashes' \in 0..MaxCrashes
BY DEF TypeOK, Step

LEMMA ChooseDirKeeps == Core /\ ChooseDir => Core'
<1> SUFFICES ASSUME Core, ChooseDir PROVE Core'
  OBVIOUS
<1>1. at \in Indices /\ TypeOK /\ RunInv
  BY DEF ChooseDir, Core, TypeOK, PerTarget
<1>2. PublishedIsSound'
  BY ContractKept DEF ChooseDir, Core
<1>3. CASE Selected \in Claimed
  BY <1>1, <1>2, <1>3, ClearedKeeps DEF ChooseDir, Raise, TypeOK, work, contract
<1>4. CASE Selected \notin Claimed
  <2> DEFINE next == IF pc = "choose" THEN "scaffold" ELSE "verify"
  <2>1. /\ chosen' = [chosen EXCEPT ![at] = Selected] /\ NextTarget(pc, next)
        /\ Step /\ UNCHANGED <<work, contract, file, draft>>
    BY <1>4 DEF ChooseDir
  <2>2. \/ at = Len(Specs) /\ at' = 1 /\ pc' = next
        \/ at # Len(Specs) /\ at' = at + 1 /\ at' \in Indices /\ pc' = pc
    <3> HIDE DEF next
    <3> QED  BY <1>1, <2>1, NextTargetIs
  <2>3. /\ Selected \in Dirs /\ Selected # None
        /\ \A j \in Indices \ {at} : Selected # Specs[j].canonical
    BY <1>1, SelectedIsFair, FleetAssumption
  <2>4. \A i \in Indices : chosen[i] # None <=> i < at
    BY <1>1 DEF RunInv, ChosenSoFar, ChooseDir
  <2>5. chosen' \in [Indices -> Dirs \union {None}]
    BY <1>1, <2>1, <2>3 DEF TypeOK
  <2>6. \A i \in Indices : chosen'[i] = IF i = at THEN Selected ELSE chosen[i]
    BY <1>1, <2>1 DEF TypeOK
  <2>7. TypeOK'
    <3>a. /\ pc' \in {"choose", "rechoose", "scaffold", "verify"}
          /\ at' \in Indices /\ (pc' = "verify" => at' = 1)
      BY <1>1, <2>2, UnchosenIsTyped DEF ChooseDir
    <3>1. pc' \in Phases /\ at' \in CASE pc' \in PerTarget -> Indices
                                      [] pc' = "merge"      -> DOMAIN Standard
                                      [] OTHER              -> {1}
      BY <3>a DEF PerTarget, Phases
    <3>2. file' \in IF pc' \in {"scaffold", "baseline"} THEN Nat ELSE {0}
      BY <1>1, <2>1, <2>2 DEF TypeOK, ChooseDir
    <3> HIDE DEF next
    <3> QED  BY <1>1, <2>1, <2>5, <3>1, <3>2, StepTyped DEF TypeOK, work, contract
  <2>8. ChosenSoFar'
    <3>1. \A i \in Indices : chosen'[i] # None <=> i < at + 1
      BY <2>3, <2>4, <2>6, <1>1 DEF Indices
    <3>2. CASE at = Len(Specs)
      BY <1>1, <2>2, <3>1, <3>2 DEF ChosenSoFar, ChooseDir, Indices
    <3>3. CASE at # Len(Specs)
      BY <1>1, <2>2, <3>1, <3>3 DEF ChosenSoFar, ChooseDir, Indices
    <3> QED  BY <3>2, <3>3
  <2>9. ChosenFairly'
    <3>1. \A i \in Indices : i # at /\ chosen[i] # None => chosen[i] # Selected
      BY <1>1, <1>4, <2>4 DEF Claimed, Indices
    <3> QED  BY <1>1, <2>3, <2>6, <3>1 DEF RunInv, ChosenFairly
  <2>10. ChosenIsThere' /\ DraftIsReady'
    <3>1. file' = 0 /\ 1 \in Indices
      BY <1>1, <2>1, UnchosenIsTyped DEF TypeOK, ChooseDir
    <3> QED  BY <1>1, <2>1, <2>2, <3>1 DEF ChosenIsThere, DraftIsReady, Recording, ChooseDir, Indices
  <2> QED  BY <1>2, <2>7, <2>8, <2>9, <2>10 DEF Core, RunInv
<1> QED  BY <1>3, <1>4
\* The file written is in a directory that is there.
LEMMA PutTyped ==
    ASSUME NEW key, NEW content \in Contents, key[1] \in dirs',
           \A p \in DOMAIN files : p[1] \in dirs' /\ files[p] \in Contents
    PROVE  \A p \in DOMAIN Put(files, key, content) :
               p[1] \in dirs' /\ Put(files, key, content)[p] \in Contents
BY DEF Put

LEMMA EnterTargetKeeps == Core /\ EnterTarget => Core'
<1> SUFFICES ASSUME Core, EnterTarget PROVE Core'
  OBVIOUS
<1>1. /\ at \in Indices /\ TypeOK /\ RunInv /\ pc = "scaffold" /\ file = 0
      /\ chosen[at] \in Dirs
  BY FleetAssumption DEF EnterTarget, Core, RunInv, ChosenSoFar, TypeOK, PerTarget
<1>2. dirs' = dirs \union Parents(chosen[at]) /\ dirs' \subseteq Dirs /\ chosen[at] \in dirs'
  BY <1>1, ParentsHaveIt DEF EnterTarget, TypeOK
<1>3. \/ NextTarget("scaffold", "manifest") /\ file' = 0
      \/ file' = 1 /\ pc' = "scaffold" /\ at' = at
  BY <1>1 DEF EnterTarget
<1>4. \/ pc' = "manifest" /\ at = Len(Specs) /\ at' = 1 /\ file' = 0
      \/ pc' = "scaffold" /\ at' \in Indices /\ file' = 0 /\ at' = at + 1
      \/ pc' = "scaffold" /\ at' = at /\ file' = 1
  BY <1>1, <1>3, NextTargetIs
<1>5. TypeOK'
  BY <1>1, <1>2, <1>4, StepTyped DEF EnterTarget, TypeOK, contract, PerTarget, Phases
<1>6. ChosenIsThere'
  BY <1>1, <1>2, <1>4 DEF EnterTarget, RunInv, ChosenIsThere, Indices, Recording
<1>7. ChosenSoFar' /\ ChosenFairly' /\ DraftIsReady'
  BY <1>1, <1>4 DEF EnterTarget, RunInv, ChosenSoFar, ChosenFairly, DraftIsReady, Recording
<1>8. PublishedIsSound'
  BY ContractKept DEF EnterTarget, Core
<1> QED  BY <1>5, <1>6, <1>7, <1>8 DEF Core, RunInv

LEMMA ScaffoldFileKeeps == Core /\ ScaffoldFile => Core'
<1> SUFFICES ASSUME Core, ScaffoldFile PROVE Core'
  OBVIOUS
<1>1. /\ at \in Indices /\ TypeOK /\ RunInv /\ pc = "scaffold" /\ file \in Nat /\ file > 0
      /\ chosen[at] \in dirs
  BY DEF ScaffoldFile, Core, RunInv, ChosenIsThere, TypeOK, PerTarget
<1> DEFINE rows == ScaffoldOf[Specs[at].name]
           key  == <<chosen[at], rows[file].file>>
<1>2. \/ files' = files \/ files' = Put(files, key, "template")
  BY DEF ScaffoldFile
<1>3. \/ pc' = "manifest" /\ at = Len(Specs) /\ at' = 1 /\ file' = 0
      \/ pc' = "scaffold" /\ at' \in Indices /\ file' = 0 /\ at' = at + 1
      \/ pc' = "scaffold" /\ at' = at /\ file' = file + 1
  <2>1. \/ file' = file + 1 /\ pc' = pc /\ at' = at
        \/ file' = 0 /\ NextTarget("scaffold", "manifest")
    BY DEF ScaffoldFile
  <2> QED  BY <1>1, <2>1, NextTargetIs
<1>4. \A p \in DOMAIN files' : p[1] \in dirs' /\ files'[p] \in Contents
  <2>1. key[1] = chosen[at] /\ dirs' = dirs /\ "template" \in Contents
    BY DEF ScaffoldFile, Contents
  <2> HIDE DEF key
  <2> QED  BY <1>1, <1>2, <2>1, PutTyped DEF TypeOK
<1>5. TypeOK'
  BY <1>1, <1>3, <1>4, StepTyped DEF ScaffoldFile, TypeOK, contract, PerTarget, Phases
<1>6. ChosenIsThere'
  BY <1>1, <1>3 DEF ScaffoldFile, RunInv, ChosenIsThere, Indices, Recording
<1>7. ChosenSoFar' /\ ChosenFairly' /\ DraftIsReady'
  BY <1>1, <1>3 DEF ScaffoldFile, RunInv, ChosenSoFar, ChosenFairly, DraftIsReady, Recording
<1>8. PublishedIsSound'
  BY ContractKept DEF ScaffoldFile, Core
<1> QED  BY <1>5, <1>6, <1>7, <1>8 DEF Core, RunInv

LEMMA EnsureManifestKeeps == Core /\ EnsureManifest => Core'
<1> SUFFICES ASSUME Core, EnsureManifest PROVE Core'
  OBVIOUS
<1>1. TypeOK /\ RunInv /\ at = 1 /\ \A i \in Indices : chosen[i] \in Dirs
  BY FleetAssumption DEF EnsureManifest, Core, RunInv, ChosenSoFar, TypeOK, PerTarget
<1>2. \A n \in DOMAIN Rewritten : Rewritten[n].dir \in Dirs \union {Outside}
  <2> SUFFICES ASSUME NEW n \in DOMAIN Rewritten
               PROVE  Rewritten[n].dir \in Dirs \union {Outside}
    OBVIOUS
  <2> DEFINE zeds == {Specs[i].zed : i \in Published}
             pick == CHOOSE i \in Published : Specs[i].zed = n
  <2>1. CASE n = "repository"
    <3>1. Rewritten[n] = RepositoryEntry
      BY <2>1 DEF Rewritten
    <3> QED  BY <3>1, FleetAssumption DEF RepositoryEntry, Entry
  <2>2. CASE n # "repository" /\ n \in zeds
    <3>1. Rewritten[n] = TargetEntry(pick)
      BY <2>2 DEF Rewritten
    <3>2. pick \in Published
      BY <2>2
    <3> QED  BY <1>1, <3>1, <3>2 DEF TargetEntry, Entry, Published
  <2>3. CASE n # "repository" /\ n \notin zeds
    <3>1. n \in DOMAIN targets /\ Rewritten[n] = targets[n]
      BY <2>3 DEF Rewritten
    <3> QED  BY <1>1, <3>1 DEF TypeOK
  <2> QED  BY <2>1, <2>2, <2>3
<1>3. \A n \in DOMAIN targets' : targets'[n].dir \in Dirs \union {Outside}
  BY <1>1, <1>2 DEF EnsureManifest, TypeOK
<1>4. TypeOK'
  BY <1>1, <1>3, StepTyped DEF EnsureManifest, TypeOK, contract, PerTarget, Phases
<1>5. RunInv'
  BY <1>1 DEF EnsureManifest, RunInv, ChosenSoFar, ChosenFairly, ChosenIsThere, DraftIsReady,
              Recording
<1>6. PublishedIsSound'
  BY ContractKept DEF EnsureManifest, Core
<1> QED  BY <1>4, <1>5, <1>6 DEF Core

LEMMA EnsureMatrixKeeps == Core /\ EnsureMatrix => Core'
<1> SUFFICES ASSUME Core, EnsureMatrix PROVE Core'
  OBVIOUS
<1>1. TypeOK'
  BY StepTyped DEF EnsureMatrix, Core, TypeOK, work, PerTarget, Phases
<1>2. RunInv'
  BY DEF EnsureMatrix, Core, TypeOK, work, RunInv, ChosenSoFar, ChosenFairly, ChosenIsThere,
         DraftIsReady, Recording
<1>3. PublishedIsSound'
  BY DEF EnsureMatrix, Core, PublishedIsSound
<1> QED  BY <1>1, <1>2, <1>3 DEF Core

LEMMA LoadSurfaceKeeps == Core /\ LoadSurface => Core'
<1> SUFFICES ASSUME Core, LoadSurface PROVE Core'
  OBVIOUS
<1>1. TypeOK /\ RunInv /\ at = 1
  BY DEF LoadSurface, Core, TypeOK, PerTarget
<1>2. PublishedIsSound'
  BY ContractKept DEF LoadSurface, Core
<1>3. CASE depends = None
  BY <1>1, <1>2, <1>3, ClearedKeeps DEF LoadSurface, Raise, TypeOK, work, contract
<1>4. CASE depends # None
  <2>1. /\ draft' = [interfaces |-> depends,
                     symbols |-> IF surface = None THEN Standard ELSE surface.symbols]
        /\ pc' \in {"publish", "merge"}
        /\ UNCHANGED <<work, contract, at, file, chosen>> /\ Step
    BY <1>4 DEF LoadSurface
  <2>2. draft' \in Surface(Versions)
    BY <1>1, <1>4, <2>1, FleetAssumption DEF TypeOK, Surface
  <2>3. TypeOK'
    BY <1>1, <2>1, <2>2, UnchosenIsTyped, StepTyped
       DEF LoadSurface, TypeOK, work, contract, PerTarget, Phases
  <2>4. RunInv'
    BY <1>1, <2>1, <2>2 DEF LoadSurface, work, RunInv, ChosenSoFar, ChosenFairly, ChosenIsThere,
                            DraftIsReady, Recording
  <2> QED  BY <1>2, <2>3, <2>4 DEF Core
<1> QED  BY <1>3, <1>4

LEMMA MergeSymbolKeeps == Core /\ MergeSymbol => Core'
<1> SUFFICES ASSUME Core, MergeSymbol PROVE Core'
  OBVIOUS
<1>1. /\ TypeOK /\ RunInv /\ at \in DOMAIN Standard /\ draft \in Surface(Versions)
      /\ Standard[at] \in Symbol
  BY FleetAssumption DEF MergeSymbol, Core, TypeOK, PerTarget, RunInv, DraftIsReady
<1>2. draft' \in Surface(Versions)
  <2>1. WithSymbol(draft.symbols, Standard[at]) \in Seq(Symbol)
    BY <1>1, WithSymbolIsSeq DEF Surface
  <2>2. draft' = [draft EXCEPT !.symbols = WithSymbol(draft.symbols, Standard[at])]
    BY DEF MergeSymbol
  <2> QED  BY <1>1, <2>1, <2>2 DEF Surface
<1>3. (pc' = "publish" /\ at' = 1) \/ (pc' = "merge" /\ at' \in DOMAIN Standard)
  BY <1>1, FleetAssumption DEF MergeSymbol
<1>4. TypeOK'
  BY <1>1, <1>2, <1>3, StepTyped DEF MergeSymbol, TypeOK, work, contract, PerTarget, Phases
<1>5. RunInv'
  BY <1>1, <1>2, <1>3 DEF MergeSymbol, work, RunInv, ChosenSoFar, ChosenFairly, ChosenIsThere,
                          DraftIsReady, Recording
<1>6. PublishedIsSound'
  BY ContractKept DEF MergeSymbol, Core
<1> QED  BY <1>4, <1>5, <1>6 DEF Core

\* Only a surface with no error in it goes on to be recorded.
LEMMA PublishSurfaceKeeps == Core /\ PublishSurface => Core'
<1> SUFFICES ASSUME Core, PublishSurface PROVE Core'
  OBVIOUS
<1>1. TypeOK /\ RunInv /\ at = 1 /\ draft \in Surface(Versions)
  BY DEF PublishSurface, Core, TypeOK, PerTarget, RunInv, DraftIsReady
<1>2. PublishedIsSound'
  BY ContractKept DEF PublishSurface, Core
<1>3. CASE Refused
  BY <1>1, <1>2, <1>3, ClearedKeeps DEF PublishSurface, Raise, TypeOK, work, contract
<1>4. CASE ~ Refused
  <2>1. /\ draft' = Completed /\ surface' = Completed /\ pc' = "finger"
        /\ UNCHANGED <<dirs, files, targets, depends, contract, at, file, chosen>> /\ Step
    BY <1>4 DEF PublishSurface
  <2>2. draft.symbols \in Seq(Symbol) /\ Completed.symbols = Enriched(draft.symbols)
        /\ Completed \in Surface(Versions)
    BY <1>1, EnrichedIsSeq DEF Surface, Completed
  <2>3. Sound(draft')
    BY <1>4, <2>1 DEF Sound, Refused
  <2>4. TypeOK'
    BY <1>1, <2>1, <2>2, StepTyped DEF PublishSurface, TypeOK, contract, PerTarget, Phases
  <2>5. RunInv'
    BY <1>1, <2>1, <2>2, <2>3 DEF PublishSurface, RunInv, ChosenSoFar, ChosenFairly,
                                  ChosenIsThere, DraftIsReady, Recording
  <2> QED  BY <1>2, <2>4, <2>5 DEF Core
<1> QED  BY <1>3, <1>4

LEMMA FingerprintKeeps == Core /\ Fingerprint => Core'
<1> SUFFICES ASSUME Core, Fingerprint PROVE Core'
  OBVIOUS
<1>1. TypeOK /\ RunInv /\ at = 1 /\ Sound(draft)
  BY DEF Fingerprint, Core, TypeOK, PerTarget, RunInv, DraftIsReady, Recording
<1>2. TypeOK'
  BY <1>1, UnchosenIsTyped, StepTyped DEF Fingerprint, TypeOK, work, PerTarget, Phases
<1>3. RunInv'
  BY <1>1 DEF Fingerprint, RunInv, ChosenSoFar, ChosenFairly, ChosenIsThere, DraftIsReady,
              Recording, work, Sound
<1>4. PublishedIsSound'
  BY <1>1 DEF Fingerprint, Core, PublishedIsSound, Sound
<1> QED  BY <1>2, <1>3, <1>4 DEF Core

\* A sound digest written at a place that is there.
LEMMA PutSound ==
    ASSUME Sound(draft), NEW extension, NEW target, NEW place
    PROVE  /\ PublishedIsSound => \A p \in DOMAIN Put(shas, place, draft) :
                                       Sound(Put(shas, place, draft)[p])
           /\ PublishedIsSound =>
                 \A p \in DOMAIN Put(markers, place, Marker(extension, target, draft)) :
                     Sound(Put(markers, place, Marker(extension, target, draft))[p].surface)
BY DEF Put, Marker, PublishedIsSound

LEMMA MarkerPlaceIs ==
    ASSUME NEW i \in Indices
    PROVE  MarkerPlace(i)[1] = chosen[i]
BY DEF MarkerPlace

LEMMA MarkTargetKeeps == Core /\ MarkTarget => Core'
<1> SUFFICES ASSUME Core, MarkTarget PROVE Core'
  OBVIOUS
<1>1. TypeOK /\ RunInv /\ at \in Indices /\ Sound(draft) /\ chosen[at] \in dirs
  BY DEF MarkTarget, Core, TypeOK, PerTarget, RunInv, DraftIsReady, ChosenIsThere, Recording
<1>2. \A p \in DOMAIN markers' : p[1] \in dirs
  BY <1>1, MarkerPlaceIs DEF MarkTarget, Put, TypeOK
<1>3. TypeOK'
  BY <1>1, <1>2, StepTyped DEF MarkTarget, TypeOK, work, PerTarget, Phases
<1>4. RunInv'
  BY <1>1 DEF MarkTarget, RunInv, ChosenSoFar, ChosenFairly, ChosenIsThere, DraftIsReady,
              Recording, work, Sound
<1>5. PublishedIsSound'
  <2>1. \A p \in DOMAIN markers' : Sound(markers'[p].surface)
    BY <1>1, PutSound DEF MarkTarget, Core
  <2> QED  BY <2>1 DEF MarkTarget, Core, PublishedIsSound, Sound
<1> QED  BY <1>3, <1>4, <1>5 DEF Core

LEMMA SignTargetKeeps == Core /\ SignTarget => Core'
<1> SUFFICES ASSUME Core, SignTarget PROVE Core'
  OBVIOUS
<1>1. TypeOK /\ RunInv /\ at \in Indices /\ Sound(draft) /\ chosen[at] \in dirs
  BY DEF SignTarget, Core, TypeOK, PerTarget, RunInv, DraftIsReady, ChosenIsThere, Recording
<1>2. \A p \in DOMAIN shas' : p[1] \in dirs
  BY <1>1, MarkerPlaceIs DEF SignTarget, Put, TypeOK
<1>3. \/ pc' = "extensions" /\ at' = 1
      \/ pc' = "mark" /\ at' \in Indices
  BY <1>1, NextTargetIs DEF SignTarget
<1>4. TypeOK'
  BY <1>1, <1>2, <1>3, StepTyped DEF SignTarget, TypeOK, work, PerTarget, Phases
<1>5. RunInv'
  BY <1>1, <1>3 DEF SignTarget, RunInv, ChosenSoFar, ChosenFairly, ChosenIsThere, DraftIsReady,
                    Recording, work, Sound
<1>6. PublishedIsSound'
  <2>1. \A p \in DOMAIN shas' : Sound(shas'[p])
    BY <1>1, PutSound DEF SignTarget, Core
  <2> QED  BY <2>1 DEF SignTarget, Core, PublishedIsSound, Sound
<1> QED  BY <1>4, <1>5, <1>6 DEF Core

LEMMA RecordExtensionKeeps == Core /\ RecordExtension => Core'
<1> SUFFICES ASSUME Core, RecordExtension PROVE Core'
  OBVIOUS
<1>1. TypeOK /\ RunInv /\ at = 1 /\ Sound(draft)
  BY DEF RecordExtension, Core, TypeOK, PerTarget, RunInv, DraftIsReady, Recording
<1>2. PICK d \in Unlisted : /\ markers' = Put(markers, <<d, "">>, Marker(TRUE, d[2], draft))
                            /\ shas' = Put(shas, <<d, "">>, draft)
  BY DEF RecordExtension
<1>3. d \in dirs
  BY DEF Unlisted, Extensions, ClientDirs
<1>4. \A p \in DOMAIN markers' \union DOMAIN shas' : p[1] \in dirs
  <2>1. /\ DOMAIN markers' = DOMAIN markers \union {<<d, "">>}
        /\ DOMAIN shas' = DOMAIN shas \union {<<d, "">>}
    BY <1>2 DEF Put
  <2>2. (\A p \in DOMAIN markers : p[1] \in dirs) /\ (\A p \in DOMAIN shas : p[1] \in dirs)
    BY <1>1 DEF TypeOK
  <2>3. <<d, "">>[1] \in dirs
    BY <1>3
  <2> QED  BY <2>1, <2>2, <2>3, Zenon
<1>5. TypeOK'
  BY <1>1, <1>4, StepTyped DEF RecordExtension, TypeOK, work, PerTarget, Phases
<1>6. RunInv'
  BY <1>1 DEF RecordExtension, RunInv, ChosenSoFar, ChosenFairly, ChosenIsThere, DraftIsReady,
              Recording, work, Sound
<1>7. PublishedIsSound'
  <2>1. \A p \in DOMAIN markers' : Sound(markers'[p].surface)
    BY <1>1, <1>2, PutSound DEF Core
  <2>2. \A p \in DOMAIN shas' : Sound(shas'[p])
    BY <1>1, <1>2, PutSound DEF Core
  <2> QED  BY <2>1, <2>2 DEF RecordExtension, Core, PublishedIsSound, Sound
<1> QED  BY <1>5, <1>6, <1>7 DEF Core

LEMMA WriteLedgerKeeps == Core /\ WriteLedger => Core'
<1> SUFFICES ASSUME Core, WriteLedger PROVE Core'
  OBVIOUS
<1>1. TypeOK /\ RunInv /\ at = 1 /\ Sound(draft)
  BY DEF WriteLedger, Core, TypeOK, PerTarget, RunInv, DraftIsReady, Recording
<1>2. TypeOK'
  BY <1>1, UnchosenIsTyped, StepTyped DEF WriteLedger, TypeOK, work, PerTarget, Phases
<1>3. RunInv'
  BY <1>1 DEF WriteLedger, RunInv, ChosenSoFar, ChosenFairly, ChosenIsThere, DraftIsReady,
              Recording, Unchosen, Indices
<1>4. PublishedIsSound'
  <2>1. ledger'.surface = draft
    BY DEF WriteLedger
  <2> QED  BY <1>1, <2>1 DEF WriteLedger, Core, PublishedIsSound, Sound
<1> QED  BY <1>2, <1>3, <1>4 DEF Core

LEMMA VerifyKeeps == Core /\ Verify => Core'
BY ContractKept, ClearedKeeps DEF Verify, Core, TypeOK, work, contract

LEMMA CrashKeeps == Core /\ Crash => Core'
<1> SUFFICES ASSUME Core, Crash PROVE Core'
  OBVIOUS
<1>1. crashes' \in 0..MaxCrashes /\ trust' \in {"none", "checked", "written"}
  BY FleetAssumption DEF Crash, Core, TypeOK
<1> QED  BY <1>1, ContractKept, ClearedKeeps DEF Crash, Core, work, contract

LEMMA NextKeeps == Core /\ [Next]_vars => Core'
<1> SUFFICES ASSUME Core, [Next]_vars PROVE Core'
  OBVIOUS
<1>1. CASE Developers
  BY <1>1, WriteFileKeeps, DeclareTargetKeeps, DependKeeps, EditSurfaceKeeps, MoveDirectoryKeeps
     DEF Developers
<1>2. CASE Start("write") \/ Start("check")
  BY <1>2, StartKeeps
<1>3. CASE Writing
  BY <1>3, ChooseDirKeeps, EnterTargetKeeps, ScaffoldFileKeeps, EnsureManifestKeeps,
     EnsureMatrixKeeps, LoadSurfaceKeeps, MergeSymbolKeeps, PublishSurfaceKeeps,
     FingerprintKeeps, MarkTargetKeeps, SignTargetKeeps, RecordExtensionKeeps,
     WriteLedgerKeeps, VerifyKeeps
     DEF Writing
<1>4. CASE Crash
  BY <1>4, CrashKeeps
<1>5. CASE UNCHANGED vars
  <2>1. TypeOK'
    BY <1>5 DEF vars, work, contract, run, Core, TypeOK
  <2>2. RunInv'
    BY <1>5 DEF vars, work, contract, run, Core, RunInv, ChosenSoFar, ChosenFairly,
                ChosenIsThere, DraftIsReady, Sound
  <2>3. PublishedIsSound'
    BY <1>5, ContractKept DEF vars, Core
  <2> QED  BY <2>1, <2>2, <2>3 DEF Core
<1> QED  BY <1>1, <1>2, <1>3, <1>4, <1>5 DEF Next, Hardener
-----------------------------------------------------------------------------
(* The steps of the standardizer.                                           *)

LEMMA StandardizeKeeps == Core /\ Standardize => Core'
<1> SUFFICES ASSUME Core, Standardize PROVE Core'
  OBVIOUS
<1>1. TypeOK /\ RunInv /\ at = 1 /\ pc = "idle"
  BY DEF Standardize, Core, TypeOK, PerTarget
<1>2. \A n \in DOMAIN StandardTargets : StandardTargets[n].dir \in Dirs \union {Outside}
  <2> SUFFICES ASSUME NEW n \in DOMAIN StandardTargets
               PROVE  StandardTargets[n].dir \in Dirs \union {Outside}
    OBVIOUS
  <2> DEFINE names == {Specs[i].name : i \in Baseline}
             pick == CHOOSE i \in Baseline : Specs[i].name = n
  <2>1. CASE n \in names
    <3>1. StandardTargets[n].dir = Specs[pick].canonical
      BY <2>1 DEF StandardTargets, Updated, Entry
    <3>2. pick \in Indices
      BY <2>1 DEF Baseline
    <3> QED  BY <3>1, <3>2, FleetAssumption
  <2>2. CASE n \notin names /\ n = "repository"
    BY <2>2, FleetAssumption DEF StandardTargets, Updated, Entry
  <2>3. CASE n \notin names /\ n # "repository"
    <3>1. n \in DOMAIN targets /\ StandardTargets[n] = targets[n]
      BY <2>3 DEF StandardTargets
    <3> QED  BY <1>1, <3>1 DEF TypeOK
  <2> QED  BY <2>1, <2>2, <2>3
<1>3. TypeOK'
  <2>1. depends' \in Versions \union {None}
    BY <1>1 DEF Standardize, TypeOK, Versions
  <2> QED  BY <1>1, <1>2, <2>1, UnchosenIsTyped
           DEF Standardize, TypeOK, contract, PerTarget, Phases
<1>4. RunInv'
  BY <1>1 DEF Standardize, RunInv, ChosenSoFar, ChosenFairly, ChosenIsThere, DraftIsReady,
              Recording, contract
<1>5. PublishedIsSound'
  BY ContractKept DEF Standardize, Core
<1> QED  BY <1>3, <1>4, <1>5 DEF Core

LEMMA BaselineFileKeeps == Core /\ BaselineFile => Core'
<1> SUFFICES ASSUME Core, BaselineFile PROVE Core'
  OBVIOUS
<1>1. TypeOK /\ RunInv /\ at \in Indices /\ pc = "baseline" /\ Specs[at].canonical \in Dirs
  BY FleetAssumption DEF BaselineFile, Core, TypeOK, PerTarget
<1> DEFINE rows == IF at \in Baseline THEN ScaffoldOf[Specs[at].name] ELSE <<>>
           key  == <<Specs[at].canonical, rows[file].file>>
<1>2. /\ \/ files' = files /\ dirs' = dirs
         \/ /\ files' = Put(files, key, "template")
            /\ dirs' = dirs \union Parents(Specs[at].canonical)
      /\ key[1] = Specs[at].canonical
  BY DEF BaselineFile
<1> HIDE DEF key
<1>3. dirs' \subseteq Dirs /\ \A p \in DOMAIN files' : p[1] \in dirs' /\ files'[p] \in Contents
  BY <1>1, <1>2, ParentsHaveIt, PutTyped DEF TypeOK, Contents
<1>4. dirs \subseteq dirs'
  BY <1>2
<1>5. \/ pc' = "idle" /\ at' = 1 /\ file' = 0
      \/ pc' = "baseline" /\ at' \in Indices /\ file' \in Nat
  <2>1. \/ file' = file + 1 /\ pc' = pc /\ at' = at
        \/ file' = (IF at = Len(Specs) THEN 0 ELSE 1) /\ NextTarget("baseline", "idle")
    BY DEF BaselineFile
  <2> QED  BY <1>1, <2>1, NextTargetIs DEF TypeOK
<1>6. TypeOK'
  BY <1>1, <1>3, <1>4, <1>5, StepTyped DEF BaselineFile, TypeOK, contract, PerTarget, Phases
<1>7. RunInv'
  BY <1>1, <1>5 DEF BaselineFile, RunInv, ChosenSoFar, ChosenFairly, ChosenIsThere, DraftIsReady,
              Recording, contract
<1>8. PublishedIsSound'
  BY ContractKept DEF BaselineFile, Core
<1> QED  BY <1>6, <1>7, <1>8 DEF Core

LEMMA FleetNextKeeps == IInv /\ [FleetNext]_fleetVars => IInv'
<1> SUFFICES ASSUME IInv, [FleetNext]_fleetVars PROVE IInv'
  OBVIOUS
<1>1. Core /\ standardized \in 0..MaxStandardized
  BY DEF IInv, FleetTypeOK
<1>2. CASE [Next]_vars /\ UNCHANGED standardized
  BY <1>1, <1>2, NextKeeps DEF IInv, FleetTypeOK, Core
<1>3. CASE Standardize
  <2>1. standardized' \in 0..MaxStandardized
    BY <1>1, <1>3, AutomationAssumption DEF Standardize
  <2> QED  BY <1>1, <1>3, <2>1, StandardizeKeeps DEF IInv, FleetTypeOK, Core
<1>4. CASE BaselineFile
  BY <1>1, <1>4, BaselineFileKeeps DEF IInv, FleetTypeOK, Core, BaselineFile
<1> QED  BY <1>2, <1>3, <1>4 DEF FleetNext, fleetVars

LEMMA AlwaysIInv == FleetSpec => []IInv
BY InitIInv, FleetNextKeeps, PTL DEF FleetSpec

-----------------------------------------------------------------------------
(* The theorems. *)

\* Every reachable state of the repository, the hardener and the standardizer is
\* well typed, for any fleet, layouts and edits.
THEOREM FleetTypeCorrect == FleetSpec => []FleetTypeOK
BY AlwaysIInv, PTL DEF IInv

\* No two targets are ever given one directory, and every target gets one: the
\* collision that choose_target_dirs raises on cannot happen.
THEOREM DirsAreAlwaysOwned == FleetSpec => []DirsAreOwned
<1>1. IInv => DirsAreOwned
  <2> SUFFICES ASSUME IInv PROVE DirsAreOwned
    OBVIOUS
  <2>1. TypeOK /\ ChosenFairly /\ ChosenSoFar
    BY DEF IInv, Core, RunInv
  <2>2. ASSUME pc \in {"choose", "rechoose"} PROVE Selected \notin Claimed
    <3>1. at \in Indices
      BY <2>1, <2>2 DEF TypeOK, PerTarget
    <3>2. CASE Selected = Specs[at].canonical
      <4>1. \A i \in 1..(at - 1) : i \in Indices /\ i # at /\ chosen[i] # None
        BY <2>1, <2>2, <3>1, FleetAssumption DEF ChosenSoFar, Indices
      <4> QED  BY <2>1, <3>1, <3>2, <4>1 DEF ChosenFairly, Claimed
    <3> QED  BY <3>1, <3>2, SelectedIsFair
  <2> QED  BY <2>1, <2>2 DEF DirsAreOwned, ChosenFairly
<1> QED  BY <1>1, AlwaysIInv, PTL

\* Whatever is recorded of a surface, in whatever file, and however often a run
\* was killed, the checks accept it.
THEOREM PublishedIsAlwaysSound == FleetSpec => []PublishedIsSound
BY AlwaysIInv, PTL DEF IInv, Core

-----------------------------------------------------------------------------
(* What developers made.                                                     *)

\* The surface in memory has the symbols of the file first, as they are there.
DraftKept ==
    pc \in {"merge", "publish"} /\ surface # None =>
        /\ DOMAIN surface.symbols \subseteq DOMAIN draft.symbols
        /\ \A i \in DOMAIN surface.symbols : draft.symbols[i] = surface.symbols[i]

\* The scripts' phases in which neither the surface nor the draft changes.
Elsewhere == pc' \notin {"merge", "publish"} \/ UNCHANGED <<pc, surface, draft>>

LEMMA MostStepsElsewhere ==
    ASSUME FleetNext \/ UNCHANGED fleetVars, ~ LoadSurface, ~ MergeSymbol
    PROVE  Elsewhere
<1> USE DEF Elsewhere
<1>1. CASE Developers \/ Start("write") \/ Start("check") \/ Crash
  BY <1>1 DEF Developers, Edited, WriteFile, DeclareTarget, Depend, EditSurface, MoveDirectory,
              Start, Crash, run
<1>2. CASE ChooseDir \/ EnterTarget \/ ScaffoldFile \/ EnsureManifest \/ EnsureMatrix
  BY <1>2 DEF ChooseDir, EnterTarget, ScaffoldFile, EnsureManifest, EnsureMatrix, NextTarget,
              Raise
<1>3. CASE PublishSurface \/ Fingerprint \/ MarkTarget \/ SignTarget \/ RecordExtension
           \/ WriteLedger \/ Verify
  BY <1>3 DEF PublishSurface, Fingerprint, MarkTarget, SignTarget, RecordExtension, WriteLedger,
              Verify, NextTarget, Raise
<1>4. CASE Standardize \/ BaselineFile
  BY <1>4 DEF Standardize, BaselineFile, NextTarget
<1>5. CASE UNCHANGED fleetVars
  BY <1>5 DEF fleetVars, vars, run, work
<1> QED  BY <1>1, <1>2, <1>3, <1>4, <1>5 DEF FleetNext, Next, Hardener, Writing

LEMMA DraftStaysKept == IInv /\ DraftKept /\ [FleetNext]_fleetVars => DraftKept'
<1> SUFFICES ASSUME IInv, DraftKept, [FleetNext]_fleetVars PROVE DraftKept'
  OBVIOUS
<1>0. TypeOK /\ RunInv
  BY DEF IInv, Core
<1>1. CASE LoadSurface
  BY <1>1 DEF LoadSurface, Raise, work, DraftKept
<1>2. CASE MergeSymbol
  <2>1. /\ draft \in Surface(Versions) /\ UNCHANGED surface
        /\ draft'.symbols = WithSymbol(draft.symbols, Standard[at])
    BY <1>0, <1>2 DEF MergeSymbol, work, RunInv, DraftIsReady, Surface
  <2>2. draft.symbols \in Seq(Symbol)
    BY <2>1 DEF Surface
  <2>3. /\ DOMAIN draft.symbols \subseteq DOMAIN draft'.symbols
        /\ \A i \in DOMAIN draft.symbols : draft'.symbols[i] = draft.symbols[i]
    BY <2>1, <2>2 DEF WithSymbol
  <2> QED  BY <1>2, <2>1, <2>3 DEF DraftKept, MergeSymbol
<1>3. CASE ~ LoadSurface /\ ~ MergeSymbol
  BY <1>3, MostStepsElsewhere DEF Elsewhere, DraftKept
<1> QED  BY <1>1, <1>2, <1>3

\* Only what is not there is filled in.
LEMMA EnrichedKeeps ==
    ASSUME NEW i \in Nat, NEW s \in Symbol, NEW f \in DOMAIN s, s[f] # None
    PROVE  EnrichedSymbol(i, s)[f] = s[f]
<1>1. f \in Fields
  BY DEF Symbol, Fields
<1> QED  BY <1>1, EnrichedFields DEF FilledIn

LEMMA PublishKeepsSymbols ==
    ASSUME IInv, DraftKept, PublishSurface
    PROVE  SymbolsKept
<1>1. CASE surface' = surface
  BY <1>1 DEF SymbolsKept
<1>2. CASE surface' = Completed /\ surface # None
  <2>1. /\ draft \in Surface(Versions) /\ surface \in Surface(Versions)
        /\ pc = "publish"
    BY <1>2 DEF PublishSurface, IInv, Core, RunInv, DraftIsReady, TypeOK
  <2>2. /\ draft.symbols \in Seq(Symbol) /\ surface.symbols \in Seq(Symbol)
        /\ surface'.symbols = Enriched(draft.symbols)
    BY <1>2, <2>1 DEF Surface, Completed
  <2>3. ASSUME NEW i \in DOMAIN surface.symbols,
               NEW f \in DOMAIN surface.symbols[i], surface.symbols[i][f] # None
        PROVE  surface'.symbols[i][f] = surface.symbols[i][f]
    <3>1. /\ i \in DOMAIN draft.symbols /\ draft.symbols[i] = surface.symbols[i]
          /\ i \in Nat /\ surface.symbols[i] \in Symbol
      BY <1>2, <2>1, <2>2 DEF DraftKept
    <3>2. surface'.symbols[i] = EnrichedSymbol(i, surface.symbols[i])
      BY <2>2, <3>1 DEF Enriched
    <3> QED  BY <2>3, <3>1, <3>2, EnrichedKeeps
  <2> QED  BY <2>3 DEF SymbolsKept
<1>3. CASE surface = None
  BY <1>3 DEF SymbolsKept
<1> QED  BY <1>1, <1>2, <1>3 DEF PublishSurface

\* A file is written only where there is none, or one that a script wrote.
LEMMA ScriptsKeepSources ==
    ASSUME ScaffoldFile \/ BaselineFile
    PROVE  SourcesKept
<1>1. CASE ScaffoldFile
  <2> DEFINE key == <<chosen[at], ScaffoldOf[Specs[at].name][file].file>>
  <2>1. \/ files' = files
        \/ /\ files' = Put(files, key, "template")
           /\ key \in DOMAIN files => files[key] = "old"
    BY <1>1 DEF ScaffoldFile
  <2> HIDE DEF key
  <2> QED  BY <2>1 DEF SourcesKept, Put, Own
<1>2. CASE BaselineFile
  <2> DEFINE rows == IF at \in Baseline THEN ScaffoldOf[Specs[at].name] ELSE <<>>
             key  == <<Specs[at].canonical, rows[file].file>>
  <2>1. \/ files' = files
        \/ files' = Put(files, key, "template") /\ key \notin DOMAIN files
    BY <1>2 DEF BaselineFile
  <2> HIDE DEF key
  <2> QED  BY <2>1 DEF SourcesKept, Put
<1> QED  BY <1>1, <1>2

\* A step that is no developer's, nor one of those three, changes no file and no surface.
LEMMA OthersKeep ==
    ASSUME FleetNext \/ UNCHANGED fleetVars, ~ Developers
    PROVE  /\ UNCHANGED files \/ ScaffoldFile \/ BaselineFile
           /\ UNCHANGED surface \/ PublishSurface
<1>1. CASE Start("write") \/ Start("check") \/ Crash \/ UNCHANGED fleetVars
  BY <1>1 DEF Start, Crash, work, fleetVars, vars
<1>2. CASE ChooseDir \/ EnterTarget \/ ScaffoldFile \/ EnsureManifest \/ EnsureMatrix
  BY <1>2 DEF ChooseDir, EnterTarget, ScaffoldFile, EnsureManifest, EnsureMatrix, work
<1>3. CASE LoadSurface \/ MergeSymbol \/ PublishSurface \/ Fingerprint
  BY <1>3 DEF LoadSurface, MergeSymbol, PublishSurface, Fingerprint, work
<1>4. CASE MarkTarget \/ SignTarget \/ RecordExtension \/ WriteLedger \/ Verify
  BY <1>4 DEF MarkTarget, SignTarget, RecordExtension, WriteLedger, Verify, work
<1>5. CASE Standardize \/ BaselineFile
  BY <1>5 DEF Standardize, BaselineFile
<1> QED  BY <1>1, <1>2, <1>3, <1>4, <1>5 DEF FleetNext, Next, Hardener, Writing
=============================================================================
