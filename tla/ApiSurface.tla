----------------------------- MODULE ApiSurface -----------------------------
(***************************************************************************)
(* The declared API of a client repository, clients/api-surface.json, as   *)
(* scripts/harden_client_contract.py completes and judges it.  A surface   *)
(* is a sequence of symbols.  A symbol stands for its declaration with all *)
(* that is nested in it: the visibilities of its methods, the declarations *)
(* it names, and one callable, itself or its method.                       *)
(***************************************************************************)
EXTENDS Integers, Sequences

CONSTANT None    \* not there

Visibilities == {"public", "private"}
Stabilities  == {"experimental", "stable", "deprecated"}
Behaviors    == {"sync", "async", "streaming"}
SymbolKinds  == {"class", "interface", "function", "type"}

Symbol == [
    kind : STRING, name : STRING, visibility : Visibilities, methods : SUBSET Visibilities,
    async : BOOLEAN \union {None}, behavior : Behaviors \union {None}, refs : SUBSET STRING,
    id : (Nat \X STRING) \union {None}, stability : Stabilities \union {None}, explained : BOOLEAN]

Surface(versions) == [interfaces : versions, symbols : Seq(Symbol)]

\* A symbol as it is written by hand: what the hardener can default is left out.
\* async is None for a symbol with no callable.
Declared(kind, name, visibility, methods, async, refs) ==
    [kind |-> kind, name |-> name, visibility |-> visibility, methods |-> methods,
     async |-> async, behavior |-> None, refs |-> refs,
     id |-> None, stability |-> None, explained |-> FALSE]

BaselineTypes == <<
    Declared("type", "ClientOptions", "public", {}, None, {}),
    Declared("type", "_RequestContext", "private", {}, None, {}),
    Declared("interface", "Transport", "public", {"public"}, TRUE, {"ClientError"}),
    Declared("interface", "_TelemetrySink", "private", {"private"}, FALSE, {}),
    Declared("type", "ClientError", "public", {}, None, {}) >>

BaselineClient == <<
    Declared("class", "Client", "public", {"public", "private"}, TRUE,
             {"ClientOptions", "Client", "ClientError", "_RequestContext"}),
    Declared("class", "_RequestBuilder", "private", {"private"}, FALSE, {"_RequestBuilder"}),
    Declared("function", "createClient", "public", {}, FALSE,
             {"ClientOptions", "Client", "ClientError"}),
    Declared("function", "_normalizeBaseUrl", "private", {}, FALSE, {"ClientError"}) >>

BaselineSymbols == BaselineTypes \o BaselineClient

Names(surface) == {surface[i].name : i \in DOMAIN surface}

\* One round of the loop: a standard symbol is added unless its name is taken.
WithSymbol(surface, symbol) ==
    IF symbol.name \in Names(surface) THEN surface ELSE Append(surface, symbol)

\* The path to a symbol is its position in the file and its name.
DocumentationId(position, symbol) == <<position, symbol.name>>

DefaultBehavior(async) == IF async THEN "async" ELSE "sync"

EnrichedSymbol(position, symbol) ==
    [symbol EXCEPT
        !.id        = IF @ = None THEN DocumentationId(position, symbol) ELSE @,
        !.stability = IF @ = None THEN "stable" ELSE @,
        !.behavior  = IF @ = None /\ symbol.async # None
                      THEN DefaultBehavior(symbol.async) ELSE @]

\* What is already there stays, so to enrich a surface twice is to do it once.
Enriched(surface) == [i \in DOMAIN surface |-> EnrichedSymbol(i, surface[i])]

\* What the schema requires of a symbol and enriching fills in.
Incomplete(symbol) ==
    \/ symbol.id = None \/ symbol.stability = None
    \/ symbol.async # None /\ symbol.behavior = None

\* What its four kinds of symbols exclude, and enriching cannot mend: this stands for
\* every other form that the schema refuses, in the package and in what is nested too.
Malformed(symbol) ==
    \/ symbol.kind \notin SymbolKinds
    \/ symbol.kind = "function" /\ symbol.async = None
    \/ symbol.kind = "type" /\ symbol.async # None
    \/ symbol.kind \in {"function", "type"} /\ symbol.methods # {}

SchemaErrors(surface) ==
    IF \E i \in DOMAIN surface : Incomplete(surface[i]) \/ Malformed(surface[i])
    THEN {"schema"} ELSE {}

\* The symbols' types refer only to symbols of the surface.
Refs(surface) == UNION {surface[i].refs : i \in DOMAIN surface}

SemanticErrors(surface, kinds) ==
    LET Twice(f(_)) == \E i, j \in DOMAIN surface : i # j /\ f(i) = f(j) /\ f(i) # None
        NameAt(i)   == surface[i].name
        IdAt(i)     == surface[i].id
        Contradicts(symbol) ==
            \/ symbol.behavior = "sync" /\ symbol.async = TRUE
            \/ symbol.behavior \in {"async", "streaming"} /\ symbol.async = FALSE
        Failing == [
            duplicate_name   |-> Twice(NameAt),
            unresolved_type  |-> ~ Refs(surface) \subseteq Names(surface),
            missing_kind     |-> \E kind \in kinds, v \in Visibilities : \A i \in DOMAIN surface :
                                     <<surface[i].kind, surface[i].visibility>> # <<kind, v>>,
            missing_method   |-> UNION {surface[i].methods : i \in DOMAIN surface} # Visibilities,
            contradiction    |-> \E i \in DOMAIN surface : Contradicts(surface[i]),
            unexplained      |-> \E i \in DOMAIN surface :
                                     surface[i].stability = "deprecated" /\ ~ surface[i].explained,
            duplicate_id     |-> Twice(IdAt)]
    IN  {e \in DOMAIN Failing : Failing[e]}
=============================================================================
