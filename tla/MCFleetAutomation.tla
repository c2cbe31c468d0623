------------------------- MODULE MCFleetAutomation -------------------------
(***************************************************************************)
(* Instances of FleetAutomation for TLC: four of the twenty targets, which *)
(* have an alias, a generated file and runtimes of one package, in a new   *)
(* repository, in one laid out like this one and in an older one.  The     *)
(* assumption is of the complete baseline.                                 *)
(***************************************************************************)
EXTENDS FleetAutomation

\* A new surface passes the checks that its publication depends on.
ASSUME BaselineIsAccepted ==
    LET new == Enriched(BaselineSymbols)
    IN  /\ SchemaErrors(new) = {}
        /\ SemanticErrors(new, {"class", "interface", "type", "function"}) = {}

\* Python with an alias and two sources, Ruby with a generated file, and two runtimes.
MCSpecs == SelectSeq(TARGETS, LAMBDA t : t.name \in
                {"python3", "ruby", "typescript-nodejs", "typescript-deno"})

Python3    == InClients(<<"python3">>)
Python     == InClients(<<"python">>)
Ruby       == InClients(<<"ruby">>)
Lua        == InClients(<<"lua">>)
Typescript == SharedTypescript
Nodejs     == InClients(<<"typescript", "nodejs">>)
Deno       == InClients(<<"typescript", "deno">>)
MCDirs == {<<>>, <<"clients">>, Python3, Python, Ruby, Lua, Typescript, Nodejs, Deno}

MCStandard == <<
    Declared("class", "Client", "public", {"public", "private"}, TRUE, {"Client"}),
    Declared("class", "_RequestBuilder", "private", {}, None, {}),
    Declared("function", "createClient", "public", {}, FALSE, {"Client"}) >>

Own_(dir, names) == [p \in {<<dir, n>> : n \in names} |-> "own"]

NoTargets == <<>>

Fresh == [files |-> <<>>, targets |-> NoTargets, depends |-> "^0.1.0"]

\* The layout of the repository itself: products in directories of other names.
Repository == [
    files |-> Own_(Python, {"pyproject.toml", "src/client.py"})
           @@ Own_(Ruby, {"client.gemspec", "lib/client.rb"})
           @@ Own_(Typescript, {"package.json", "src/index.ts", "src/runtimes/nodejs",
                                "src/runtimes/deno"}),
    targets |-> [repository |-> Entry(<<>>, None, None),
                 python |-> Entry(Python, "none", "own"), ruby |-> Entry(Ruby, "none", None),
                 nodejs |-> Entry(Typescript, "node", "own")],
    depends |-> "^0.1.0"]

\* Older names, two runtimes in one directory, a client of another language and
\* a gemspec of an earlier run.
Legacy == [
    files |-> Own_(Python, {"src/client.py"}) @@ Own_(Typescript, {"package.json", "src/runtimes/deno"})
           @@ Own_(Lua, {"src/client.lua"}) @@ (<<Ruby, "client.gemspec">> :> "old"),
    targets |-> [contract |-> Entry(<<>>, "none", "own"), python3 |-> Entry(Python, "none", "own")]
                @@ ("typescript-deno" :> Entry(Typescript, "none", None)),
    depends |-> None]

MCLayouts == {Fresh, Repository, Legacy}

MCEdits == [
    written  |-> {<<Python, "src/client.py", "edited">>, <<Deno, "mod.ts", "own">>},
    declared |-> {<<"python", Entry(Python, "none", "own")>>, <<"nodejs", Entry(Outside, "node", None)>>,
                  <<"lua", Entry(Ruby, "none", None)>>, <<"deno", Entry(Lua, "none", None)>>,
                  <<"python3", Entry(Deno, "none", None)>>},
    versions |-> {"^0.1.0", "^0.2.0"},
    symbols  |-> {Declared("class", "Cache", "public", {}, None, {"Client"}),
                  Declared("enum", "Mode", "public", {}, None, {})},
    names    |-> {"Registry"},
    moved    |-> {<<Python3, Python>>, <<Typescript, Lua>>}]
=============================================================================
