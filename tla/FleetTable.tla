----------------------------- MODULE FleetTable -----------------------------
(***************************************************************************)
(* The tables of the repository's maintenance scripts: the standard target *)
(* fleet of scripts/harden_client_contract.py with the files its scaffold  *)
(* writes and the symbols of its baseline API, and the target tables of    *)
(* the scripts that check a release.  A path is the sequence of its parts  *)
(* below the repository; a file is a name relative to its target.          *)
(***************************************************************************)
EXTENDS Naturals, Sequences, TLC

InClients(path) == <<"clients">> \o path

\* TargetSpec.  runtime is "" where the code has None.
Target(name, zed, path, aliases, adapter, runtime, zedAliases, publish) ==
    [name |-> name, zed |-> zed, canonical |-> InClients(path),
     aliases |-> aliases, adapter |-> adapter, runtime |-> runtime,
     zedAliases |-> zedAliases, publish |-> publish]

Language(name, zed, adapter) == Target(name, zed, <<name>>, <<>>, adapter, "", <<>>, TRUE)

Aliased(name, zed, dir, zedAlias) ==
    Target(name, zed, <<name>>, <<InClients(<<dir>>)>>, "none", "", <<zedAlias>>, TRUE)

SharedTypescript == InClients(<<"typescript">>)

Runtime(name, runtime, adapter, zedAliases, publish) ==
    Target(name, "nodejs", <<"typescript", runtime>>, <<SharedTypescript>>,
           adapter, runtime, zedAliases, publish)

TARGETS == <<
    Language("c", "c", "none"),
    Aliased("cpp", "cpp", "cxx", "cxx"),
    Language("zig", "zig", "none"),
    Language("wasm", "rust-wasm", "node"),
    Aliased("gleamlang", "gleam", "gleam", "gleamlang"),
    Language("erlang", "erlang", "none"),
    Language("elixir", "elixir", "none"),
    Language("dart", "dart", "none"),
    Language("rust", "rust", "none"),
    Language("java", "java", "java"),
    Aliased("golang", "golang", "go", "go"),
    Aliased("python3", "python", "python", "python3"),
    Language("ruby", "ruby", "none"),
    Language("php", "php", "none"),
    Language("kotlin", "kotlin", "java"),
    Language("swift", "swift", "none"),
    Runtime("typescript-nodejs", "nodejs", "node", <<"typescript-nodejs", "typescript">>, TRUE),
    Runtime("typescript-deno", "deno", "none", <<"typescript-deno", "deno">>, FALSE),
    Runtime("typescript-bun", "bun", "node", <<"typescript-bun", "bun">>, FALSE),
    Runtime("typescript-edge", "edge", "none", <<"typescript-edge", "edge">>, FALSE) >>

Fleet == {TARGETS[i] : i \in DOMAIN TARGETS}

(* What scaffold_target writes for a target, in order.  A "missing" file is   *)
(* written when there is none; a "generated" one also replaces an exact older *)
(* template of it.                                                            *)
Missing(file)   == [file |-> file, how |-> "missing"]
Generated(file) == [file |-> file, how |-> "generated"]

NativeScaffold == [
    c    |-> <<Missing("CMakeLists.txt"), Missing("include/client.h"), Missing("src/client.c")>>,
    cpp  |-> <<Missing("CMakeLists.txt"), Missing("include/client.hpp")>>,
    zig  |-> <<Generated("build.zig"), Missing("src/root.zig")>>,
    wasm |-> <<Missing("Cargo.toml"), Missing("src/lib.rs")>>]

PackagedScaffold == [
    gleamlang |-> <<Missing("gleam.toml"), Missing("src/client.gleam")>>,
    erlang    |-> <<Missing("rebar.config"), Missing("src/client.erl")>>,
    elixir    |-> <<Missing("mix.exs"), Missing("lib/client.ex")>>,
    dart      |-> <<Missing("pubspec.yaml"), Missing("lib/client.dart")>>,
    rust      |-> <<Missing("Cargo.toml"), Missing("src/lib.rs")>>,
    java      |-> <<Missing("settings.gradle.kts"), Missing("build.gradle.kts"), Missing("src/Client.java")>>]

ScriptScaffold == [
    golang  |-> <<Missing("go.mod"), Missing("client.go")>>,
    python3 |-> <<Missing("pyproject.toml"), Missing("src/__init__.py"), Missing("src/client.py")>>,
    ruby    |-> <<Generated("client.gemspec"), Missing("lib/client.rb")>>,
    php     |-> <<Missing("composer.json"), Missing("src/Client.php")>>]

MobileScaffold == [
    kotlin |-> <<Missing("settings.gradle.kts"), Missing("build.gradle.kts"), Missing("src/Client.kt")>>,
    swift  |-> <<Missing("Package.swift"), Missing("Sources/Client.swift")>>]

RuntimeScaffold ==
    [name \in {"typescript-nodejs", "typescript-bun", "typescript-edge"} |->
        <<Missing("package.json"), Missing("src/index.ts")>>]
    @@ ("typescript-deno" :> <<Missing("deno.json"), Missing("mod.ts")>>)

\* The files of these that are not below src, lib, include, Sources, nor client.go or mod.ts.
MetadataFiles == {
    "CMakeLists.txt", "build.zig", "Cargo.toml", "gleam.toml", "rebar.config", "mix.exs",
    "pubspec.yaml", "settings.gradle.kts", "build.gradle.kts", "Package.swift", "go.mod",
    "pyproject.toml", "client.gemspec", "composer.json", "package.json", "deno.json"}

RuntimeSource(runtime) == "src/runtimes/" \o runtime

ScaffoldOf == NativeScaffold @@ PackagedScaffold @@ ScriptScaffold @@ MobileScaffold @@ RuntimeScaffold

(* standardize_zed_matrix.py: its own entries of the manifest, by name, and   *)
(* the target whose files it writes there.                                    *)
Standardized(mobile) == [
    erlang  |-> "none", elixir |-> "none", dart   |-> "dart", rust |-> "rust",
    java    |-> "java", golang |-> "go",   python3 |-> "none", ruby |-> "none",
    php     |-> "none", gleamlang |-> "none"]
    @@ ("typescript-nodejs" :> "node" @@ "typescript-deno" :> "none"
        @@ "typescript-bun" :> "node" @@ "typescript-edge" :> "none")
    @@ (IF mobile THEN [kotlin |-> "none", swift |-> "none"] ELSE <<>>)

(* The targets that the release checks require: validate_zed_adapters.py has  *)
(* the adapters, validate-client-matrix.py the directories and the native     *)
(* metadata files.                                                            *)
ALLOWED == {"node", "java", "none"}

EXPECTED == [
    c       |-> "none", cpp    |-> "none", zig    |-> "none", nodejs |-> "node",
    python  |-> "none", golang |-> "none", rust   |-> "none", dart   |-> "none",
    gleam   |-> "none", erlang |-> "none", elixir |-> "none", java   |-> "java",
    kotlin  |-> "java", ruby   |-> "none", php    |-> "none", swift  |-> "none"]
    @@ ("rust-wasm" :> "node")

Required(dir, native) == [dir |-> InClients(<<dir>>), native |-> native]

REQUIRED_TARGETS == [
    c      |-> Required("c", "CMakeLists.txt"),      cpp    |-> Required("cpp", "CMakeLists.txt"),
    zig    |-> Required("zig", "build.zig"),         nodejs |-> Required("typescript", "package.json"),
    python |-> Required("python", "pyproject.toml"), golang |-> Required("go", "go.mod"),
    rust   |-> Required("rust", "Cargo.toml"),       dart   |-> Required("dart", "pubspec.yaml"),
    gleam  |-> Required("gleam", "gleam.toml"),      erlang |-> Required("erlang", "rebar.config"),
    elixir |-> Required("elixir", "mix.exs"),        java   |-> Required("java", "pom.xml"),
    kotlin |-> Required("kotlin", "pom.xml"),        ruby   |-> Required("ruby", "client.gemspec"),
    php    |-> Required("php", "composer.json"),     swift  |-> Required("swift", "Package.swift")]
    @@ ("rust-wasm" :> Required("wasm", "Cargo.toml"))
-----------------------------------------------------------------------------
(* Facts of the complete tables that the scripts rely on.                   *)

\* Names, canonical directories and published names tell targets apart, and no
\* older name of a target is a published one.
ASSUME TargetsDiffer ==
    \A i, j \in DOMAIN TARGETS :
        LET s == TARGETS[i]
            t == TARGETS[j]
        IN  /\ s.name = t.name \/ s.canonical = t.canonical => i = j
            /\ s.publish /\ t.publish /\ s.zed = t.zed => i = j
            /\ s.publish /\ ~ t.publish => i < j
            /\ t.publish => \A k \in DOMAIN s.zedAliases : s.zedAliases[k] # t.zed
            /\ t.zed \notin {"repository", "contract"}

ASSUME OlderNamesDiffer ==
    \A t \in Fleet :
        /\ t.zed \in STRING /\ t.zedAliases \in Seq(STRING) /\ Len(t.zedAliases) <= 2
        /\ \A k \in DOMAIN t.zedAliases : t.zedAliases[k] \notin {"repository", "contract"}

\* The directory that the release checks require of a published target is neither
\* another's, nor the canonical one nor the alias of another that is published.
RequiredDir(t) == REQUIRED_TARGETS[t.zed].dir

ASSUME RequiredDirsDiffer ==
    \A t \in Fleet :
        /\ DOMAIN t.aliases \subseteq {1}
        /\ t.runtime # "" => 1 \in DOMAIN t.aliases /\ t.aliases[1] = SharedTypescript
        /\ \A u \in Fleet : u.publish /\ t # u =>
              /\ t.canonical # RequiredDir(u)
              /\ t.publish => RequiredDir(t) # RequiredDir(u)
              /\ t.publish => \A k \in DOMAIN t.aliases : t.aliases[k] # RequiredDir(u)

\* A scaffold has a file that counts as source: a target is laid out once.
ASSUME ScaffoldsHaveSource ==
    \A t \in Fleet :
        /\ ScaffoldOf[t.name] \in Seq([file : STRING, how : {"missing", "generated"}])
        /\ \E k \in DOMAIN ScaffoldOf[t.name] : ScaffoldOf[t.name][k].file \notin MetadataFiles

\* The hardener publishes what the release checks require, with the adapters they
\* expect, and has a scaffold for each target, those of the standardizer included.
ASSUME TablesAgree ==
    LET published == {t \in Fleet : t.publish}
        names     == {t.name : t \in Fleet}
    IN  /\ {t.zed : t \in published} = DOMAIN EXPECTED
        /\ {t.zed : t \in published} = DOMAIN REQUIRED_TARGETS
        /\ \A t \in published : t.adapter = EXPECTED[t.zed] /\ t.adapter \in ALLOWED
        /\ names = DOMAIN ScaffoldOf /\ DOMAIN Standardized(TRUE) \subseteq names
=============================================================================
