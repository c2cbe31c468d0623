# zed-clients: a verification project

TLA+ models of the zed registry clients in `clients/` and of the scripts in `scripts/` that keep a
repository of such clients in shape, the TLC runs that check them on small instances, and TLAPS proofs of
what matters most for every instance. All paths below are relative to the repository.

## 1. The system

The repository holds client SDKs in fourteen languages for one package registry, URL helpers in
three more (C, C++, Zig), and the scripts that keep their surfaces alike. Every SDK is a library:
it has no threads or timers of its own, its hard behaviour comes from the callers' threads and
processes, from the network, from deadlines and from the file system. The scripts are batch programs: they
start over every night from whatever developers, other scripts and killed runs left in the repository.

| component | where | state | operations | what is hard |
|---|---|---|---|---|
| artifact commit | `python`, `go`, `rust`, `erlang` (temporary file and rename); `ruby`, `php`, `kotlin`, `elixir` (overwrite) | destination, temporary files, open descriptors | `download_artifact(version, path)` | concurrent calls, a failing system call at any point, kills, power loss, name collisions |
| HTTP exchange | all SDKs with a transport | request, deadline, reader, bytes held, outcome | `request`, `readAtMost`, `read_capped`, `_sendBounded`, `BoundedDataDelegate`, ... | body limits at the boundary, declared lengths, stalls, resets, deadlines that race answers |
| registry operations | all SDKs | the registry's packages, versions and organisations | `get_*`, `search`, `claim_org`, `set_yanked`, `publish`, `get_resolved_version` | answers lost after the registry acted, a transport that repeats a PUT, files that change between check and upload |
| dependency-graph client | `typescript/src/dependency-graph.ts` | entity tag and digest of the caller's document, timer, abort signal | `downloadDependencyGraph` | conditional requests, 304, digests, two sources of abortion |
| URL and credential policy | all SDKs | registry URL and token of a client | `_normalize_registry_url`, `_allowed_download_url`, `_require_text`, `_require_token`, `_NoRedirectHandler`, `credential_transport_ok` and their equals | where a bearer token may go, whatever registries answer; what a route means once it is decoded |
| client configuration | all SDKs | the settings of a client; in Erlang and Gleam also errors kept for later | constructors, `with_token`, `with_timeout` | an error kept now must be reported by every later call; a map that callers may change |
| Nix adapter and export plan | `typescript/src/nix-*.ts`, `go/nix_adapter.go` | none (pure) | admission of adapter documents, planning | two languages that have to agree |
| helpers without transport | `c`, `cpp`, `zig` | none | paths and segments | |
| hardener | `scripts/harden_client_contract.py` | the repository: source files, `.zpkg.toml`, `clients/api-surface.json`, fingerprints, markers, ledger, matrix | `--write`, `--check` | older layouts, several names of one target, developers' work among generated files, kills between two writes, runs that must end in a fixpoint |
| standardizer | `scripts/standardize_zed_matrix.py` | manifest and scaffold | one run | two scripts that write the same entries under different names |
| release checks | `scripts/verify_client_contract.py`, `validate-client-matrix.py`, `validate_zed_adapters.py` | none (they judge) | one run | a second implementation of the hardener's contract: the two must agree |
| other checks | `scripts/*.mjs`, `check-client-capability-drift.py`, `check-published-target-boundaries.py`, `conformance/` | none | one run | |

How they interact: an operation of an SDK validates its arguments (URL policy), checks the retained
configuration, runs one HTTP exchange, and decodes the answer; `download_artifact` runs an exchange
without a credential, compares the digest and, in eight SDKs, commits the bytes to a file. Nothing
is shared between calls but the file system, the connection pool and the registry itself. The scripts share
the repository with each other and with developers; a workflow runs the hardener with `--write` and commits what it
changed, and the release checks decide whether the result may be published.

What makes each correct:

- *artifact commit*: a reader of the destination never sees a part of an artifact or bytes whose
  digest was not the caller's; no temporary file is leaked by a call that returns; no call touches
  another's temporary file.
- *HTTP exchange*: success only for a complete body within the limit, a refusal only for its true
  reason, one outcome per call, memory bounded by the limit, every call ends, connections are given
  back.
- *registry operations*: an operation takes effect at most once; a reported success did take effect.
- *dependency graph*: a 304 is believed only for the document the caller holds; the bytes returned
  have the digest the registry states; timers and listeners do not outlive the call.
- *URL policy and configuration*: the token that was given last travels only to the registry it was given for,
  and never in clear text to a public host; a route means what the caller named.
- *scripts*: every target has a directory of its own; nothing developers made is lost; only surfaces that pass
  the checks are fingerprinted; a clean run is a fixpoint, and the release checks accept what it vouches for; the
  nightly run repairs whatever needs no developer.

`PROJECT.json` lists the hazards one by one with their lines and the properties that guard each, or why none does.

## 2. Modules

| module | models | proofs |
|---|---|---|
| `ArtifactFile` | what `download_artifact` promises of the destination: replaced as a whole or left alone | |
| `ArtifactCommit` | the file commit of eight SDKs, system call by system call; implements `ArtifactFile` | `ArtifactCommitProofs` |
| `Exchange` | one HTTP exchange of fourteen SDKs, byte by byte | `ExchangeProofs` |
| `WriteOnce` | what an SDK promises of a write: one effect, truthfully told | |
| `RegistryOps` | publish, yank, restore, claim and download of fourteen SDKs against a registry; implements `WriteOnce` | `RegistryProofs` |
| `ArtifactUpload` | how a publish reads the artifact while somebody writes to the file | `UploadProofs` |
| `GraphCache` | conditional downloads of dependency graphs on a shared abort signal | `GraphProofs` |
| `UrlText` | what encoding, decoding and splitting do to the text of a route | first part of `ClientProofs` |
| `ClientPolicy` | Python, Erlang and Gleam clients: construction, changes, calls, answers, redirects | `ClientProofs` |
| `FleetTable` | the tables of the scripts: targets, scaffolds, required entries | |
| `ApiSurface` | how the declared API is completed and judged | |
| `ContractFleet` | a repository, its developers and the hardener, write by write | |
| `FleetAutomation` | `ContractFleet` with the standardizer and the release checks | `FleetProofs`, `FleetCleanProofs` |
| `MC...` | the instances TLC checks | |

`RegistryOps` stands on `Exchange`: an exchange that tells its caller `ok`, an API error or anything else is
there the answer `ok`, `refused` or `unknown`. The modules are kept apart because their products would be
out of TLC's reach and the interface between them, one outcome per call, is what `SettlesOnce` and
`NoFalseSuccess` establish.

The definitions named *Faulty variant* in the modules are not part of the models: they are plausible
mistakes, and replacing the definition next to them by one makes a run fail.

### ArtifactFile and ArtifactCommit

State: `dest` is the inode the destination path names and `durable` what that directory entry may be
after a power loss; `dir` maps temporary names to inodes, `file` holds their blocks and whether they
are synced. A call `w` has a program counter `pc[w]`, the SDK that runs it, the artifact whose digest
its metadata names (`want`), the bytes it got (`body`), its temporary name, its descriptor and the
blocks written. `orphans` is a history variable: temporary names nobody will remove any more.

Actions follow the system calls: `Fetch` and `Verify` (the digest comparison), `CreateTemp` or
`NameTaken` (the exclusive open wins or fails), `WriteTemp`, `SyncTemp` (fsync; chmod and close have
no effect of their own here), `Rename`, `SysCallFails` followed by `RemoveTemp` (the error path, whose
own removal may fail and is ignored by the code), and `OpenDest`, `WriteDest`, `CloseDest` for the SDKs
that overwrite. `Kill` ends a process with all its calls, `SyncDirectory` and `PowerLoss` are the file
system: none of the SDKs syncs the directory, so a rename can be undone, and bytes never synced can
be lost. How a temporary name is chosen differs and matters: `ProbedNames` (mkstemp and os.CreateTemp
retry until a name is free), `ClockNames` (Rust: pid and nanoseconds; `CoarseClock` lets two threads
read the same instant) and `CountedNames` (Erlang: a counter that starts at 1 in each virtual machine).

The abstract `ArtifactFile` has the destination's content, the contents a power loss may still bring
back, and the artifact each call wants. `CommitsAtomically` is the refinement: `content` is the content
of `dest`, `recent` those of `durable`, `wanted` is `want`.

Bodies that fail the digest are one value, `Corrupt`; artifacts are model values that stand for their
digest, so "has the digest" is equality.

### Exchange

One request after it was sent. `server` is the other side: it answers (`Respond`) with any status
class and any Content-Length, sends byte after byte (`Send`), ends or resets (`Stop`), or does nothing for
ever. The SDK takes the headers, reads portions of what is on the wire, decides on the complete body,
and tells its caller an `outcome`. What the fourteen SDKs do differently is a `Profile` each: what
their deadline covers, whether they keep what fits (`"chunks"`), ask for one byte more than the limit
(`"limited"`) or measure the complete body (`"whole"`), which bodies they refuse by Content-Length, whether
such a refusal leaves the body neither read nor cancelled, whether a redirect fails the request, and
whether the size is checked before the status. Four behaviours do not fit in a profile and name their
SDK: Dart's reader outlives the caller's timeout, Swift's delegate hears later of the cancellation it
asked for, Go reports every failing read of an artifact as too large, WebAssembly every failing read
of an error body as the registry's error. Python's and Ruby's reads take a body that was cut short for a
complete one (`CutShortUnnoticed`); the digest or the parser has to notice.

`sound` is drawn at the start: whether the complete body would parse or have the right digest. A body
that is cut short never does.

### WriteOnce and RegistryOps

A call is asked for one operation (`request`), checks its arguments, sends a request and waits. The
registry acts on what reached it in any order and at any time, `Fail` ends a call without an answer (deadline,
lost connection, undecodable answer), and an action of the registry may come after it: the caller who
heard `unknown` does not know. `released`, `yanked` and `owner` are the registry's state, `verdict` what
it decided on each sending. The registry itself is not in this repository; its actions state what the
SDKs rely on (a version is released once, a name has one owner, a write needs a token).

What the SDKs do differently is again a `Profile`: whether a missing token is noticed before anything is
sent, where a publish finds its route (from the metadata; given, and compared with the metadata; given,
and not compared), which member of a claim carries the name, and whether the HTTP library repeats a PUT.
A download looks up a version and then fetches the bytes from wherever `download_url` points; the store may
serve any bytes, and `Matches` is the comparison with the pinned digest. `after` is a history variable: the
calls that had ended when a call began.

`WritesOnce` is the refinement of `WriteOnce`: the effect of a write is the registry's verdict on it, what
its caller heard is `outcome`.

### ArtifactUpload

The file has a size that an editor may change at any moment (`Edit`). `Check` compares it with the limit, `Open`
and `Read` follow. SDKs that are handed bytes or read the file in one go have no window (`memory`, `whole`);
Go stats, opens and reads at most limit + 1 bytes (`capped`) and then measures the body; Rust, which compares the
metadata with the limit, and PHP, which has none, stream what the file has when it is opened (`streamed`).

### GraphCache

Calls of `downloadDependencyGraph` that share one AbortSignal. `listening` and `timers` are the listeners and
armed timers that `createTimedSignal` adds, `signal` says who aborted a call's own signal first, `streams`
holds the calls whose response body is neither ended nor cancelled. `docs` are the tags of the documents that
the application keeps; `asked` is the condition of a call. JavaScript runs to the next await undisturbed, so
`TakeHeaders` is one step, from the resolution of `fetch` to the first read or the result, and so is a chunk.
A condition is split at its commas (`ifNoneMatchMatches`), also at those inside a tag, which
`requireStrongEtag` allows: `Pieces` says what is left of a tag. Tags are equal up to a `W/`, so weak tags
are not told apart.

### UrlText and ClientPolicy

`client[c]` is what a client holds and `given[c]`, a history variable, what the application said last: a registry and
a token. `call` is the request under way with the place it goes to, the token it carries and, in `named`, the texts
that the caller named. A Python client is checked by `Construct` and never again. An Erlang client is a map: `NewErlang`
checks its URL, `ErlangWithToken` puts a token or an error in it, `ErlangMutated` is what the comment at
`clients/erlang/src/zed_pkg_client.erl:640` allows callers to do, and each call checks registry and token again
(`Usable`, `Authorized`). What goes out is the trimmed registry, but `credential_transport_ok` parses the text as the map holds it:
`spelling` says whether that text is trimmed, has white space around it, or is a string instead of a binary, and
`SpellingAllowed` what the parser makes of each. A Gleam client whose URL is refused is one of the default public registry that holds an error
(`NewGleam`), which every call has to report. `Read` and `Write` stand for the operations without and with the token;
`Download` resolves the `download_url` of any metadata, as `urljoin` does or, in Erlang and Gleam, with fewer forms;
`Answered` and `Redirected` end a call.

Texts are sequences of the characters that the code tells apart, so that `Quote`, `Unquote`, `Split` and `Acceptable` do
what the library functions do: an escape stays an escape when it is quoted again, a dot segment in escapes is one
when it is decoded. Hosts are model values in sets: which of them `ipaddress` calls private is not modelled.
The path of a download is not followed. A custom opener of the Python client, and its `token` attribute when it is
assigned later, are the application's own business.

### FleetTable, ApiSurface, ContractFleet and FleetAutomation

The repository: `dirs` and `files` (each `old`, an earlier text that the hardener replaces, `template`, a text of a script that
no script replaces, `own` or `edited`), `targets` and `depends` of `.zpkg.toml`, `surface` (`clients/api-surface.json`), and what the hardener records: `finger`, `markers`,
`shas`, `ledger`, `matrix`. Developers change files, declarations, the dependency and the surface, or move a
directory, between runs (`Developers`). A run of the hardener follows `run` in `harden_client_contract.py`: choose a
directory for each target (`ChooseDir`), write what its scaffold lacks (`EnterTarget`, `ScaffoldFile`),
rewrite the manifest unless it is mature (`EnsureManifest`), the matrix, load and complete the surface
(`LoadSurface`, `MergeSymbol`, `PublishSurface`), record it (`Fingerprint`, `MarkTarget`, `SignTarget`,
`RecordExtension`, `WriteLedger`), choose again and judge (`Verify`); `--check` is the last two. Each write of a file is
a step, `Crash` may come between any two, `Raise` is an exception: what was written stays. `chosen`, `draft` and
`entries` are the run's memory.

`ApiSurface` has a symbol for each declaration with everything nested in it. `Enriched` fills in identifiers (from the
position and the name), stability and behaviour; `SchemaErrors` judges the form of the completed surface, as the JSON schema does: that
everything required is there (`Incomplete`), and that no symbol has a form which its kind excludes (`Malformed`, which stands for
everything else that the schema refuses). `SemanticErrors` are the errors of the checks by name. A surface with errors of either
sort is not written (`Refused`): the run raises.
`FleetAutomation` adds the standardizer (`Standardize`, `BaselineFile`) and states the release checks as predicates over
the same repository: `ClientContract` is `verify_client_contract.py`, `ReleaseSet`, `AdaptersValid` and
`RuntimeEntryPoints` are the others. Their agreement with the hardener is a property, not an assumption:
`TablesAgree` compares the complete tables of all scripts, `VouchedFor` the behaviours.

`trust` is a history variable: `written` when a `--write` found no error and recorded the directories in use, since the
last change of anybody. A digest is the value it is taken of. A write is one step, so a file cut in half by a kill is
not modelled: a torn `api-surface.json` would stop every later run until someone repairs it. Left out as well are
symbolic links, the `org`, `name` and `prefix` of a manifest, its install table and its other dependencies.

## 3. Runs

| run | instance | shows |
|---|---|---|
| `commit_replace` | Python and Erlang, two calls in two processes, two artifacts, two blocks, three inodes, two names | the destination is always whole, temporary files are accounted for and never stolen, the refinement of `ArtifactFile` |
| `commit_mixed` | Rust (two threads, coarse clock) and Kotlin, one artifact | a complete destination is torn only by an overwriting call, although Rust's clean-up may take another's file |
| `commit_clock` | three Rust threads, coarse clock | **violated**: a third call can create the name again that a clean-up freed, and its half-written file is renamed into place |
| `exchange` | all fourteen SDKs, limit 3, error limit 2, at most 5 bytes, 3 in flight | outcomes are true and heard once, memory and connections are bounded, and where the deadlines cover the body every call and every reader ends |
| `exchange_java` | Java | **violated**: the 30-second deadline of `clients/java/README.md:27` ends with the headers |
| `registry` | three publishes, yanks, restores, claims and downloads, two versions, one name; TypeScript (derives the route) and Go (compares it) | writes take effect once, refusals are justified and without effect, a version is what its metadata says and what everybody downloads, the last yank or restore of callers who wait for each other decides |
| `registry_ruby` | one Ruby publish | **violated**: it took effect, was repeated, and its caller hears that it was refused |
| `upload` | the SDKs that publish files, limit 3, files up to 6, two edits | an undisturbed file is published whole, at the exact boundary; an overrun is bounded where the code bounds it |
| `graph` | two calls, two tags, limit 2, chunks up to 3 | confirmations concern kept documents, timers and listeners live as long as their call, the first abortion gives the reason, every call ends |
| `graph_tags` | one call, a kept document whose tag has a star between commas | **violated**: any 304 is accepted as the confirmation of that document |
| `client` | a client of each SDK, one host of each sort, thirteen URLs, fifteen locations, two tokens and an unsafe one, names of every shape | only the token given last is sent, only to its registry, never in clear text to a public host (except by an Erlang client whose map holds a registry with white space around it, see section 5); https is not left; routes are what was named |
| `fleet` | four of the twenty targets, three layouts, an edit, a kill and a standardizer run | targets own their directories, only sound surfaces are fingerprinted, developers' work is kept, a clean run is a fixpoint that the release check accepts, and the nightly runs converge |

The bounds. Two blocks make a half-written file; two artifacts tell one caller's from another's; three
inodes hold the destination and a temporary file per call. More calls add nothing for the replacing
SDKs, for which the theorems hold with any number; the one behaviour that needs a third call has its own
run. A limit of three bytes with up to five sent has bodies below, at, one above and two above the
limit, an error limit below it, and several reads per body. Three registry calls are a publisher, a rival
and a downloader, or a publisher and two who set the yank; the theorems hold for any number. Two graph
calls race for one signal, and a second call can ask with the tag that the first one brought. Names,
artifacts, inodes, calls, tokens and versions are interchangeable (symmetry), and `Referenced` leaves the blocks of
unreachable inodes out of the view; neither is used in a run with liveness. In `registry` the constraint `ClaimsApart`
lets claims race with claims only: the registry keeps nothing that they and the other operations both use. One
client is enough in `client`, because what another one could bring, metadata of another registry, is among the answers,
and an Erlang client changes its registry between two calls. The four targets of `fleet` are the ones that differ: one with an
alias, one with a file that is generated anew, and two runtimes of one package; the layouts are a new repository, this
repository, and an older one with retired names, two runtimes in one directory and a client of another language.
One edit, one kill and one standardizer run may fall anywhere between and within any number of runs; `FleetProofs`
has no bound. Except for `client` and `fleet`, which never stop, a system here may come to a halt (every call
ended), so deadlock is not checked.

Fairness, in the specifications named `FairSpec` only. In `Exchange` the SDK's own steps are taken and an
armed deadline fires; in `GraphCache` an armed timer fires and a rejected promise is noticed. The
registry, the network and the application are under no obligation. Both are what a running event loop
or thread guarantees. In `FleetAutomation` a run that was started goes on (`Writing`, `BaselineFile`: weak fairness), which an
operating system guarantees until the run is killed, and the scheduled workflow starts a `--write` again and again
(strong fairness of `Start("write")`, since a run under way disables it); developers and the standardizer owe nothing. `DeadlinesHold` and `ReaderEnds` are about the SDKs whose deadlines cover the body
(`Covered`): Java's and Kotlin's end with the headers, Ruby's starts again with every byte of a body
without bound.

## 4. Proofs

`ArtifactCommitProofs`, for any number of calls, processes, artifacts, blocks, inodes and names:
`TypeCorrect` holds of every SDK and clock. The others assume `Unshared`: no two threads read the same clock instant,
without which `commit_clock` shows a rename to install the file of another call. `TempsAlwaysAccountedFor`,
`TempsNeverStolen`, `RenameInstallsOwn` and `OnlyOverwritersTear` then hold of every mix of the eight SDKs, in one directory
and towards one destination; `DestAlwaysWhole` and `ImplementsArtifactFile` also assume `AllReplace` (no overwriting SDK),
since an overwriting call tears the destination by design. The inductive invariant adds to the properties what makes them
stick: which blocks a call has written at each point, that a synced temporary file holds the caller's whole
artifact, that no two temporary names share an inode and none is one the destination may have, and that a name in use
belongs to one live call (`NameInv`). `OnlyReplacing`, inductive next to it, says that inodes
reachable from the destination are complete and synced. `OnlyOverwritersTear` is proved per step (`TornStep`):
a destination that was complete and no longer is stays open in an overwriting call, or the power failed before it was synced.
`ImplementsArtifactFile` maps each step to one of `ArtifactFile` or to a stutter: only `Rename` is an `Install`.
(`commit_mixed` checks `TornOnlyByOverwriting` with a coarse clock and two calls, beyond the theorem's assumption.)

`ExchangeProofs`, for any limits and body sizes and every SDK: `ExchangeTypeCorrect`, `SuccessIsTrue`,
`RefusalIsTrue`, `StreamsAreBounded` and `OutcomeIsFinal`. The invariant says where the bytes are
(`held + wire = sent` until the call ends), that a reader still reading has not overflowed, and that an
outcome is told only with the registry's state that justifies it; `OutcomeKept` shows that nothing it
rests on changes afterwards.

`ConnectionsAreReleased` adds who may still hold a connection (`ConnInv`).

`RegistryProofs`, for any number of calls, versions, names and SDKs: `RegistryTypeCorrect`,
`ReleasesAreAsDescribed`, `DownloadsAreAlwaysGenuine` and `LastWordAlwaysStands` hold of every SDK, Ruby included;
`RefusalsHadNoEffect` and `ImplementsWriteOnce` assume `SendOnce` (no SDK in use repeats a write), without which
`registry_ruby` shows the first to fail. The invariant ties each part of the registry to the verdicts that
made it so: what a released version, an owner or a pinned digest came from, that an answer heard is a verdict
given (`CallOK`), that routes were derived or compared (`RouteOK`), and, for `LastWordStands`, that once every
other yank or restore was answered before this one began, only this one's verdict can still change `yanked`.

`GraphProofs`, for any number of calls, tags and limits: `GraphTypeCorrect`, `CallsAreGuarded`, `FirstAbortDecides` and
`KeptIsAlwaysComplete`, and `ConfirmationsAreKept` under the assumption that no tag has a star between commas, without
which `graph_tags` shows it to fail. The invariant adds that a call which has not ended was told nothing, that a
waiting call has no stream, and that conditions name kept documents.

`UploadProofs`, for any limit, size, number of edits and SDK: `UndisturbedIsAlwaysWhole` and `OverrunIsAlwaysBounded` (and
`UploadTypeCorrect`). The invariant says how much each way of reading has taken at each point, and that the number of edits
seen at the check is still the current one only if the file is what was checked.

`ClientProofs`, for any clients, URLs, tokens, hosts, texts and answers: `ClientTypeCorrect`, `TokenAlwaysStaysHome`,
`NeverEverDowngraded` and `RoutesAlwaysNamed`. The invariant (`Faithful`) says that what a client holds is what was given last, with an error in its
place where it was refused, and that what Python and Gleam do not check again was checked at construction. The step that
matters is `TokenMayBeSent`: the three SDKs reach the same guarantee by different checks, with the one exception for Erlang that
`TokenStaysHome` names, since its check looks at another text than the request.

`RoutesAlwaysNamed` rests on what `Quote`, `Unquote`, `Joint` and `Split` compute of texts of any length, that is on induction
over data. The induction theorems of the library take a predicate as a parameter and cannot be used here; `Induct` states
induction over the numbers for a set instead, and is proved from a minimal element of its complement (`WFMin` and
`NatLessThanWellFounded` of `WellFoundedInduction`); `InductSeq` and `InductLen` carry it over to sequences that grow at
their end and to shorter sequences. A recursive function is first shown to exist (`AccumulatesExists`, `ReadsExists`, `DecodingIs`),
then to follow its equation step by step (`QuoteAppend`, `JointAppend`, `SplitAppend`, `UnquoteHead`). From these follow
`RoundTrip` (unquoting what was quoted gives the text), `SplitJoint` (segments without a separator are read as
they were joined), `QuoteIsASegment` (a quoted text has no separator) and `UnquoteKeeps` (a separator in a segment of the
base would still be there when it is decoded, so that judging the decoded segment is enough). The invariant `Routed` says of
each client that its base was judged, at construction or, for Erlang, at each call (`UsableBase`).

`FleetProofs`, for any selection of the targets, any layouts and edits and any number of runs and kills:
`FleetTypeCorrect`, `DirsAreAlwaysOwned` and `PublishedIsAlwaysSound`. They share an inductive invariant: the directories
chosen so far are distinct and none is the canonical one of another target (`ChosenFairly`), so the fallback is
always free; and once a run has published its surface, what it records is the surface that the two checks accepted
(`DraftIsReady`, from `Refused`). Until it is written, the surface in memory extends the one on disk (`DraftKept`).

`FleetCleanProofs` adds what a run leaves, for the same generality, and proves the remaining safety properties:

- `Trace` says what a `--write` has achieved by each of its phases: the targets laid out (`LaidOut`), the manifest and matrix
  that agree with the choice (`Entered`), the surface completed, written and fingerprinted (`Drafted`), the markers and
  ledger entries so far (`RecordedSoFar`), and in `verify` that all of it is there (`Judged`). It is needed because a clean verdict
  looks at less than the run has written: that a later run finds nothing to do follows from what was done, not from the verdict.
- `CleanIsAFixpoint`: after a clean `--write`, the repository is `Clean` (all is recorded for the directories of the
  matrix, and these are what the choice would give again), and every later run `Replays` it: the directories it chooses are those of the
  matrix, its surface in memory is the one on disk, its entries are those of the ledger. `Trusted` ties both to `trust`, and each
  action of the hardener then leaves work and records as they are (`Frozen`).
- `AlwaysVouchedFor`: `Trusted` implies each of the errors of `verify_client_contract.py` to be absent.
- `OwnWorkIsAlwaysKept`: the native metadata of published targets survives the merging of entries under several names, whichever of the scripts
  wrote them; and in a repository that the release checks accept, each published target is declared where they require it
  (`DeclaredAsRequired`), so that the hardener, reading that manifest, chooses the same (`ChosenAsRequired`) and moves none of
  them. It rests on the tables: `RequiredDirsDiffer` in `FleetTable`, which TLC evaluates for the complete tables.

The assumptions on constants are those of the modules (`ExchangeAssumption`, `FleetAssumption`, ...): the bounds
are natural numbers, `None` is none of the other values (of versions, surfaces and digests too), layouts and edits are within
the directories, and texts are sequences of characters (`TextAssumption`). Those of `FleetTable` (`TargetsDiffer`, `OlderNamesDiffer`,
`RequiredDirsDiffer`, `ScaffoldsHaveSource`, `TablesAgree`) are facts about the tables of the scripts, all twenty targets, and
no choice of ours. TLC evaluates all of them in its runs.

Only model-checked: liveness (`DeadlinesHold`, `ReaderEnds`, `Settles`, `Converges`), because fairness is out of the prover's
reach. Every safety invariant, action property and refinement of the passing runs is a theorem.

## 5. Where the code departs from its documents

The four violated runs above, and these, which have no run of their own:

- Erlang, Gleam, WebAssembly, Ruby, PHP, Kotlin and Elixir measure complete bodies (`reading` is `"whole"`), which
  may be of any size by then; `README.md:49-50` says that downloaded bodies are bounded.
- Go: a file that grows after `os.Stat` (`client.go:650-662`) is cut one byte above the limit (678) and, as
  the check of the body grants another mebibyte (681), the piece is published. `OverrunBounded` states the bound.
- Rust: the size is checked on the metadata (`lib.rs:513-521`), the path opened again at 526 and sent whole.
- TypeScript and Dart (and `downloadDependencyGraph`) neither read nor cancel a body refused by its headers, and
  the timer is cleared: the stream stays open until the registry ends it. `Released` and `Guarded` name the case;
  `clients/typescript/DEPENDENCY_GRAPH.md:48` says that response streams have a deadline.
- `downloadDependencyGraph` rejects a 304 for a tag with a comma, although it matches the condition.
- Ruby, PHP, Kotlin and Elixir name the member of a claim's body `org` where the other SDKs write `slug`, although
  `README.md:6-7` says all show the same wire behaviour: one of the two groups is not understood. Which one, the
  repository does not say, since the registry is not in it: no property is about it.
- Erlang: before a token goes out, `credential_transport_ok` (`zed_pkg_client.erl:689-701`) parses the base of the client map as it is, while the
  request goes to the base that `validate_base` has trimmed (106-123, 145-147, 614-619). A base with white space around it that a
  caller put into the map does not parse, which counts as allowed: the token goes in clear text to a public host. `TokenStaysHome`
  excepts this case, and without the exception TLC finds it in four steps. Python trims what it
  then checks; `README.md:6-7` says that all SDKs behave alike on the wire.
- The hardener removes the entries of unpublished runtimes (`deno`, `bun`, `edge` and older names) with any registry metadata that was
  written into them by hand (`harden_client_contract.py:826-829`); `MetadataKept` is about published targets.
- The standardizer writes the adapters `dart`, `rust` and `go` (`Standardized` in `FleetTable`), which `validate_zed_adapters.py` does not
  allow, and names of its own for published targets, so its entries and the hardener's share directories
  (`ManifestErrors`) until the hardener has merged them; its commit skips the checks.
- A scaffold whose run is killed after a first source file counts as implemented from then on (`HasProduct`) and stays
  without the rest; `Releasable` notices a missing metadata file, nothing a missing source.
- A generated file with an exact older text is migrated (`harden_client_contract.py:170-181`) only while the target has no source at
  all (870), that is hardly ever; and what it calls the standardizer's older gemspec (1092-1099) lacks the authors and the license that
  `standardize_zed_matrix.py:276-286` writes, so it never matches one.
- Documentation identifiers are made of the position and the name of a symbol: a rename and an insertion before it can
  make two equal, which `SemanticErrors` reports and only a developer can repair.
- The `--check` looks for drift in the directories that the ledger lists, so a directory that was moved is reported only by
  its missing marker, and not at all when its marker moved along to the place that is chosen now. `VouchedFor` is therefore about a
  `--write`, whose matrix records the directories in use.
- The hardener keeps the marker of a runtime in the shared TypeScript package at `.zed-contracts/<runtime>`
  (`harden_client_contract.py:682-686`) and looks at no other; `verify_client_contract.py:126-133` prefers a marker in the
  package itself. A marker that an earlier layout left there makes the release check refuse what a clean `--write` and `--check`
  accept, and no run removes it, although `docs/client-contract-hardening.md:57-58` says that a stale marker fails closed. And a shared
  package declared for a runtime that has no source passes the hardener, while `verify_client_contract.py` refuses
  it. Both were met in the proof of `AlwaysVouchedFor`, beyond the layouts that TLC explores; `SharedIsPlain`, a hypothesis of the second
  part of `VouchedFor`, excludes exactly them.

## 6. Plan

Done: the SDKs' file commit, exchange, registry operations, uploads and graph cache; the policy of the Python, Erlang and
Gleam clients; the hardener, the standardizer and the release checks. What would come next, in this order: the URL rules of
the remaining SDKs as profiles of `ClientPolicy` (they differ in the forms of `download_url` and in what counts as an internal
host); an abstract exchange that `Exchange` implements; writes of a file as two steps in `ContractFleet`, with the torn
file that a kill leaves; the admission of adapter documents and the export plan as operators against reference
definitions. To prove
next, with these: the abstract exchange as a refinement, and, for the new steps of a write, that a torn file is never
fingerprinted.

## 7. Not modelled

- Search and the package listing: reads that decide nothing. Version requirements are resolved outside this repository.
- Nix adapter and export plan, C, C++ and Zig helpers, the sync and Claritas types: pure functions and declarations, where
  nothing is kept or ordered.
- Lock provenance, README and published-boundary checks, the capability drift check and the JavaScript checkers: they read
  files that no modelled step writes.
- Lint rules, CI workflows, generated contracts and types, packaging, and the wording of errors.
- Header syntax and JSON syntax: a document parses or it does not.
