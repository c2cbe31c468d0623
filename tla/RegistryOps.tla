----------------------------- MODULE RegistryOps -----------------------------
(***************************************************************************)
(* The operations of the SDKs against one registry: publish, yank and      *)
(* restore, claim an organisation, resolve and download.  A call checks    *)
(* its arguments, sends one request and waits; the request or its answer   *)
(* may be delayed past the deadline of the call or lost, so the registry   *)
(* may act on a request whose caller has gone.  How one exchange is read   *)
(* and timed is the subject of Exchange.                                   *)
(***************************************************************************)
EXTENDS Naturals, FiniteSets

CONSTANTS
    Calls,     \* the calls made, of any number of clients
    Sdks,      \* the SDKs in use
    Versions,  \* the coordinates org/name@version in play
    Slugs,     \* the names of organisations in play
    Ops,       \* the operations in play
    None       \* nothing published, nobody, nothing heard

Writes == {"publish", "yank", "restore", "claim"}

\* What an operation does not take has a fixed value: only a publish carries
\* metadata, a download needs no token.
Requests ==
    {r \in [sdk : Sdks, op : Ops, route : Versions, meta : Versions, slug : Slugs,
            token : BOOLEAN] :
        (r.op # "publish" => r.meta = r.route) /\ (r.op = "download" => r.token)}

ASSUME RegistryAssumption ==
    /\ Ops \subseteq Writes \union {"download"}
    /\ None \notin Requests /\ None \notin Calls
    /\ None \notin Writes \union {"download"}
    /\ None \notin {"ok", "refused", "unknown", "local", "invalid"}

(* checked: a call without a token is refused before anything is sent.       *)
(* route: "derived" takes the coordinate from the metadata, "compared"       *)
(*   refuses a route that differs from it, "given" sends both as they are.   *)
(* field: the member of the claim's body that carries the name.              *)
(* repeats: the HTTP library sends a PUT again after a lost connection.      *)
Profile(checked, route, field, repeats) ==
    [checked |-> checked, route |-> route, field |-> field, repeats |-> repeats]

TypeScript == Profile(TRUE, "derived", "slug", FALSE)
Python == Profile(TRUE, "compared", "slug", FALSE)
Go     == Profile(TRUE, "compared", "slug", FALSE)
Rust   == Profile(TRUE, "derived", "slug", FALSE)
Java   == Profile(TRUE, "derived", "slug", FALSE)
Dart   == Profile(TRUE, "derived", "slug", FALSE)
Swift  == Profile(TRUE, "derived", "slug", FALSE)
Erlang == Profile(TRUE, "compared", "slug", FALSE)
Gleam  == Profile(TRUE, "compared", "slug", FALSE)
Wasm   == Profile(TRUE, "derived", "slug", FALSE)
Ruby   == Profile(FALSE, "given", "org", TRUE)
Php    == Profile(FALSE, "given", "org", FALSE)
Kotlin == Profile(FALSE, "given", "org", FALSE)
Elixir == Profile(FALSE, "given", "org", FALSE)

ProfileOf ==
    [typescript |-> TypeScript, python |-> Python, go |-> Go, rust |-> Rust,
     java |-> Java, dart |-> Dart, swift |-> Swift, erlang |-> Erlang,
     gleam |-> Gleam, wasm |-> Wasm, ruby |-> Ruby, php |-> Php,
     kotlin |-> Kotlin, elixir |-> Elixir]

ASSUME SdksInOpsAssumption == Sdks \subseteq DOMAIN ProfileOf

VARIABLES
    request,   \* what each call was asked to do
    pc,        \* "idle", "waiting", "fetching" (the bytes) or "done"
    attempts,  \* how often the request was sent
    verdict,   \* the registry's verdict on each sending, when it has acted
    pinned,    \* download: the digest in the metadata
    got,       \* download: the artifact handed to the caller
    outcome,   \* what the caller heard
    after,     \* history: the calls that had ended when this one began
    released,  \* registry: the publish call that each version comes from
    yanked,    \* registry: the versions that are yanked
    owner      \* registry: the claim that owns each organisation

calls    == <<request, attempts, after>>
registry == <<released, yanked, owner>>
vars     == <<request, pc, attempts, verdict, pinned, got, outcome, after, released,
              yanked, owner>>

p(c)     == ProfileOf[request[c].sdk]
Op(c)    == IF request[c] = None THEN None ELSE request[c].op
Route(c) == request[c].route

Digests  == Calls
Outcomes == {"ok", "refused", "unknown", "local", "invalid"}

TypeOK ==
    /\ request \in [Calls -> Requests \union {None}]
    /\ pc \in [Calls -> {"idle", "waiting", "fetching", "done"}]
    /\ attempts \in [Calls -> 0..2]
    /\ verdict \in [Calls -> [1..2 -> {None, "ok", "refused"}]]
    /\ pinned \in [Calls -> Digests \union {None}]
    /\ got \in [Calls -> Digests \union {None}]
    /\ outcome \in [Calls -> Outcomes \union {None}]
    /\ after \in [Calls -> SUBSET Calls]
    /\ released \in [Versions -> Calls \union {None}]
    /\ yanked \in SUBSET Versions
    /\ owner \in [Slugs -> Calls \union {None}]

Init ==
    /\ request = [c \in Calls |-> None]
    /\ pc = [c \in Calls |-> "idle"]
    /\ attempts = [c \in Calls |-> 0]
    /\ verdict = [c \in Calls |-> [i \in 1..2 |-> None]]
    /\ pinned = [c \in Calls |-> None]
    /\ got = [c \in Calls |-> None]
    /\ outcome = [c \in Calls |-> None]
    /\ after = [c \in Calls |-> {}]
    /\ released = [v \in Versions |-> None]
    /\ yanked = {}
    /\ owner = [s \in Slugs |-> None]

-----------------------------------------------------------------------------
(* The SDK. *)

Finish(c, o) ==
    /\ pc' = [pc EXCEPT ![c] = "done"]
    /\ outcome' = [outcome EXCEPT ![c] = o]

\* Faulty variant: no check of the coordinate.
DeclinesNoMismatch(r) ==
    r.op \in Writes /\ ~r.token /\ ProfileOf[r.sdk].checked

\* Refused before anything is sent.
Declines(r) ==
    \/ r.op \in Writes /\ ~r.token /\ ProfileOf[r.sdk].checked
    \/ r.op = "publish" /\ ProfileOf[r.sdk].route = "compared" /\ r.route # r.meta

\* Faulty variant: two arguments are swapped.
RoutedSwapped(r) == [r EXCEPT !.route = r.slug, !.slug = r.route]

\* Where a request goes.
Routed(r) ==
    IF r.op = "publish" /\ ProfileOf[r.sdk].route = "derived"
    THEN [r EXCEPT !.route = r.meta]
    ELSE r

Call(c, r) ==
    /\ pc[c] = "idle"
    /\ request' = [request EXCEPT ![c] = Routed(r)]
    /\ after' = [after EXCEPT ![c] = {d \in Calls : pc[d] = "done"}]
    /\ IF Declines(r)
       THEN Finish(c, "local") /\ UNCHANGED attempts
       ELSE /\ pc' = [pc EXCEPT ![c] = "waiting"]
            /\ attempts' = [attempts EXCEPT ![c] = 1]
            /\ UNCHANGED outcome
    /\ UNCHANGED <<verdict, pinned, got, registry>>

\* Faulty variant: every answer is a success.
HeardAlwaysOk(c) == IF verdict[c][attempts[c]] = None THEN None ELSE "ok"

\* The answer on the connection in use: those before it were given up.
Heard(c) == verdict[c][attempts[c]]

\* The answer arrives, and metadata leads on to the artifact it names.
Answer(c) ==
    /\ pc[c] = "waiting" /\ Heard(c) # None
    /\ IF Op(c) = "download" /\ Heard(c) = "ok"
       THEN /\ pc' = [pc EXCEPT ![c] = "fetching"]
            /\ UNCHANGED outcome
       ELSE Finish(c, Heard(c))
    /\ UNCHANGED <<calls, verdict, pinned, got, registry>>

\* Faulty variant: every write is repeated.
RepeatsPosts(c) == attempts[c] = 1 /\ Op(c) \in Writes

Repeats(c) == attempts[c] = 1 /\ p(c).repeats /\ Op(c) = "publish"

\* Faulty variant: the caller hears of a lost answer as of a refusal.
FailAsRefused(c) ==
    /\ pc[c] \in {"waiting", "fetching"}
    /\ IF pc[c] = "waiting" /\ Repeats(c)
       THEN attempts' = [attempts EXCEPT ![c] = 2] /\ UNCHANGED <<pc, outcome>>
       ELSE Finish(c, "refused") /\ UNCHANGED attempts
    /\ UNCHANGED <<request, after, verdict, pinned, got, registry>>

\* The deadline passes, the connection is lost or the answer cannot be decoded.
Fail(c) ==
    /\ pc[c] \in {"waiting", "fetching"}
    /\ IF pc[c] = "waiting" /\ Repeats(c)
       THEN attempts' = [attempts EXCEPT ![c] = 2] /\ UNCHANGED <<pc, outcome>>
       ELSE Finish(c, "unknown") /\ UNCHANGED attempts
    /\ UNCHANGED <<request, after, verdict, pinned, got, registry>>

\* Faulty variant: the digest is not compared.
MatchesAnything(c, d) == TRUE

Matches(c, d) == d = pinned[c]

\* The artifact comes from wherever download_url points, which may serve any.
FetchArtifact(c) ==
    /\ pc[c] = "fetching"
    /\ \E d \in Digests :
        IF Matches(c, d)
        THEN Finish(c, "ok") /\ got' = [got EXCEPT ![c] = d]
        ELSE Finish(c, "invalid") /\ UNCHANGED got
    /\ UNCHANGED <<calls, verdict, pinned, registry>>

-----------------------------------------------------------------------------
(* The registry acts on a request that reached it, in any order and at any    *)
(* time; one that never reaches it is never acted on.                         *)

Sent(c, i) == i <= attempts[c] /\ verdict[c][i] = None

Authorised(c) == request[c].token

\* A version is released once and for all.
Release(c, i) ==
    /\ Op(c) = "publish" /\ Sent(c, i)
    /\ IF Authorised(c) /\ released[Route(c)] = None
       THEN /\ verdict' = [verdict EXCEPT ![c][i] = "ok"]
            /\ released' = [released EXCEPT ![Route(c)] = c]
       ELSE /\ verdict' = [verdict EXCEPT ![c][i] = "refused"]
            /\ UNCHANGED released
    /\ UNCHANGED <<calls, pc, pinned, got, outcome, yanked, owner>>

SetYanked(c, i) ==
    /\ Op(c) \in {"yank", "restore"} /\ Sent(c, i)
    /\ IF Authorised(c) /\ released[Route(c)] # None
       THEN /\ verdict' = [verdict EXCEPT ![c][i] = "ok"]
            /\ yanked' = IF Op(c) = "yank" THEN yanked \union {Route(c)}
                         ELSE yanked \ {Route(c)}
       ELSE /\ verdict' = [verdict EXCEPT ![c][i] = "refused"]
            /\ UNCHANGED yanked
    /\ UNCHANGED <<calls, pc, pinned, got, outcome, released, owner>>

\* The name is read from the member "slug" of the body.
Grant(c, i) ==
    /\ Op(c) = "claim" /\ Sent(c, i)
    /\ IF Authorised(c) /\ p(c).field = "slug" /\ owner[request[c].slug] = None
       THEN /\ verdict' = [verdict EXCEPT ![c][i] = "ok"]
            /\ owner' = [owner EXCEPT ![request[c].slug] = c]
       ELSE /\ verdict' = [verdict EXCEPT ![c][i] = "refused"]
            /\ UNCHANGED owner
    /\ UNCHANGED <<calls, pc, pinned, got, outcome, released, yanked>>

Lookup(c, i) ==
    /\ Op(c) = "download" /\ Sent(c, i)
    /\ IF released[Route(c)] # None
       THEN /\ verdict' = [verdict EXCEPT ![c][i] = "ok"]
            /\ pinned' = [pinned EXCEPT ![c] = released[Route(c)]]
       ELSE /\ verdict' = [verdict EXCEPT ![c][i] = "refused"]
            /\ UNCHANGED pinned
    /\ UNCHANGED <<calls, pc, got, outcome, registry>>

Registry(c) ==
    \E i \in 1..2 : Release(c, i) \/ SetYanked(c, i) \/ Grant(c, i) \/ Lookup(c, i)

Client(c) ==
    \/ \E r \in Requests : Call(c, r)
    \/ Answer(c) \/ Fail(c) \/ FetchArtifact(c)

Next == \E c \in Calls : Client(c) \/ Registry(c)

Spec == Init /\ [][Next]_vars

-----------------------------------------------------------------------------
(* Properties. *)

IsWrite(c) == Op(c) \in Writes
Effect(c)  == IF verdict[c][1] = "ok" \/ verdict[c][2] = "ok" THEN "ok"
              ELSE IF IsWrite(c) THEN verdict[c][1] ELSE None

\* A write takes effect at most once, and a caller who hears of success or of a
\* refusal hears the truth: the operations implement WriteOnce.
OnceOnly ==
    INSTANCE WriteOnce
    WITH effect <- [c \in Calls |-> IF IsWrite(c) THEN Effect(c) ELSE None],
         heard <- [c \in Calls |-> IF IsWrite(c) THEN outcome[c] ELSE None]

WritesOnce == OnceOnly!WriteSpec

\* A write that was refused had no effect, whenever the registry acts on it.
RefusedHadNoEffect ==
    \A c \in Calls : outcome[c] \in {"refused", "local"} =>
        /\ \A v \in Versions : released[v] # c
        /\ \A s \in Slugs : owner[s] # c

\* A version holds the artifact whose metadata names that version, when its
\* publisher derives or compares the coordinate.
ReleasedAsDescribed ==
    \A v \in Versions : released[v] # None =>
        LET r == request[released[v]]
        IN r.route = v /\ (ProfileOf[r.sdk].route # "given" => r.meta = v)

\* A publish that succeeded for its caller is what everybody downloads, though
\* the store may serve other bytes.
DownloadsAreGenuine ==
    \A c, d \in Calls :
        /\ Op(c) = "publish" /\ outcome[c] = "ok"
        /\ Op(d) = "download" /\ outcome[d] = "ok" /\ Route(d) = Route(c)
        => got[d] = c

Sets(c, v) == Op(c) \in {"yank", "restore"} /\ Route(c) = v

\* The last word of callers who wait for each other stands: if every other yank
\* or restore of the version was answered before this one began, the version is
\* as this one left it, and no late request undoes it.
LastWordStands ==
    \A c \in Calls, v \in Versions :
        /\ Sets(c, v) /\ outcome[c] = "ok"
        /\ \A d \in Calls \ {c} : Sets(d, v) =>
                d \in after[c] /\ outcome[d] \in {"ok", "refused", "local"}
        => (v \in yanked <=> Op(c) = "yank")
=============================================================================
