---------------------------- MODULE ClientPolicy ----------------------------
(***************************************************************************)
(* Where the Python, Erlang and Gleam SDKs send what: clients with a       *)
(* registry and perhaps a token, the calls an application makes on them,   *)
(* and answers that are trusted with nothing.  A registry may name any     *)
(* place to download a version from, or redirect; the version that one     *)
(* client was told of may be downloaded with another.  Python checks a     *)
(* client once, at construction.  Erlang's is a map that applications may  *)
(* change, so each call checks it again, and an error of its token is kept *)
(* in it, as Gleam keeps an error of its configuration, for later calls.   *)
(***************************************************************************)
EXTENDS UrlText, FiniteSetsExt

CONSTANTS
    None,        \* not there
    Clients,     \* the clients of one application
    Urls,        \* the registry URLs given to them
    Tokens,      \* bearer tokens
    Unsafe,      \* a token with control characters, or too long
    Internal,    \* hosts that _internal_host_allowed accepts
    Loopback,    \* hosts that _is_loopback_host accepts
    Coordinates, \* what callers name: <<org, name, version>>
    Locations,   \* what answers name as download_url, or redirect to
    Digests      \* the sha256 of a version

Schemes == {"http", "https"}

\* urlsplit, of a registry URL: path is a sequence of encoded segments; credentials
\* or a query or fragment are there or not.
Url(scheme, host, path, credentials, extra) ==
    [scheme |-> scheme, host |-> host, path |-> path,
     credentials |-> credentials, extra |-> extra]

\* A download_url: empty, absolute, or one of three forms of a relative reference:
\* "network" has a host, "rooted" and "relative" only a path.
Location(form, scheme, host, credentials, fragment) ==
    [form |-> form, scheme |-> scheme, host |-> host,
     credentials |-> credentials, fragment |-> fragment]

ASSUME PolicyAssumption ==
    /\ Loopback \subseteq Internal
    /\ None \notin Clients /\ None \notin Tokens /\ None \notin Digests
    /\ Unsafe \notin Tokens \union {None}

\* A text is a sequence of characters, each written as a string.
Text == Seq(STRING)

ASSUME TextAssumption ==
    /\ \A url \in Urls : url.path \in Seq(Text)
    /\ Coordinates \subseteq Text \X Text \X Text
    /\ Digests \subseteq Text

VARIABLES
    client,   \* client -> its settings, or None before it is constructed
    given,    \* history: client -> the registry and token last given for it
    version,  \* the VersionMetadata the application holds, or None
    call      \* the call under way, or None

vars == <<client, given, version, call>>
-----------------------------------------------------------------------------
(* A client is constructed.                                                 *)

\* Erlang and Gleam take no "%" that begins no escape.
Decodes(sdk, encoded) ==
    sdk = "python" \/ \A i \in DOMAIN encoded :
        encoded[i] = "%" => i < Len(encoded) /\ encoded[i + 1] \in Range(Code)

\* A segment that is not empty names something, whichever way it is decoded.
SegmentAllowed(encoded) ==
    encoded # <<>> =>
        /\ Acceptable(Unquote(encoded))
        /\ Range(Unquote(encoded)) \intersect {"/", "\\"} = {}

\* rstrip("/").
WithoutTrailing(path) == SubSeq(path, 1, Max({0} \union {i \in DOMAIN path : path[i] # <<>>}))

\* Faulty variant: any scheme will do.
AcceptedOfAnyScheme(sdk, url) ==
    /\ url.host # "" /\ ~ url.credentials /\ ~ url.extra
    /\ \A i \in DOMAIN url.path : Decodes(sdk, url.path[i]) /\ SegmentAllowed(url.path[i])

\* _normalize_registry_url, validate_base and normalize_base accept it.
Accepted(sdk, url) ==
    /\ url.scheme \in Schemes /\ url.host # "" /\ ~ url.credentials /\ ~ url.extra
    /\ \A i \in DOMAIN url.path : Decodes(sdk, url.path[i]) /\ SegmentAllowed(url.path[i])

\* credential_transport_ok, of a URL that parses.
CleartextAllowed(url, token) == token # None /\ url.scheme = "http" => url.host \in Internal

\* How the text of the registry is spelt in a client: constructors trim it to a binary,
\* an application may put white space around it, or no binary but a string, which is a list.
Spellings == {"trimmed", "padded", "list"}

Settings(sdk, url, token, refused, insecure) ==
    [sdk |-> sdk, scheme |-> url.scheme, host |-> url.host, path |-> WithoutTrailing(url.path),
     spelling |-> "trimmed", credentials |-> url.credentials, extra |-> url.extra,
     token |-> token, refused |-> refused, insecure |-> insecure]

Given(url, token, insecure) ==
    [scheme |-> url.scheme, host |-> url.host, token |-> token, insecure |-> insecure]

Become(c, settings, told) ==
    /\ client' = [client EXCEPT ![c] = settings]
    /\ given' = [given EXCEPT ![c] = told]
    /\ UNCHANGED <<version, call>>

\* A blank token is none.  A client that is refused does not come to be.
Construct(c) ==
    /\ client[c] = None
    /\ \E url \in Urls, token \in Tokens \union {None}, insecure \in BOOLEAN :
        /\ Accepted("python", url) /\ (CleartextAllowed(url, token) \/ insecure)
        /\ Become(c, Settings("python", url, token, FALSE, insecure), Given(url, token, insecure))

\* new of Erlang.  The token comes later.
NewErlang(c) ==
    /\ client[c] = None
    /\ \E url \in Urls :
        /\ Accepted("erlang", url)
        /\ Become(c, Settings("erlang", url, None, FALSE, FALSE), Given(url, None, FALSE))

DefaultRegistry == Url("https", "registry.zpkg.tech", <<>>, FALSE, FALSE)

\* new of Gleam.  A client that is refused is one of the default registry, and the
\* error is kept in it.
NewGleam(c) ==
    /\ client[c] = None
    /\ \E url \in Urls :
        LET refused == ~ Accepted("gleam", url)
        IN  Become(c, Settings("gleam", IF refused THEN DefaultRegistry ELSE url,
                               None, refused, FALSE),
                   Given(url, None, FALSE))

\* Clients are values: a call under way keeps the one it was given.
Settled(c, sdk) == client[c] # None /\ client[c].sdk = sdk /\ call = None

\* Faulty variant: a token that is refused leaves the client as it was.
ErlangWithTokenIgnored(c) ==
    /\ Settled(c, "erlang")
    /\ \E token \in Tokens \union {None, Unsafe} :
        Become(c, IF token = Unsafe THEN client[c]
                  ELSE [client[c] EXCEPT !.token = token, !.refused = FALSE],
               [given[c] EXCEPT !.token = token])

\* with_token of Erlang: the error takes the place of the token, and the reverse.
ErlangWithToken(c) ==
    /\ Settled(c, "erlang")
    /\ \E token \in Tokens \union {None, Unsafe} :
        Become(c, [client[c] EXCEPT !.token = IF token = Unsafe THEN None ELSE token,
                                    !.refused = token = Unsafe],
               [given[c] EXCEPT !.token = token])

\* "Client maps remain transparent for compatibility, so callers can mutate them
\* after construction."
ErlangMutated(c) ==
    /\ Settled(c, "erlang")
    /\ \/ \E url \in Urls, spelling \in Spellings :
            LET new == Settings("erlang", url, client[c].token, client[c].refused, FALSE)
            IN  Become(c, [new EXCEPT !.spelling = spelling], Given(url, given[c].token, FALSE))
       \/ \E token \in Tokens \union {None, Unsafe}, refused \in {client[c].refused, FALSE} :
            Become(c, [client[c] EXCEPT !.token = token, !.refused = refused],
                   [given[c] EXCEPT !.token = token])

\* with_token of Gleam keeps the error of the configuration.
GleamWithToken(c) ==
    /\ Settled(c, "gleam")
    /\ \E token \in Tokens \union {None} :
        Become(c, [client[c] EXCEPT !.token = token], [given[c] EXCEPT !.token = token])

\* with_timeout of Gleam, with a timeout that is not positive.
GleamWithTimeout(c) ==
    /\ Settled(c, "gleam")
    /\ Become(c, [client[c] EXCEPT !.refused = TRUE], given[c])
-----------------------------------------------------------------------------
(* A call sends one request, or none if something it is given is refused.   *)

Word(w) == <<w>>

PackagePath(at)  == <<Word("v1"), Word("packages"), at[1], at[2]>>
VersionPath(at)  == PackagePath(at) \o <<Word("versions"), at[3]>>
YankPath(at)     == VersionPath(at) \o <<Word("yank")>>
ArtifactPath(sha) == <<Word("v1"), Word("artifacts"), sha>>
OrgsPath         == <<Word("v1"), Word("orgs")>>
SearchPath       == <<Word("v1"), Word("search")>>

\* A request below the registry's base.  named is the route, one text a segment.
ToRegistry(c, op, named, token) ==
    [client |-> c, op |-> op, named |-> named, scheme |-> client[c].scheme,
     host |-> client[c].host,
     path |-> client[c].path \o [i \in DOMAIN named |-> Quote(named[i])],
     token |-> token]

Send(request) == call' = request /\ UNCHANGED <<client, given, version>>

AllAcceptable(texts) == \A i \in DOMAIN texts : Acceptable(texts[i])

\* What every call of a client checks first; Erlang's client_base trims the text before.
Usable(c) ==
    CASE client[c].sdk = "python" -> TRUE
      [] client[c].sdk = "erlang" -> Accepted("erlang", client[c])
      [] client[c].sdk = "gleam"  -> /\ ~ client[c].refused
                                     /\ CleartextAllowed(client[c], client[c].token)

Ready(c) == client[c] # None /\ call = None /\ Usable(c)

\* credential_transport_ok of Erlang parses the text that the map holds, as it is spelt:
\* what does not parse is let through, and what is no binary cannot be converted.
SpellingAllowed(c) ==
    \/ client[c].spelling = "trimmed" /\ CleartextAllowed(client[c], client[c].token)
    \/ client[c].spelling = "padded"

\* The token to send: for Erlang the error kept is the answer, and the live token is
\* normalized and the live registry checked.
Authorized(c) ==
    /\ client[c].token # None
    /\ client[c].sdk = "erlang" =>
        ~ client[c].refused /\ client[c].token \in Tokens /\ SpellingAllowed(c)

\* get_package, get_version and search.  What is searched for is no segment.
Read(c) ==
    /\ Ready(c)
    /\ \/ Send(ToRegistry(c, "search", SearchPath, None))
       \/ \E at \in Coordinates :
            \/ /\ AllAcceptable(<<at[1], at[2]>>)
               /\ Send(ToRegistry(c, "get_package", PackagePath(at), None))
            \/ /\ AllAcceptable(at)
               /\ Send(ToRegistry(c, "get_version", VersionPath(at), None))

\* claim_org, set_yanked and publish need the token, which goes with the request.
Write(c) ==
    /\ Ready(c) /\ Authorized(c)
    /\ \E at \in Coordinates :
        \/ /\ Acceptable(at[1])
           /\ Send(ToRegistry(c, "claim_org", OrgsPath, client[c].token))
        \/ /\ AllAcceptable(at)
           /\ \/ Send(ToRegistry(c, "set_yanked", YankPath(at), client[c].token))
              \/ Send(ToRegistry(c, "publish", VersionPath(at), client[c].token))

\* What Erlang and Gleam resolve: no authority without a scheme, no rooted path.
Resolvable(sdk, l) == sdk = "python" \/ l.form \in {"absolute", "relative"}

\* urljoin: what is missing is the registry's.
Joined(base, l) ==
    IF l.form = "absolute" THEN l
    ELSE IF l.form = "network" THEN [l EXCEPT !.scheme = base.scheme]
    ELSE [l EXCEPT !.scheme = base.scheme, !.host = base.host, !.credentials = FALSE]

\* Faulty variant: the hosts that a token may be sent to are good enough.
AllowedDownloadInternal(base, l) ==
    /\ ~ l.credentials /\ ~ l.fragment
    /\ l.scheme \in Schemes /\ l.host # ""
    /\ l.scheme = "http" => l.host \in Internal \/ base.scheme = "http"

\* _allowed_download_url.
AllowedDownload(base, l) ==
    /\ ~ l.credentials /\ ~ l.fragment
    /\ l.scheme \in Schemes /\ l.host # ""
    /\ l.scheme = "http" => l.host \in Loopback \/ base.scheme = "http"

\* download_artifact: from the place the version names, or by its digest.
Download(c) ==
    /\ Ready(c) /\ version # None
    /\ IF version.location.form = "empty"
       THEN /\ Acceptable(version.sha)
            /\ Send(ToRegistry(c, "download", ArtifactPath(version.sha), None))
       ELSE LET l == Joined(client[c], version.location)
            IN  /\ Resolvable(client[c].sdk, version.location)
                /\ AllowedDownload(client[c], l)
                /\ Send([client |-> c, op |-> "fetch", named |-> <<>>, scheme |-> l.scheme,
                         host |-> l.host, path |-> <<>>, token |-> None])

\* An answer, an error or no answer ends the call.
Answered ==
    /\ call # None /\ call' = None
    /\ \/ /\ call.op = "get_version"
          /\ \E l \in Locations, sha \in Digests : version' = [location |-> l, sha |-> sha]
       \/ UNCHANGED version
    /\ UNCHANGED <<client, given>>

\* Faulty variant: the handler that urllib has by default sends the headers along.
RedirectedFollows(to) ==
    /\ call # None /\ to.form = "absolute"
    /\ call' = [call EXCEPT !.scheme = to.scheme, !.host = to.host]
    /\ UNCHANGED <<client, given, version>>

\* _NoRedirectHandler makes an error of it, and httpc is told not to follow.
Redirected(to) == call # None /\ call' = None /\ UNCHANGED <<client, given, version>>

Init ==
    /\ client = [c \in Clients |-> None] /\ given = [c \in Clients |-> None]
    /\ version = None /\ call = None

Next ==
    \/ \E c \in Clients :
        \/ Construct(c) \/ NewErlang(c) \/ NewGleam(c)
        \/ ErlangWithToken(c) \/ ErlangMutated(c)
        \/ GleamWithToken(c) \/ GleamWithTimeout(c)
        \/ Read(c) \/ Write(c) \/ Download(c)
    \/ Answered
    \/ \E to \in Locations : Redirected(to)

Spec == Init /\ [][Next]_vars
-----------------------------------------------------------------------------
Ops == {"search", "get_package", "get_version", "claim_org", "set_yanked", "publish",
        "download", "fetch"}

TypeOK ==
    /\ \A c \in Clients : client[c] # None =>
        /\ client[c].sdk \in {"python", "erlang", "gleam"}
        /\ client[c].sdk # "erlang" =>
            client[c].scheme \in Schemes /\ client[c].token \in Tokens \union {None}
        /\ client[c].spelling \in Spellings
        /\ client[c].refused \in BOOLEAN /\ client[c].insecure \in BOOLEAN
        /\ given[c].token \in Tokens \union {None, Unsafe}
    /\ version # None => version.location \in Locations /\ version.sha \in Digests
    /\ call # None =>
        /\ call.client \in Clients /\ call.op \in Ops
        /\ call.scheme \in Schemes /\ call.token \in Tokens \union {None}

(* A token goes only where it was given for: to the host of the registry that *)
(* the application named, with its scheme, and in cleartext only to an        *)
(* internal host or with leave.  It is the token given last: one that was     *)
(* replaced, also by a token or a registry that was refused, is never sent    *)
(* again.  So whatever the answers, metadata of other registries and          *)
(* redirects say, and in whatever order clients are changed.  One case is     *)
(* excepted, because there the code does send it in cleartext: an Erlang map  *)
(* into which the application put a registry with white space around it.      *)
TokenStaysHome ==
    call # None /\ call.token # None =>
        LET home == given[call.client]
        IN  /\ call.token = home.token
            /\ call.scheme = home.scheme /\ call.host = home.host
            /\ call.scheme = "http" =>
                \/ call.host \in Internal \/ home.insecure
                \/ client[call.client].sdk = "erlang" /\ client[call.client].spelling = "padded"

(* A client of an https registry asks nothing in cleartext, except of this     *)
(* machine, and no client asks anything that is not HTTP.                      *)
NeverDowngraded ==
    call # None /\ client[call.client].scheme = "https" /\ call.scheme # "https" =>
        call.scheme = "http" /\ call.host \in Loopback

(* The route the registry reads, segment by segment, is the one the caller     *)
(* named, below the base it was given: nothing a caller names can add a        *)
(* segment, leave one out or walk up from the base.                            *)
RoutesAreNamed ==
    call # None /\ call.op # "fetch" =>
        LET Unquoted(path) == [i \in DOMAIN path |-> Unquote(path[i])]
            read == Unquoted(Tail(Split(Joint(call.path))))
        IN  /\ read = Unquoted(client[call.client].path) \o call.named
            /\ Range(read) \intersect DotSegments = {}
=============================================================================
