--------------------------- MODULE MCClientPolicy ---------------------------
(***************************************************************************)
(* Instances of ClientPolicy for TLC: a client, one host of each sort, and  *)
(* names, bases and locations of every shape the code tells apart.         *)
(***************************************************************************)
EXTENDS ClientPolicy, TLC

Plain(scheme, host, path) == Url(scheme, host, path, FALSE, FALSE)

MCUrls == {
    Plain("https", "registry", <<>>), Plain("http", "registry", <<>>),
    Plain("http", "cluster", <<<<>>, <<"zed">>, <<>>>>), Plain("http", "localhost", <<>>),
    Plain("https", "registry", <<<<"a", "%", "20">>, <<>>, <<"%", "25", "2E">>>>),
    Plain("https", "registry", <<<<"a", "%", "2F", "b">>>>),
    Plain("https", "registry", <<<<"zed">>, <<"%", "2E", "%", "2E">>>>),
    Plain("https", "registry", <<<<"%", "a">>>>),
    Plain("ftp", "registry", <<>>), Plain("https", "", <<>>),
    Url("https", "registry", <<>>, TRUE, FALSE), Url("https", "registry", <<>>, FALSE, TRUE) }

\* Names that are a word, have a separator or an escape of one in them, are a dot
\* segment or nearly one, or are blank.
MCTexts == {<<"a">>, <<"a", "/", "b">>, <<"%", "2F">>, <<".", ".", "/">>, <<".", ".">>, <<".", ".", ".">>,
            <<" ">>, <<"a", " ", "\\">>, <<"a", "control">>}

MCCoordinates == {<<t, <<"b">>, <<"1">>>> : t \in MCTexts} \union {<<<<"a">>, <<"b">>, t>> : t \in MCTexts}

Absolute(scheme, host) == Location("absolute", scheme, host, FALSE, FALSE)

MCLocations == {
    Location("empty", "", "", FALSE, FALSE),
    Absolute("https", "mirror"), Absolute("http", "mirror"), Absolute("http", "cluster"),
    Absolute("http", "localhost"), Absolute("ftp", "mirror"), Absolute("https", ""),
    Location("absolute", "https", "mirror", TRUE, FALSE),
    Location("absolute", "https", "mirror", FALSE, TRUE),
    Location("network", "", "mirror", FALSE, FALSE), Location("network", "", "mirror", TRUE, FALSE),
    Location("rooted", "", "", FALSE, FALSE), Location("relative", "", "", FALSE, FALSE), Location("relative", "", "", FALSE, TRUE) }

MCDigests == {<<"sha">>, <<"sha", "/">>}

Symmetry == Permutations(Tokens)
=============================================================================
