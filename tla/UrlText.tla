------------------------------ MODULE UrlText ------------------------------
(***************************************************************************)
(* Text in the routes of the Python SDK.  A text is a sequence of          *)
(* characters, an encoded text one in which an escape is "%" and the code  *)
(* of a character, two characters that are written here as one.  "long"    *)
(* stands for a run of more bytes than a segment may have, and a word of a *)
(* route, such as "packages", for its letters.                             *)
(***************************************************************************)
EXTENDS Integers, SequencesExt

Code == [c \in {"/", "\\", "%", ".", " ", "control", "long"} |->
            CASE c = "/" -> "2F" [] c = "\\" -> "5C" [] c = "%" -> "25" [] c = "." -> "2E"
              [] c = " " -> "20" [] c = "control" -> "0A" [] c = "long" -> "E2"]

Escaped == {"/", "\\", "%", " ", "control", "long"}

\* Faulty variant: the safe characters that urllib.parse.quote has by default.
QuoteKeepsSlash(text) ==
    LET Char(c) == IF c \in Escaped \ {"/"} THEN <<"%", Code[c]>> ELSE <<c>>
    IN  FlattenSeq([i \in DOMAIN text |-> Char(text[i])])

\* urllib.parse.quote with no safe character but the unreserved ones.
Quote(text) ==
    LET Char(c) == IF c \in Escaped THEN <<"%", Code[c]>> ELSE <<c>>
    IN  FlattenSeq([i \in DOMAIN text |-> Char(text[i])])

Coded(code) == CHOOSE c \in DOMAIN Code : Code[c] = code

\* urllib.parse.unquote: a "%" before no code stays.  rest[n] is what the last n
\* characters decode to.
Unquote(encoded) ==
    LET rest[n \in 0..Len(encoded)] ==
            LET i == Len(encoded) - n + 1
            IN  IF n = 0 THEN <<>>
                ELSE IF n > 1 /\ encoded[i] = "%" /\ encoded[i + 1] \in Range(Code)
                THEN <<Coded(encoded[i + 1])>> \o rest[n - 2]
                ELSE <<encoded[i]>> \o rest[n - 1]
    IN  rest[Len(encoded)]

DotSegments == {<<".">>, <<".", ".">>}

\* _require_text.
Acceptable(text) ==
    /\ ~ Range(text) \subseteq {" "}
    /\ text \notin DotSegments
    /\ Range(text) \intersect {"long", "control"} = {}

\* The path of a URL, and the segments that are read from it.
Joint(path) == FlattenSeq([i \in DOMAIN path |-> <<"/">> \o path[i]])

Split(text) ==
    LET More(segments, c) ==
            IF c = "/" THEN Append(segments, <<>>)
            ELSE [segments EXCEPT ![Len(segments)] = Append(@, c)]
        read[n \in 0..Len(text)] == IF n = 0 THEN <<<<>>>> ELSE More(read[n - 1], text[n])
    IN  read[Len(text)]
=============================================================================
