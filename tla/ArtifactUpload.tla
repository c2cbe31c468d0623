--------------------------- MODULE ArtifactUpload ----------------------------
(***************************************************************************)
(* How a publish gets the bytes of its artifact while somebody else may    *)
(* still be writing the file in place: the size is checked, the file is    *)
(* opened and read piece by piece, and what was read goes into the body of *)
(* the request.  Replacing the file by a rename is harmless, the open      *)
(* handle keeps the old one, and is no edit here.                          *)
(***************************************************************************)
EXTENDS Naturals

CONSTANTS
    Sdks,      \* the SDKs in use
    Limit,     \* bytes accepted of an artifact
    Slack,     \* Go: bytes granted to the rest of the multipart body
    MaxMeta,   \* bound: bytes that the rest of the body takes
    MaxSize,   \* bound: size of the file
    MaxEdits,  \* bound: edits of the file
    None       \* not opened

ASSUME UploadAssumption ==
    /\ Limit \in Nat /\ Slack \in Nat /\ MaxMeta \in Nat
    /\ MaxSize \in Nat /\ MaxEdits \in Nat
    /\ None \notin Nat

(* sized: the size is checked first.                                         *)
(* reading: "memory" is handed the bytes, "whole" reads to the end of the    *)
(*   file, "capped" to one byte above the limit, "streamed" as many bytes as *)
(*   the file had when it was opened, while the request is under way.        *)
Profile(sized, reading) == [sized |-> sized, reading |-> reading]

Python == Profile(TRUE, "memory")
Go     == Profile(TRUE, "capped")
Rust   == Profile(TRUE, "streamed")
Ruby   == Profile(FALSE, "whole")
Php    == Profile(FALSE, "streamed")
Kotlin == Profile(FALSE, "whole")
Elixir == Profile(FALSE, "whole")

ProfileOf ==
    [python |-> Python, go |-> Go, rust |-> Rust, ruby |-> Ruby, php |-> Php,
     kotlin |-> Kotlin, elixir |-> Elixir]

ASSUME SdksInUploadAssumption == Sdks \subseteq DOMAIN ProfileOf

VARIABLES
    sdk,      \* the SDK that publishes
    meta,     \* bytes of the body that are not the artifact
    pc,       \* "start", "checked", "reading", "sent", "refused" or "broken"
    size,     \* the current size of the file
    edits,    \* how often it was edited
    opened,   \* its size when it was opened
    taken,    \* bytes read of it
    checked   \* history: the edits before the check

vars == <<sdk, meta, pc, size, edits, opened, taken, checked>>

p == ProfileOf[sdk]

TypeOK ==
    /\ sdk \in Sdks /\ meta \in 0..MaxMeta
    /\ pc \in {"start", "checked", "reading", "sent", "refused", "broken"}
    /\ size \in 0..MaxSize /\ edits \in 0..MaxEdits
    /\ opened \in 0..MaxSize \union {None}
    /\ taken \in 0..MaxSize
    /\ checked \in 0..MaxEdits

Init ==
    /\ sdk \in Sdks /\ meta \in 0..MaxMeta /\ pc = "start"
    /\ size \in 0..MaxSize /\ edits = 0
    /\ opened = None /\ taken = 0 /\ checked = 0

\* Somebody writes to the file in place.
Edit ==
    /\ edits < MaxEdits
    /\ size' \in 0..MaxSize
    /\ edits' = edits + 1
    /\ UNCHANGED <<sdk, meta, pc, opened, taken, checked>>

\* Faulty variant: an artifact of exactly the limit is refused.
TooLargeAtLimit(n) == p.sized /\ n >= Limit

TooLarge(n) == p.sized /\ n > Limit

\* The size is found and compared.  Bytes in memory are copied into the body in
\* the same step.
Check ==
    /\ pc = "start"
    /\ checked' = edits
    /\ IF TooLarge(size) THEN pc' = "refused" /\ UNCHANGED taken
       ELSE IF p.reading = "memory" THEN pc' = "sent" /\ taken' = size
       ELSE pc' = "checked" /\ UNCHANGED taken
    /\ UNCHANGED <<sdk, meta, size, edits, opened>>

\* Faulty variant: the length is off by one.
OpenOffByOne ==
    /\ pc = "checked"
    /\ pc' = "reading" /\ opened' = size + 1
    /\ UNCHANGED <<sdk, meta, size, edits, taken, checked>>

Open ==
    /\ pc = "checked"
    /\ pc' = "reading" /\ opened' = size
    /\ UNCHANGED <<sdk, meta, size, edits, taken, checked>>

\* Faulty variant: there is no cap.
EndUncapped ==
    IF p.reading = "streamed" /\ size > opened THEN opened ELSE size

\* Where the reading ends.
End ==
    IF p.reading = "capped" /\ size > Limit + 1 THEN Limit + 1
    ELSE IF p.reading = "streamed" /\ size > opened THEN opened
    ELSE size

Read ==
    /\ pc = "reading" /\ taken < End
    /\ \E n \in (taken + 1)..End : taken' = n
    /\ UNCHANGED <<sdk, meta, pc, size, edits, opened, checked>>

BodyTooLarge == p.reading = "capped" /\ taken + meta > Limit + Slack

\* A stream that ends early breaks the request; Go measures the whole body.
Finish ==
    /\ pc = "reading" /\ taken >= End
    /\ pc' = CASE p.reading = "streamed" /\ taken < opened -> "broken"
               [] BodyTooLarge -> "refused"
               [] OTHER -> "sent"
    /\ UNCHANGED <<sdk, meta, size, edits, opened, taken, checked>>

Next == Edit \/ Check \/ Open \/ Read \/ Finish

Spec == Init /\ [][Next]_vars

-----------------------------------------------------------------------------
(* Properties. *)

\* If nobody edits the file after the check, the whole file is published, at the
\* exact boundary of the limit, and nothing else refuses it.
UndisturbedIsWhole ==
    edits = checked =>
        /\ pc = "sent" => taken = size /\ ~(p.sized /\ size > Limit)
        /\ pc = "refused" => (p.sized /\ size > Limit) \/ BodyTooLarge
        /\ pc # "broken"

\* Edits or not, at most one byte above the limit leaves an SDK that checks the
\* size and does not stream.
OverrunBounded ==
    pc = "sent" /\ p.sized /\ p.reading # "streamed" => taken <= Limit + 1
=============================================================================
