---------------------------- MODULE UploadProofs ----------------------------
(***************************************************************************)
(* What an SDK publishes of a file that others may edit, for every limit,  *)
(* every size and any number of edits.                                     *)
(***************************************************************************)
EXTENDS ArtifactUpload, TLAPS

\* How much was read, by where the call is and how it reads.
Taken ==
    /\ checked <= edits
    /\ pc \in {"start", "checked"} => taken = 0
    /\ pc = "reading" => opened # None
    /\ p.reading = "capped" => taken <= Limit + 1
    /\ p.reading = "memory" => pc \in {"start", "sent", "refused"} /\ taken <= Limit

\* As long as nobody edits the file, what was checked is what is read.
Undisturbed ==
    edits = checked =>
        /\ pc \in {"checked", "reading", "sent"} => ~ TooLarge(size)
        /\ pc = "reading" => opened = size /\ taken <= size

Inv == TypeOK /\ Taken /\ Undisturbed /\ UndisturbedIsWhole

\* What every profile has in common: who is handed the bytes or reads up to a cap has
\* checked the size, who reads to the end of the file has not.
Sane(q) ==
    /\ q.sized \in BOOLEAN
    /\ q.reading \in {"memory", "whole", "capped", "streamed"}
    /\ q.reading \in {"memory", "capped"} => q.sized
    /\ q.reading = "whole" => ~ q.sized

LEMMA Profiles ==
    ASSUME NEW s \in DOMAIN ProfileOf
    PROVE  Sane(ProfileOf[s])
<1>1. ProfileOf[s] \in {Python, Go, Rust, Ruby, Php, Kotlin, Elixir}
  BY DEF ProfileOf
<1>2. Sane(Python) /\ Sane(Go) /\ Sane(Rust)
  BY DEF Sane, Profile, Python, Go, Rust
<1>3. Sane(Ruby) /\ Sane(Php) /\ Sane(Kotlin) /\ Sane(Elixir)
  BY DEF Sane, Profile, Ruby, Php, Kotlin, Elixir
<1> QED  BY <1>1, <1>2, <1>3

LEMMA ProfileCases == ASSUME TypeOK PROVE Sane(p)
BY SdksInUploadAssumption, Profiles DEF TypeOK, p

LEMMA InitInv == Init => Inv
<1> SUFFICES ASSUME Init PROVE Inv
  OBVIOUS
<1>1. TypeOK
  BY UploadAssumption DEF Init, TypeOK
<1> QED  BY <1>1, UploadAssumption DEF Init, Inv, TypeOK, Taken, Undisturbed, UndisturbedIsWhole

LEMMA EndTyped ==
    ASSUME TypeOK, pc = "reading" => opened # None, pc = "reading"
    PROVE  /\ End \in Nat /\ End <= MaxSize /\ End <= size
           /\ p.reading = "capped" => End <= Limit + 1
BY UploadAssumption, ProfileCases DEF Sane, End, TypeOK

LEMMA NextInv == Inv /\ [Next]_vars => Inv'
<1> SUFFICES ASSUME Inv, [Next]_vars PROVE Inv'
  OBVIOUS
<1>1. /\ TypeOK /\ Taken /\ Undisturbed /\ UndisturbedIsWhole
      /\ size \in Nat /\ taken \in Nat /\ edits \in Nat /\ checked \in Nat
  BY UploadAssumption DEF Inv, TypeOK
<1>2. CASE Edit
  <2>1. p' = p /\ edits' = edits + 1 /\ checked' = checked /\ checked <= edits
    BY <1>1, <1>2 DEF Edit, p, Taken
  <2>2. TypeOK'
    BY <1>1, <1>2, UploadAssumption DEF Edit, TypeOK
  <2>3. Taken'
    BY <1>1, <1>2, <2>1 DEF Edit, Taken
  <2>4. edits' # checked'
    BY <1>1, <2>1
  <2> QED  BY <2>2, <2>3, <2>4 DEF Inv, Undisturbed, UndisturbedIsWhole
<1>3. CASE Check
  <2>1. /\ p' = p /\ checked' = edits /\ edits' = edits /\ size' = size /\ taken = 0
        /\ pc = "start" /\ UNCHANGED <<sdk, meta, opened>>
    BY <1>1, <1>3 DEF Check, p, Taken
  <2>2. \/ TooLarge(size) /\ pc' = "refused" /\ taken' = 0
        \/ ~ TooLarge(size) /\ p.reading = "memory" /\ pc' = "sent" /\ taken' = size
        \/ ~ TooLarge(size) /\ p.reading # "memory" /\ pc' = "checked" /\ taken' = 0
    BY <1>3, <2>1 DEF Check
  <2>3. TypeOK'
    BY <1>1, <2>1, <2>2 DEF TypeOK
  <2>4. Taken'
    BY <1>1, <2>1, <2>2, ProfileCases, UploadAssumption DEF Sane, Taken, TooLarge
  <2>5. Undisturbed' /\ UndisturbedIsWhole'
    BY <1>1, <2>1, <2>2, ProfileCases DEF Sane, Undisturbed, UndisturbedIsWhole, TooLarge
  <2> QED  BY <2>3, <2>4, <2>5 DEF Inv
<1>4. CASE Open
  <2>1. p' = p /\ p.reading # "memory" /\ taken = 0
    BY <1>1, <1>4 DEF Open, p, Taken
  <2>2. TypeOK'
    BY <1>1, <1>4 DEF Open, TypeOK
  <2>3. Taken'
    BY <1>1, <1>4, <2>1, UploadAssumption DEF Open, Taken, TypeOK
  <2>4. Undisturbed' /\ UndisturbedIsWhole'
    BY <1>1, <1>4, <2>1 DEF Open, Undisturbed, UndisturbedIsWhole, TooLarge
  <2> QED  BY <2>2, <2>3, <2>4 DEF Inv
<1>5. CASE Read
  <2>1. /\ p' = p /\ p.reading # "memory" /\ pc = "reading" /\ taken' \in (taken + 1)..End
        /\ UNCHANGED <<sdk, meta, pc, size, edits, opened, checked>>
    BY <1>1, <1>5 DEF Read, p, Taken
  <2>2. /\ End \in Nat /\ End <= MaxSize /\ End <= size
        /\ p.reading = "capped" => End <= Limit + 1
    BY <1>1, <2>1, EndTyped DEF Taken
  <2>3. taken' \in Nat /\ taken' <= End
    BY <1>1, <2>1, <2>2
  <2>4. TypeOK'
    BY <1>1, <2>1, <2>2, <2>3, UploadAssumption DEF TypeOK
  <2>5. Taken'
    BY <1>1, <2>1, <2>2, <2>3, UploadAssumption DEF Taken
  <2>6. Undisturbed' /\ UndisturbedIsWhole'
    BY <1>1, <2>1, <2>2, <2>3 DEF Undisturbed, UndisturbedIsWhole, TooLarge
  <2> QED  BY <2>4, <2>5, <2>6 DEF Inv
<1>6. CASE Finish
  <2>1. /\ p' = p /\ p.reading # "memory" /\ pc = "reading" /\ taken >= End
        /\ UNCHANGED <<sdk, meta, size, edits, opened, taken, checked>>
    BY <1>1, <1>6 DEF Finish, p, Taken
  <2>2. \/ p.reading = "streamed" /\ taken < opened /\ pc' = "broken"
        \/ ~ (p.reading = "streamed" /\ taken < opened) /\ BodyTooLarge /\ pc' = "refused"
        \/ ~ (p.reading = "streamed" /\ taken < opened) /\ ~ BodyTooLarge /\ pc' = "sent"
    <3>1. CASE p.reading = "streamed" /\ taken < opened
      <4>1. ~ BodyTooLarge
        BY <3>1 DEF BodyTooLarge
      <4> QED  BY <1>6, <3>1, <4>1 DEF Finish
    <3>2. CASE ~ (p.reading = "streamed" /\ taken < opened)
      BY <1>6, <3>2 DEF Finish
    <3> QED  BY <3>1, <3>2
  <2>3. TypeOK'
    BY <1>1, <2>1, <2>2 DEF TypeOK
  <2>4. Taken'
    BY <1>1, <2>1, <2>2 DEF Taken
  <2>5. ASSUME edits = checked
        PROVE  opened = size /\ taken = size /\ ~ TooLarge(size)
    <3>1. opened = size /\ taken <= size /\ ~ TooLarge(size)
      BY <1>1, <2>1, <2>5 DEF Undisturbed
    <3>2. End = size
      BY <1>1, <3>1, UploadAssumption, ProfileCases DEF Sane, End, TooLarge
    <3> QED  BY <1>1, <2>1, <3>1, <3>2
  <2>6. Undisturbed'
    BY <1>1, <2>1, <2>2, <2>5 DEF Undisturbed, TooLarge
  <2>7. UndisturbedIsWhole'
    BY <1>1, <2>1, <2>2, <2>5 DEF UndisturbedIsWhole, BodyTooLarge, TooLarge
  <2> QED  BY <2>3, <2>4, <2>6, <2>7 DEF Inv
<1>7. CASE UNCHANGED vars
  BY <1>1, <1>7 DEF vars, Inv, TypeOK, Taken, Undisturbed, UndisturbedIsWhole, p, TooLarge,
                    BodyTooLarge
<1> QED  BY <1>2, <1>3, <1>4, <1>5, <1>6, <1>7 DEF Next

LEMMA AlwaysInv == Spec => []Inv
BY InitInv, NextInv, PTL DEF Spec
-----------------------------------------------------------------------------
(* The theorems. *)

\* Every reachable state of an upload is well typed.
THEOREM UploadTypeCorrect == Spec => []TypeOK
BY AlwaysInv, PTL DEF Inv

\* Without an edit after the check, the file is published whole or refused for its
\* size, for every limit and every size.
THEOREM UndisturbedIsAlwaysWhole == Spec => []UndisturbedIsWhole
BY AlwaysInv, PTL DEF Inv

\* However often the file is edited, an SDK that checks the size and does not stream
\* sends at most one byte above the limit.
THEOREM OverrunIsAlwaysBounded == Spec => []OverrunBounded
<1>1. Inv => OverrunBounded
  BY ProfileCases, UploadAssumption DEF Sane, Inv, TypeOK, Taken, OverrunBounded
<1> QED  BY <1>1, AlwaysInv, PTL
=============================================================================
