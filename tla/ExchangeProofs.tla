--------------------------- MODULE ExchangeProofs ---------------------------
(***************************************************************************)
(* What Exchange guarantees for every limit, every body and every SDK.     *)
(***************************************************************************)
EXTENDS Exchange, Integers, TLAPS

\* Where the bytes are, and what the reader knows when it has got so far.
ReaderInv ==
    /\ server = "silent" => status = None /\ sent = 0
    /\ status = None => pc \in {"sent", "done"} /\ sent = 0 /\ server \in {"silent", "dropped"}
    /\ pc \in {"sent", "reading", "deciding"} => held + wire = sent
    /\ pc = "sent" => held = 0 /\ conn = "open"
    /\ pc = "reading" => conn = "open" /\ (p.reading # "whole" => ~Overflows(held))
    /\ pc = "deciding" =>
        /\ status = "ok" /\ wire = 0 /\ conn = "closed" /\ ~Overflows(held)
        /\ server = "ended" \/ server = "dropped"
    /\ pc # "done" => outcome \in {None, "timeout"}
    /\ status = None => outcome \in {None, "timeout", "transport"}
    /\ outcome = "invalid" => server \in {"ended", "dropped"}
    /\ cancelled => pc = "done"
    /\ p.reading # "whole" => held <= Bound + 1

\* Why a call that has ended ended as it did.
OutcomeInv == NoFalseSuccess /\ NoFalseRefusal

IInv == TypeOK /\ ReaderInv /\ OutcomeInv

\* What every profile has in common: only whole bodies are sized first.
Sane(q) ==
    /\ q.reading \in {"chunks", "limited", "whole"}
    /\ q.sized \in BOOLEAN
    /\ q.sized => q.reading = "whole" /\ q.declared = {}

LEMMA Profiles ==
    ASSUME NEW s \in DOMAIN ProfileOf
    PROVE  Sane(ProfileOf[s])
<1>1. ProfileOf[s] \in {TypeScript, Python, Go, Rust, Java, Dart, Swift, Erlang, Gleam,
                        Wasm, Ruby, Php, Kotlin, Elixir}
  BY DEF ProfileOf
<1>2. Sane(TypeScript) /\ Sane(Python) /\ Sane(Go) /\ Sane(Rust) /\ Sane(Java)
  BY DEF Sane, Profile, TypeScript, Python, Go, Rust, Java
<1>3. Sane(Dart) /\ Sane(Swift) /\ Sane(Erlang) /\ Sane(Gleam) /\ Sane(Wasm)
  BY DEF Sane, Profile, Dart, Swift, Erlang, Gleam, Wasm
<1>4. Sane(Ruby) /\ Sane(Php) /\ Sane(Kotlin) /\ Sane(Elixir)
  BY DEF Sane, Profile, Ruby, Php, Kotlin, Elixir
<1> QED BY <1>1, <1>2, <1>3, <1>4

LEMMA ProfileFacts ==
    ASSUME TypeOK
    PROVE  /\ p.reading \in {"chunks", "limited", "whole"}
           /\ p.sized \in BOOLEAN
           /\ p.sized => p.reading = "whole" /\ p.declared = {}
BY Profiles, SdksAssumption DEF TypeOK, p, Sane

LEMMA BoundFacts ==
    /\ Bound \in Nat /\ Bound <= Limit /\ Limit \in Nat
    /\ MaxBody \in Nat /\ Window \in Nat
BY ExchangeAssumption DEF Bound

LEMMA InitInv == Init => IInv
<1> SUFFICES ASSUME Init PROVE IInv
  OBVIOUS
<1> USE ExchangeAssumption
<1>1. TypeOK
  <2>1. sound \in BOOLEAN /\ cancelled \in BOOLEAN
    BY DEF Init
  <2> QED BY <2>1 DEF Init, TypeOK
<1>2. ReaderInv
  BY BoundFacts DEF Init, ReaderInv
<1>3. OutcomeInv
  BY DEF Init, OutcomeInv, NoFalseSuccess, NoFalseRefusal
<1> QED BY <1>1, <1>2, <1>3 DEF IInv

LEMMA StepType ==
    ASSUME IInv, [Next]_vars
    PROVE  TypeOK'
<1> USE ExchangeAssumption DEF IInv
<1>1. CASE Respond
  BY <1>1 DEF Respond, TypeOK
<1>2. CASE Send
  BY <1>2 DEF Send, TypeOK
<1>3. CASE Stop
  BY <1>3 DEF Stop, reply, TypeOK
<1>4. CASE ReceiveHeaders
  BY <1>4 DEF ReceiveHeaders, Done, Finish, TooBig, reply, TypeOK, Outcomes
<1>5. CASE Read
  <2>1. PICK n \in 1..Room :
          /\ wire' = wire - n
          /\ held' \in {held + n, Bound}
    BY <1>5, ProfileFacts, BoundFacts DEF Read
  <2>2. Room <= wire /\ Room \in Int
    BY BoundFacts DEF Room, TypeOK
  <2>3. held + wire <= MaxBody /\ held \in Nat /\ wire \in Nat
    BY <1>5 DEF Read, ReaderInv, TypeOK
  <2>4. wire' \in 0..Window /\ held + n \in 0..MaxBody
    BY <2>1, <2>2, <2>3 DEF TypeOK
  <2>5. held' \in 0..MaxBody
    BY <1>5, <2>4, BoundFacts, ProfileFacts, <2>1, <2>3 DEF Read, Overflows
  <2>6. cancelled' \in BOOLEAN /\ sound' \in BOOLEAN
    BY <1>5 DEF Read, TypeOK
  <2>7. pc' \in {"reading", "done"} /\ conn' \in {"open", "closed"}
    BY <1>5 DEF Read, Done, TypeOK
  <2>8. outcome' \in Outcomes \union {None}
    BY <1>5 DEF Read, Done, Finish, TooBig, TypeOK, Outcomes
  <2> QED
    BY <1>5, <2>1, <2>4, <2>5, <2>6, <2>7, <2>8 DEF Read, reply, TypeOK
<1>6. CASE EndOfBody
  BY <1>6 DEF EndOfBody, Done, Finish, TooBig, reply, TypeOK, Outcomes
<1>7. CASE ConnectionLost \/ Stalled
  BY <1>7 DEF ConnectionLost, Stalled, Done, Finish, Reported, reply, TypeOK, Outcomes
<1>8. CASE Expire
  BY <1>8 DEF Expire, Done, Finish, Reported, reply, TypeOK, Outcomes
<1>9. CASE Decide
  BY <1>9 DEF Decide, Finish, reply, TypeOK, Outcomes
<1>10. CASE CancellationReported
  BY <1>10 DEF CancellationReported, Finish, reply, TypeOK, Outcomes
<1>11. CASE UNCHANGED vars
  BY <1>11 DEF vars, TypeOK
<1> QED
  BY <1>1, <1>2, <1>3, <1>4, <1>5, <1>6, <1>7, <1>8, <1>9, <1>10, <1>11 DEF Next, Client

\* The bounds of a read: it fits the room, and the room the window.
LEMMA ReadRoom ==
    ASSUME IInv, Read
    PROVE  \E n \in 1..Room :
             /\ n \in Nat /\ n <= wire /\ wire' = wire - n
             /\ p.reading # "whole" /\ Overflows(held + n) =>
                    /\ held' = IF p.reading = "chunks" THEN Bound ELSE held + n
                    /\ Done(TooBig)
                    /\ held' <= Bound + 1 /\ held' \in Nat
             /\ p.reading = "whole" \/ ~Overflows(held + n) =>
                    held' = held + n /\ UNCHANGED <<pc, conn, outcome, cancelled>>
PROOF
<1>1. PICK n \in 1..Room :
        /\ wire' = wire - n
        /\ IF p.reading # "whole" /\ Overflows(held + n)
           THEN held' = (IF p.reading = "chunks" THEN Bound ELSE held + n) /\ Done(TooBig)
           ELSE held' = held + n /\ UNCHANGED <<pc, conn, outcome, cancelled>>
  BY DEF Read
<1>2. held \in Nat /\ wire \in Nat /\ Bound \in Nat
  BY BoundFacts, ExchangeAssumption DEF IInv, TypeOK
<1>3. n \in Nat /\ n <= wire
  BY <1>2 DEF Room
<1>4. p.reading = "limited" => held + n <= Bound + 1
  BY <1>2 DEF Room
<1> QED BY <1>1, <1>2, <1>3, <1>4, ProfileFacts DEF IInv

LEMMA ReadInv ==
    ASSUME IInv, Read
    PROVE  ReaderInv'
<1> USE DEF IInv
<1>1. PICK n \in 1..Room :
        /\ n \in Nat /\ n <= wire /\ wire' = wire - n
        /\ p.reading # "whole" /\ Overflows(held + n) =>
               /\ held' = IF p.reading = "chunks" THEN Bound ELSE held + n
               /\ Done(TooBig)
               /\ held' <= Bound + 1 /\ held' \in Nat
        /\ p.reading = "whole" \/ ~Overflows(held + n) =>
               held' = held + n /\ UNCHANGED <<pc, conn, outcome, cancelled>>
  BY ReadRoom
<1>2. held \in Nat /\ wire \in Nat /\ Bound \in Nat /\ sent \in Nat
  BY BoundFacts, ExchangeAssumption DEF TypeOK
<1>3. /\ pc = "reading" /\ held + wire = sent /\ conn = "open" /\ status # None
      /\ UNCHANGED <<sdk, op, sound, server, status, declared, sent, p, Bound>>
  BY DEF Read, ReaderInv, reply, p, Bound
<1>4. CASE p.reading # "whole" /\ Overflows(held + n)
  <2>1. pc' = "done" /\ outcome' \in {outcome, TooBig} /\ held' <= Bound + 1
    BY <1>1, <1>4 DEF Done, Finish
  <2> QED BY <1>3, <2>1, ExchangeAssumption DEF ReaderInv, TooBig
<1>5. CASE p.reading = "whole" \/ ~Overflows(held + n)
  <2>1. held' = held + n /\ UNCHANGED <<pc, conn, outcome, cancelled>>
    BY <1>1, <1>5
  <2>2. held' + wire' = sent'
    BY <1>1, <1>2, <1>3, <2>1
  <2>3. p.reading # "whole" => held' <= Bound + 1 /\ ~Overflows(held')
    BY <1>2, <1>5, <2>1, ProfileFacts DEF Overflows
  <2>4. Overflows(held)' <=> Overflows(held')
    BY <1>3 DEF Overflows
  <2>5. cancelled' = cancelled /\ ~cancelled
    BY <1>3, <2>1 DEF ReaderInv
  <2> QED BY <1>3, <2>1, <2>2, <2>3, <2>4, <2>5 DEF ReaderInv
<1> QED BY <1>4, <1>5

LEMMA StepReader ==
    ASSUME IInv, [Next]_vars
    PROVE  ReaderInv'
<1> USE DEF IInv
<1>0. /\ held \in Nat /\ wire \in Nat /\ sent \in Nat /\ Bound \in Nat
      /\ None # "timeout" /\ None # "ok"
  BY BoundFacts, ExchangeAssumption DEF TypeOK
<1>1. CASE Respond
  <2>1. /\ status = None /\ sent = 0 /\ pc \in {"sent", "done"}
        /\ UNCHANGED <<sdk, op, pc, sent, wire, held, conn, outcome, p>>
    BY <1>1 DEF Respond, ReaderInv, p
  <2>2. Bound = ErrorLimit
    BY <2>1, ExchangeAssumption DEF Bound
  <2>3. held <= ErrorLimit + 1 => held <= Bound' + 1
    BY <1>0, ExchangeAssumption DEF Bound
  <2>4. p'.reading # "whole" => held' <= Bound' + 1
    BY <2>1, <2>2, <2>3 DEF ReaderInv
  <2> QED BY <1>0, <1>1, <2>1, <2>4, ExchangeAssumption DEF Respond, ReaderInv
<1>2. CASE Send
  <2>1. UNCHANGED <<p, Bound, Overflows(held)>>
    BY <1>2 DEF Send, p, Bound, Overflows
  <2> QED BY <1>0, <1>2, <2>1 DEF Send, ReaderInv
<1>3. CASE Stop
  <2>1. UNCHANGED <<p, Bound, Overflows(held)>>
    BY <1>3 DEF Stop, reply, p, Bound, Overflows
  <2> QED BY <1>0, <1>3, <2>1 DEF Stop, reply, ReaderInv
<1>4. CASE ReceiveHeaders
  <2>1. UNCHANGED <<p, Bound, Overflows(held), sdk, server, status, sent, wire, held>>
    BY <1>4 DEF ReceiveHeaders, reply, p, Bound, Overflows
  <2>2. ~Overflows(held)
    BY <1>0, <1>4, ExchangeAssumption DEF ReceiveHeaders, ReaderInv, Overflows
  <2> QED BY <1>0, <1>4, <2>1, <2>2 DEF ReceiveHeaders, Done, Finish, TooBig, ReaderInv
<1>5. CASE Read
  BY <1>5, ReadInv
<1>6. CASE EndOfBody
  <2>1. UNCHANGED <<p, Bound, Overflows(held), sdk, server, status, sent, wire, held>>
    BY <1>6 DEF EndOfBody, reply, p, Bound, Overflows
  <2>2. server \in {"ended", "dropped"} /\ status # None
    BY <1>6 DEF EndOfBody, CutShortUnnoticed, ReaderInv
  <2> QED
    BY <1>0, <1>6, <2>1, <2>2 DEF EndOfBody, Done, Finish, TooBig, ReaderInv
<1>7. CASE ConnectionLost \/ Stalled
  <2>1. UNCHANGED <<p, Bound, Overflows(held), sdk, server, status, sent, wire, held>>
    BY <1>7 DEF ConnectionLost, Stalled, reply, p, Bound, Overflows
  <2> QED
    BY <1>0, <1>7, <2>1 DEF ConnectionLost, Stalled, Done, Finish, Reported, ReaderInv
<1>8. CASE Expire
  <2>1. UNCHANGED <<p, Bound, Overflows(held), sdk, server, status, sent, wire, held>>
    BY <1>8 DEF Expire, reply, p, Bound, Overflows
  <2> QED BY <1>0, <1>8, <2>1 DEF Expire, Done, Finish, Reported, ReaderInv
<1>9. CASE Decide
  <2>1. UNCHANGED <<p, Bound, Overflows(held), sdk, server, status, sent, wire, held>>
    BY <1>9 DEF Decide, reply, p, Bound, Overflows
  <2> QED BY <1>0, <1>9, <2>1 DEF Decide, Finish, ReaderInv
<1>10. CASE CancellationReported
  <2>1. UNCHANGED <<p, Bound, Overflows(held), sdk, server, status, sent, wire, held, pc>>
    BY <1>10 DEF CancellationReported, reply, p, Bound, Overflows
  <2> QED BY <1>0, <1>10, <2>1, ExchangeAssumption DEF CancellationReported, Finish, ReaderInv
<1>11. CASE UNCHANGED vars
  <2>1. UNCHANGED <<p, Bound, Overflows(held)>>
    BY <1>11 DEF vars, p, Bound, Overflows
  <2> QED BY <1>11, <2>1 DEF vars, ReaderInv
<1> QED
  BY <1>1, <1>2, <1>3, <1>4, <1>5, <1>6, <1>7, <1>8, <1>9, <1>10, <1>11 DEF Next, Client

\* An outcome that has been told is never untold, and nothing that it rests on
\* changes after it: the registry has ended the body, or has sent too much.
LEMMA OutcomeKept ==
    ASSUME IInv, [Next]_vars, outcome' = outcome
    PROVE  OutcomeInv'
<1> USE DEF IInv
<1>0. sent \in Nat /\ Limit \in Nat /\ None \notin Outcomes
  BY ExchangeAssumption DEF TypeOK, Outcomes
<1>1. CASE Respond
  <2>1. outcome' \in {None, "timeout", "transport"}
    BY <1>1 DEF Respond, ReaderInv
  <2> QED BY <1>0, <2>1 DEF OutcomeInv, NoFalseSuccess, NoFalseRefusal, Outcomes
<1>2. CASE Send
  <2>1. sent' = sent + 1 /\ server = "sending"
        /\ UNCHANGED <<sdk, op, sound, server, status, declared>>
    BY <1>2 DEF Send
  <2>2. outcome' \notin {"ok", "invalid"}
    BY <1>0, <2>1 DEF ReaderInv, OutcomeInv, NoFalseSuccess
  <2> QED BY <1>0, <2>1, <2>2 DEF OutcomeInv, NoFalseSuccess, NoFalseRefusal
<1>3. CASE Stop
  <2>1. server \in {"silent", "sending"}
        /\ UNCHANGED <<sdk, op, sound, status, declared, sent>>
    BY <1>3 DEF Stop, reply
  <2>2. outcome' \notin {"ok", "invalid"}
    BY <1>0, <2>1 DEF ReaderInv, OutcomeInv, NoFalseSuccess
  <2> QED BY <2>1, <2>2 DEF OutcomeInv, NoFalseSuccess, NoFalseRefusal
<1>4. CASE Read
  <2>1. outcome' \in {None, "timeout"}
    BY <1>4 DEF Read, ReaderInv
  <2> QED BY <1>0, <2>1 DEF OutcomeInv, NoFalseSuccess, NoFalseRefusal, Outcomes
<1>5. CASE ReceiveHeaders \/ EndOfBody \/ ConnectionLost \/ Expire \/ Stalled \/ Decide
           \/ CancellationReported \/ UNCHANGED vars
  <2>1. UNCHANGED <<sdk, op, sound, server, status, declared, sent, held>>
    BY <1>5 DEF ReceiveHeaders, EndOfBody, ConnectionLost, Expire, Stalled, Decide,
                CancellationReported, reply, vars
  <2> QED BY <2>1 DEF OutcomeInv, NoFalseSuccess, NoFalseRefusal
<1> QED BY <1>1, <1>2, <1>3, <1>4, <1>5 DEF Next, Client

\* What the outcome says of the reply, for an outcome that a step tells.
Justified(o) ==
    /\ o = "ok" =>
         status = "ok" /\ server = "ended" /\ sound /\ sent <= Limit /\ held = sent
    /\ o = "too_large" =>
         \/ sent > Limit
         \/ declared # None /\ declared > Limit
         \/ sdk = "go" /\ op = "artifact"
    /\ o = "invalid" => status = "ok" /\ sent <= Limit /\ (~sound \/ server = "dropped")
    /\ o = "api_error" => status \in {"error", "redirect"}

\* More was read, or is known to come, than the limit.
LEMMA TooBigJustified ==
    ASSUME IInv, status # None,
           \/ sent > Limit
           \/ status # "ok" /\ ~p.sized
           \/ RefusedByHeader
    PROVE  Justified(TooBig)
<1>1. p.sized => ~RefusedByHeader
  BY ProfileFacts DEF IInv, RefusedByHeader
<1>2. CASE TooBig = "too_large"
  <2>1. status = "ok" => Bound = Limit
    BY DEF Bound
  <2> QED BY <1>1, <1>2, <2>1 DEF TooBig, RefusedByHeader, Justified
<1>3. CASE TooBig = "api_error"
  BY <1>3 DEF Justified, TooBig, IInv, TypeOK
<1> QED BY <1>2, <1>3 DEF TooBig

\* A failing read is reported as the SDK reports it.
LEMMA ReportedJustified ==
    ASSUME IInv, NEW o \in {"transport", "timeout"}
    PROVE  Justified(Reported(o))
<1>1. CASE Reported(o) = o
  BY <1>1 DEF Justified
<1>2. CASE pc = "reading" /\ sdk = "go" /\ Kind = "artifact"
  BY <1>2 DEF Reported, Justified, Kind
<1>3. CASE pc = "reading" /\ sdk = "wasm" /\ Kind = "error"
  <2>1. status # None /\ status # "ok"
    BY <1>3 DEF IInv, ReaderInv, TypeOK, Kind, Bodies
  <2> QED BY <1>3, <2>1 DEF Reported, Justified, IInv, TypeOK
<1> QED BY <1>1, <1>2, <1>3 DEF Reported

LEMMA ReadJustified ==
    ASSUME IInv, Read, outcome' # outcome
    PROVE  Justified(outcome')
<1> USE DEF IInv
<1>1. PICK n \in 1..Room :
        /\ n \in Nat /\ n <= wire /\ wire' = wire - n
        /\ p.reading # "whole" /\ Overflows(held + n) => Done(TooBig)
        /\ p.reading = "whole" \/ ~Overflows(held + n) => outcome' = outcome
  BY ReadRoom
<1>2. Overflows(held + n) /\ p.reading # "whole" /\ outcome' = TooBig
  BY <1>1 DEF Done, Finish
<1>3. held \in Nat /\ wire \in Nat /\ held + wire = sent /\ status # None
  BY ExchangeAssumption DEF Read, ReaderInv, TypeOK
<1>4. status = "ok" => sent > Limit
  BY <1>1, <1>2, <1>3, ProfileFacts, ExchangeAssumption DEF Overflows, Bound
<1> QED BY <1>2, <1>3, <1>4, ProfileFacts, TooBigJustified

LEMMA EndJustified ==
    ASSUME IInv, EndOfBody, outcome' # outcome
    PROVE  Justified(outcome')
<1> USE DEF IInv
<1>1. held = sent /\ sent \in Nat /\ status # None
  BY ExchangeAssumption DEF EndOfBody, ReaderInv, TypeOK
<1>2. CASE p.reading = "whole" /\ Overflows(held)
  <2>1. outcome' = TooBig
    BY <1>2 DEF EndOfBody, Done, Finish
  <2>2. status = "ok" \/ p.sized => sent > Limit
    BY <1>1, <1>2, ExchangeAssumption DEF Overflows, Bound
  <2> QED BY <1>1, <2>1, <2>2, ProfileFacts, TooBigJustified
<1>3. CASE ~(p.reading = "whole" /\ Overflows(held))
  BY <1>1, <1>3 DEF EndOfBody, Done, Finish, Justified, TypeOK
<1> QED BY <1>2, <1>3

LEMMA DecideJustified ==
    ASSUME IInv, Decide, outcome' # outcome
    PROVE  Justified(outcome')
<1> USE DEF IInv
<1>1. /\ held = sent /\ sent \in Nat /\ status = "ok" /\ server \in {"ended", "dropped"}
      /\ ~Overflows(held)
  BY ExchangeAssumption DEF Decide, ReaderInv, TypeOK
<1>2. sent <= Limit
  BY <1>1, ExchangeAssumption DEF Overflows, Bound
<1>3. outcome' = IF Intact THEN "ok" ELSE "invalid"
  BY DEF Decide, Finish
<1> QED BY <1>1, <1>2, <1>3 DEF Justified, Intact

\* Every step that tells an outcome tells a justified one.
LEMMA StepOutcome ==
    ASSUME IInv, [Next]_vars
    PROVE  OutcomeInv'
<1> SUFFICES ASSUME outcome' # outcome PROVE OutcomeInv'
  BY OutcomeKept
<1>1. UNCHANGED <<sdk, op, sound, server, status, declared, sent>>
      /\ (held' = held \/ Read)
  BY DEF Next, Client, Respond, Send, Stop, ReceiveHeaders, Read, EndOfBody, ConnectionLost,
         Expire, Stalled, Decide, CancellationReported, reply, vars
<1>2. Justified(outcome')
  <2>1. CASE ReceiveHeaders
    <3>1. outcome' = "transport" \/ (RefusedByHeader /\ outcome' = TooBig /\ status # None)
      BY <2>1 DEF ReceiveHeaders, Done, Finish
    <3> QED BY <3>1, TooBigJustified DEF Justified
  <2>2. CASE Read
    BY <2>2, ReadJustified
  <2>3. CASE EndOfBody
    BY <2>3, EndJustified
  <2>4. CASE ConnectionLost \/ Stalled \/ Expire
    <3>1. outcome' = "timeout" \/ \E o \in {"transport", "timeout"} : outcome' = Reported(o)
      BY <2>4 DEF ConnectionLost, Stalled, Expire, Done, Finish
    <3> QED BY <3>1, ReportedJustified DEF Justified
  <2>5. CASE Decide
    BY <2>5, DecideJustified
  <2>6. CASE CancellationReported
    BY <2>6 DEF CancellationReported, Finish, Justified
  <2>7. CASE Respond \/ Send \/ Stop \/ UNCHANGED vars
    BY <2>7 DEF Respond, Send, Stop, vars
  <2> QED BY <2>1, <2>2, <2>3, <2>4, <2>5, <2>6, <2>7 DEF Next, Client
<1>3. Read => outcome' # "ok"
  BY ReadJustified, ExchangeAssumption DEF Read, Done, Finish, TooBig, IInv
<1> QED BY <1>1, <1>2, <1>3 DEF Justified, OutcomeInv, NoFalseSuccess, NoFalseRefusal

-----------------------------------------------------------------------------
LEMMA Inductive == Spec => []IInv
<1>1. IInv /\ [Next]_vars => IInv'
  BY StepType, StepReader, StepOutcome DEF IInv
<1> QED BY <1>1, InitInv, PTL DEF Spec

\* Every state of an exchange is one the code can be in: in particular nothing
\* more is held than was sent, and nothing more is in flight than the window.
THEOREM ExchangeTypeCorrect == Spec => []TypeOK
<1>1. IInv => TypeOK
  BY DEF IInv
<1> QED BY <1>1, Inductive, PTL

\* Whatever the registry sends and declares, in whatever portions it arrives,
\* and whenever a deadline fires: a call of any SDK reports success only for a
\* complete, intact success body within the limit.
THEOREM SuccessIsTrue == Spec => []NoFalseSuccess
<1>1. IInv => NoFalseSuccess
  BY DEF IInv, OutcomeInv
<1> QED BY <1>1, Inductive, PTL

\* A refusal names its true reason: a body of exactly the limit is accepted, an
\* intact body is never called invalid, a success never an error.
THEOREM RefusalIsTrue == Spec => []NoFalseRefusal
<1>1. IInv => NoFalseRefusal
  BY DEF IInv, OutcomeInv
<1> QED BY <1>1, Inductive, PTL

\* The SDKs that stream a body hold at most the limit and one byte of it,
\* however much the registry sends.
THEOREM StreamsAreBounded == Spec => []HeldBounded
<1>1. IInv => HeldBounded
  BY DEF IInv, ReaderInv, HeldBounded
<1> QED BY <1>1, Inductive, PTL

\* What the caller was told stays told: a late answer, a reader that outlives
\* its call and the report of a cancellation change nothing.
THEOREM OutcomeIsFinal == Spec => SettlesOnce
<1>1. [Next]_vars => [outcome # None => outcome' = outcome]_vars
  BY DEF Next, Client, Respond, Send, Stop, ReceiveHeaders, Read, EndOfBody, ConnectionLost,
         Expire, Stalled, Decide, CancellationReported, Done, Finish, vars
<1> QED BY <1>1, PTL DEF Spec, SettlesOnce

\* Who still has a connection: a reader that has not ended, or nobody, because the
\* body was refused by its header and left.
ConnInv ==
    /\ outcome # None /\ pc # "done" => sdk = "dart"
    /\ pc = "done" /\ conn = "open" => p.abandons /\ RefusedByHeader /\ status # None
    /\ cancelled => outcome # None

LEMMA StepConn ==
    ASSUME IInv, ConnInv, [Next]_vars
    PROVE  ConnInv'
<1> USE ExchangeAssumption DEF ConnInv
<1>0. TypeOK /\ ReaderInv
  BY DEF IInv
<1>1. CASE Respond
  BY <1>0, <1>1 DEF Respond, p, ReaderInv
<1>2. CASE Send \/ Stop
  BY <1>2 DEF Send, Stop, reply, p, RefusedByHeader, Kind, Bound
<1>3. CASE ReceiveHeaders
  <2>1. UNCHANGED <<sdk, op, status, declared>> /\ pc = "sent" /\ status # None
    BY <1>3 DEF ReceiveHeaders, reply
  <2>2. UNCHANGED <<p, Kind, Bound>> /\ RefusedByHeader' = RefusedByHeader
    BY <2>1 DEF p, Kind, Bound, RefusedByHeader
  <2>3. \/ pc' = "done" /\ conn' = "closed" /\ UNCHANGED cancelled
        \/ /\ RefusedByHeader /\ pc' = "done" /\ conn' = IF p.abandons THEN conn ELSE "closed"
           /\ outcome' # None
        \/ pc' = "reading" /\ UNCHANGED <<conn, cancelled, outcome>>
    BY <1>3 DEF ReceiveHeaders, Done, Finish, TooBig
  <2>4. cancelled' => outcome' # None
    BY <1>0, <1>3 DEF ReceiveHeaders, Done, Finish, TooBig, ReaderInv
  <2> QED BY <2>1, <2>2, <2>3, <2>4
<1>4. CASE Read
  <2>1. UNCHANGED <<sdk, op, status, declared>> /\ pc = "reading"
    BY <1>4 DEF Read, reply
  <2>2. \/ pc' = "done" /\ conn' = "closed" /\ outcome' # None
        \/ UNCHANGED <<pc, conn, outcome, cancelled>>
    BY <1>4 DEF Read, Done, Finish, TooBig
  <2> QED BY <2>1, <2>2
<1>5. CASE EndOfBody \/ ConnectionLost \/ Stalled
  <2>1. UNCHANGED <<sdk, op, status, declared, cancelled>> /\ pc \in {"sent", "reading"}
    BY <1>5 DEF EndOfBody, ConnectionLost, Stalled, reply
  <2>2. \/ pc' = "done" /\ conn' = "closed" /\ outcome' # None
        \/ pc' = "deciding" /\ UNCHANGED outcome
    BY <1>5 DEF EndOfBody, ConnectionLost, Stalled, Done, Finish, TooBig, Reported
  <2> QED BY <2>1, <2>2
<1>6. CASE Expire
  BY <1>6 DEF Expire, Done, Finish, Reported, reply
<1>7. CASE Decide
  BY <1>0, <1>7 DEF Decide, Finish, reply, ReaderInv
<1>8. CASE CancellationReported
  BY <1>8 DEF CancellationReported, Finish, reply, p, RefusedByHeader, Kind, Bound
<1>9. CASE UNCHANGED vars
  BY <1>9 DEF vars, p, RefusedByHeader, Kind, Bound
<1> QED BY <1>1, <1>2, <1>3, <1>4, <1>5, <1>6, <1>7, <1>8, <1>9 DEF Next, Client

\* When a call has ended its connection is given back, whatever the registry does and
\* whichever deadline fires, but for Dart's reader and for bodies refused by their
\* header in the SDKs that abandon them.
THEOREM ConnectionsAreReleased == Spec => []Released
<1>1. Init => ConnInv
  BY DEF Init, ConnInv
<1>2. IInv /\ ConnInv /\ [Next]_vars => ConnInv'
  BY StepConn
<1>3. ConnInv => Released
  BY DEF ConnInv, Released
<1> QED BY Inductive, <1>1, <1>2, <1>3, PTL DEF Spec
=============================================================================
