------------------------------ MODULE Exchange ------------------------------
(***************************************************************************)
(* One HTTP exchange of an SDK: a request has been sent and the call waits *)
(* for the headers, reads the body under a size limit, and decodes it or   *)
(* compares its digest.  The registry answers when it likes, with any body *)
(* and any Content-Length, stalls, or drops the connection; the deadlines  *)
(* of the SDK fire at any moment they are armed.                           *)
(*                                                                         *)
(* The fourteen SDKs with a transport differ in what their deadline covers *)
(* and in how they hold on to the limit: a profile says how.               *)
(***************************************************************************)
EXTENDS Naturals

CONSTANTS
    Sdks,        \* the SDKs in use
    Limit,       \* bytes accepted of a JSON document or an artifact
    ErrorLimit,  \* bytes kept of an error body
    MaxBody,     \* bound: bytes a registry sends before it stalls for ever
    Window,      \* bytes in flight before the sender has to wait
    None         \* no header, no outcome

ASSUME ExchangeAssumption ==
    /\ Limit \in Nat /\ ErrorLimit \in Nat /\ ErrorLimit <= Limit
    /\ MaxBody \in Nat /\ Window \in Nat
    /\ None \notin Nat
    /\ None \notin {"ok", "error", "redirect", "api_error", "too_large", "invalid",
                    "transport", "timeout"}

(* deadlines: "call" covers everything up to the end of the body, "headers"  *)
(*   the wait for them, "stall" each wait for more of the body.              *)
(* reading: "chunks" keeps what the limit leaves room for, "limited" asks    *)
(*   for one byte more than the limit, "whole" measures the complete body.   *)
(* declared: the bodies refused by their Content-Length, before any reading. *)
(* abandons: such a refusal neither reads nor cancels the body.              *)
(* redirects: whether a redirect makes the request itself fail.              *)
(* sized: the size is checked before the status.                             *)
Profile(deadlines, reading, declared, abandons, redirects, sized) ==
    [deadlines |-> deadlines, reading |-> reading, declared |-> declared,
     abandons |-> abandons, redirects |-> redirects, sized |-> sized]

Bodies == {"json", "artifact"}

TypeScript == Profile({"call"}, "chunks", Bodies, TRUE, TRUE, FALSE)
Python == Profile({"headers", "stall"}, "limited", Bodies, FALSE, FALSE, FALSE)
Go     == Profile({"call"}, "limited", {"artifact"}, FALSE, TRUE, FALSE)
Rust   == Profile({"headers", "stall"}, "limited", Bodies \union {"error"}, FALSE,
                  FALSE, FALSE)
Java   == Profile({"headers"}, "limited", {"artifact"}, FALSE, FALSE, FALSE)
Dart   == Profile({"call", "stall"}, "chunks", Bodies, TRUE, FALSE, FALSE)
Swift  == Profile({"call", "stall"}, "chunks", Bodies, FALSE, FALSE, FALSE)
Erlang == Profile({"call"}, "whole", {}, FALSE, FALSE, FALSE)
Gleam  == Profile({"call"}, "whole", {}, FALSE, FALSE, FALSE)
Wasm   == Profile({"call"}, "whole", Bodies \union {"error"}, TRUE, TRUE, FALSE)
Ruby   == Profile({"headers", "stall"}, "whole", {}, FALSE, FALSE, TRUE)
Php    == Profile({"call"}, "whole", {}, FALSE, FALSE, TRUE)
Kotlin == Profile({"headers"}, "whole", {}, FALSE, FALSE, TRUE)
Elixir == Profile({"call"}, "whole", {}, FALSE, FALSE, FALSE)

ProfileOf ==
    [typescript |-> TypeScript, python |-> Python, go |-> Go, rust |-> Rust,
     java |-> Java, dart |-> Dart, swift |-> Swift, erlang |-> Erlang,
     gleam |-> Gleam, wasm |-> Wasm, ruby |-> Ruby, php |-> Php,
     kotlin |-> Kotlin, elixir |-> Elixir]

ASSUME SdksAssumption == Sdks \subseteq DOMAIN ProfileOf

VARIABLES
    sdk,       \* the SDK that makes the call
    op,        \* what it asks for: "json" or "artifact"
    sound,     \* the body as sent parses, or has the digest of the metadata
    pc,        \* where the reader of the response stands
    server,    \* "silent", "sending", "ended" or "dropped"
    status,    \* class of the status code, once the headers are sent
    declared,  \* Content-Length: a claim, content codings make it differ
    sent,      \* bytes of the body sent so far
    wire,      \* those of them the SDK has not read
    held,      \* bytes of the body the SDK holds
    conn,      \* "open", or "closed" (ended, cancelled or back in the pool)
    cancelled, \* Swift: a cancelled task has yet to report its cancellation
    outcome    \* how the call ended for its caller

reply == <<status, declared, sent>>
vars  == <<sdk, op, sound, pc, server, status, declared, sent, wire, held, conn,
           cancelled, outcome>>

p     == ProfileOf[sdk]
Kind  == IF status = "ok" THEN op ELSE "error"
Bound == IF status = "ok" THEN Limit ELSE ErrorLimit

Outcomes == {"ok", "api_error", "too_large", "invalid", "transport", "timeout"}

TypeOK ==
    /\ sdk \in Sdks /\ op \in Bodies /\ sound \in BOOLEAN
    /\ pc \in {"sent", "reading", "deciding", "done"}
    /\ server \in {"silent", "sending", "ended", "dropped"}
    /\ status \in {None, "ok", "error", "redirect"}
    /\ declared \in Nat \union {None}
    /\ sent \in 0..MaxBody /\ wire \in 0..Window /\ held \in 0..MaxBody
    /\ conn \in {"open", "closed"} /\ cancelled \in BOOLEAN
    /\ outcome \in Outcomes \union {None}

Init ==
    /\ sdk \in Sdks /\ op \in Bodies /\ sound \in BOOLEAN
    /\ pc = "sent" /\ server = "silent"
    /\ status = None /\ declared = None
    /\ sent = 0 /\ wire = 0 /\ held = 0
    /\ conn = "open" /\ cancelled = FALSE /\ outcome = None

-----------------------------------------------------------------------------
(* The registry and the network. *)

Respond ==
    /\ server = "silent" /\ conn = "open"
    /\ server' = "sending"
    /\ status' \in {"ok", "error", "redirect"}
    /\ declared' \in {None} \union 0..MaxBody
    /\ UNCHANGED <<sdk, op, sound, pc, sent, wire, held, conn, cancelled, outcome>>

Send ==
    /\ server = "sending" /\ conn = "open"
    /\ sent < MaxBody /\ wire < Window
    /\ sent' = sent + 1 /\ wire' = wire + 1
    /\ UNCHANGED <<sdk, op, sound, pc, server, status, declared, held, conn,
                   cancelled, outcome>>

\* The body is complete, or the connection is reset.
Stop ==
    /\ conn = "open"
    /\ \/ server = "sending" /\ server' = "ended"
       \/ server \in {"silent", "sending"} /\ server' = "dropped"
    /\ UNCHANGED <<sdk, op, sound, pc, reply, wire, held, conn, cancelled, outcome>>

-----------------------------------------------------------------------------
(* The SDK. *)

\* Faulty variant: a call that has ended can end again.
FinishAgain(o) == outcome' = o

\* The call ends for its caller, unless it ended before: a future, a promise
\* and a continuation complete once.
Finish(o) == outcome' = IF outcome = None THEN o ELSE outcome

Done(o) == pc' = "done" /\ conn' = "closed" /\ Finish(o)

TooBig == IF status = "ok" \/ p.sized THEN "too_large" ELSE "api_error"

RefusedByHeader ==
    Kind \in p.declared /\ declared # None /\ declared > Bound

ReceiveHeaders ==
    /\ pc = "sent" /\ status # None
    /\ \/ /\ status = "redirect" /\ p.redirects
          /\ Done("transport")
          /\ UNCHANGED cancelled
       \/ /\ ~(status = "redirect" /\ p.redirects) /\ RefusedByHeader
          /\ pc' = "done" /\ Finish(TooBig)
          /\ conn' = IF p.abandons THEN conn ELSE "closed"
          /\ cancelled' = (sdk = "swift")
       \/ /\ ~(status = "redirect" /\ p.redirects) /\ ~RefusedByHeader
          /\ pc' = "reading"
          /\ UNCHANGED <<conn, cancelled, outcome>>
    /\ UNCHANGED <<sdk, op, sound, server, reply, wire, held>>

\* Faulty variants: the limit counts as too large; one byte more is let through.
OverflowsAtLimit(h) == h >= Bound
OverflowsLate(h) == h > Bound + 1

Overflows(h) == h > IF p.sized THEN Limit ELSE Bound

\* Faulty variants: the complete body is read before it is measured; the bytes
\* asked for are counted, not those that came.
RoomUnbounded == wire
RoomAskedFor == Bound + 1 - held

\* The most that one read can return.
Room ==
    IF p.reading = "limited" /\ Bound + 1 - held < wire
    THEN Bound + 1 - held
    ELSE wire

\* What was read is kept, or the rest of the body is refused.  An error body is
\* cut at its limit and still reported as the registry's error.
Read ==
    /\ pc = "reading"
    /\ \E n \in 1..Room :
        /\ wire' = wire - n
        /\ LET h == held + n
           IN IF p.reading # "whole" /\ Overflows(h)
              THEN /\ held' = IF p.reading = "chunks" THEN Bound ELSE h
                   /\ Done(TooBig)
                   /\ cancelled' = (sdk = "swift")
              ELSE /\ held' = h
                   /\ UNCHANGED <<pc, conn, outcome, cancelled>>
    /\ UNCHANGED <<sdk, op, sound, server, reply>>

\* urllib's read(n) and Net::HTTP take a body cut short for a complete one.
CutShortUnnoticed == server = "dropped" /\ sdk \in {"python", "ruby"}

EndOfBody ==
    /\ pc = "reading" /\ wire = 0
    /\ server = "ended" \/ CutShortUnnoticed
    /\ IF p.reading = "whole" /\ Overflows(held) THEN Done(TooBig)
       ELSE IF status # "ok" THEN Done("api_error")
       ELSE pc' = "deciding" /\ conn' = "closed" /\ UNCHANGED outcome
    /\ UNCHANGED <<sdk, op, sound, server, reply, wire, held, cancelled>>

\* Go reports every failing read of an artifact as an artifact too large, and
\* the WebAssembly SDK every failing read of an error body as the error.
Reported(o) ==
    IF pc = "reading" /\ sdk = "go" /\ Kind = "artifact" THEN "too_large"
    ELSE IF pc = "reading" /\ sdk = "wasm" /\ Kind = "error" THEN "api_error"
    ELSE o

ConnectionLost ==
    /\ pc \in {"sent", "reading"} /\ server = "dropped"
    /\ Done(Reported("transport"))
    /\ UNCHANGED <<sdk, op, sound, server, reply, wire, held, cancelled>>

\* Faulty variants: the deadline ends the call and leaves the connection; it is
\* disarmed when the headers arrive.
ExpireUnaborted ==
    /\ outcome = None /\ pc \in {"sent", "reading"} /\ "call" \in p.deadlines
    /\ pc' = "done" /\ Finish("timeout")
    /\ UNCHANGED <<sdk, op, sound, server, reply, wire, held, conn, cancelled>>

ExpireDisarmed ==
    /\ outcome = None /\ pc = "sent" /\ "call" \in p.deadlines
    /\ IF sdk = "dart"
       THEN Finish("timeout") /\ UNCHANGED <<pc, conn>>
       ELSE Done(Reported("timeout"))
    /\ UNCHANGED <<sdk, op, sound, server, reply, wire, held, cancelled>>

\* The deadline of the whole call.  In Dart only the caller stops waiting.
Expire ==
    /\ outcome = None /\ pc \in {"sent", "reading"} /\ "call" \in p.deadlines
    /\ IF sdk = "dart"
       THEN Finish("timeout") /\ UNCHANGED <<pc, conn>>
       ELSE Done(Reported("timeout"))
    /\ UNCHANGED <<sdk, op, sound, server, reply, wire, held, cancelled>>

\* Faulty variant: nobody watches the reader that outlives its caller.
StalledUnwatched ==
    /\ wire = 0 /\ server \in {"silent", "sending"} /\ outcome = None
    /\ \/ pc = "sent" /\ "headers" \in p.deadlines
       \/ pc = "reading" /\ "stall" \in p.deadlines
    /\ Done(Reported("timeout"))
    /\ UNCHANGED <<sdk, op, sound, server, reply, wire, held, cancelled>>

\* Nothing came for too long.
Stalled ==
    /\ wire = 0 /\ server \in {"silent", "sending"}
    /\ \/ pc = "sent" /\ "headers" \in p.deadlines
       \/ pc = "reading" /\ "stall" \in p.deadlines
    /\ Done(Reported("timeout"))
    /\ UNCHANGED <<sdk, op, sound, server, reply, wire, held, cancelled>>

\* Faulty variant: the digest is not compared, the document not parsed.
IntactAssumed == TRUE

Intact == sound /\ server = "ended" /\ held = sent

\* The document is parsed, the digest compared.
Decide ==
    /\ pc = "deciding"
    /\ pc' = "done"
    /\ Finish(IF Intact THEN "ok" ELSE "invalid")
    /\ UNCHANGED <<sdk, op, sound, server, reply, wire, held, conn, cancelled>>

\* Swift: the delegate hears of the cancellation it asked for.
CancellationReported ==
    /\ cancelled
    /\ cancelled' = FALSE
    /\ Finish("transport")
    /\ UNCHANGED <<sdk, op, sound, pc, server, reply, wire, held, conn>>

Client ==
    \/ ReceiveHeaders \/ Read \/ EndOfBody \/ ConnectionLost
    \/ Expire \/ Stalled \/ Decide \/ CancellationReported

Next == Respond \/ Send \/ Stop \/ Client

Spec == Init /\ [][Next]_vars

\* The SDK runs and its deadlines fire; the registry promises nothing.
FairSpec == Spec /\ WF_vars(Client) /\ WF_vars(Expire)

-----------------------------------------------------------------------------
(* Properties. *)

\* A call succeeds only with the complete, intact body of a success response
\* within the limit, however it was cut into reads and whatever was declared.
NoFalseSuccess ==
    outcome = "ok" =>
        status = "ok" /\ server = "ended" /\ sound /\ sent <= Limit /\ held = sent

\* A call fails for the reason it gives: "too large" only if more than the
\* limit was sent or declared (a body of exactly the limit is accepted),
\* "invalid" only if the registry sent bad bytes or was cut short.
NoFalseRefusal ==
    /\ outcome = "too_large" =>
            \/ sent > Limit
            \/ declared # None /\ declared > Limit
            \/ sdk = "go" /\ op = "artifact"
    /\ outcome = "invalid" =>
            status = "ok" /\ sent <= Limit /\ (~sound \/ server = "dropped")
    /\ outcome = "api_error" => status \in {"error", "redirect"}

\* An SDK that streams never holds more than the limit and one byte.
HeldBounded == p.reading # "whole" => held <= Bound + 1

\* When the call has ended, its connection is given back, but for two cases:
\* Dart's reader, which outlives the deadline of its caller, and a body that
\* was refused by its header and never cancelled.
Released ==
    outcome # None /\ conn = "open" =>
        \/ sdk = "dart" /\ pc # "done"
        \/ p.abandons /\ RefusedByHeader

\* The caller hears one outcome: a late answer, a reader that outlives the call
\* and the report of a cancellation change nothing.
SettlesOnce == [][outcome # None => outcome' = outcome]_vars

\* Every call ends, whatever the registry does or leaves undone.
Settles == <>(outcome # None)

\* The deadlines of all but Java, Kotlin and Ruby cover the body: Ruby's starts
\* again with every byte of a body that it does not bound while reading.
Covered == \/ "call" \in p.deadlines
           \/ "stall" \in p.deadlines /\ p.reading # "whole"

\* Where the deadlines cover the body every call ends, whatever the registry does.
DeadlinesHold == Covered ~> outcome # None

\* Nor is a reader left behind for ever once the headers are in: not even the
\* one in Dart that outlives its caller.
ReaderEnds == Covered /\ pc = "reading" ~> pc = "done"
=============================================================================
