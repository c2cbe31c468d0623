----------------------------- MODULE GraphCache -----------------------------
(***************************************************************************)
(* downloadDependencyGraph of the TypeScript SDK, called any number of     *)
(* times by one application that keeps the documents it gets, asks again   *)
(* with their entity tags, and passes one AbortSignal to all of its calls. *)
(* Each call adds a timer and a listener to that signal, whichever aborts  *)
(* first gives the reason, and both are disposed of when the call ends.    *)
(* Code between two awaits runs undisturbed, so headers are taken and      *)
(* judged in one step, and so is a chunk of the body.                      *)
(***************************************************************************)
EXTENDS Naturals

CONSTANTS
    Calls,     \* the calls made
    Tags,      \* the entity tags in play
    MaxBytes,  \* the limit of a body
    MaxBody,   \* bound: bytes of a chunk, and an announced length
    None       \* not there

(* A condition is split at its commas, those inside a tag too: what is left   *)
(* of a tag with a comma equals no tag, but may be a star.  A W/ makes no     *)
(* difference.                                                                *)
Pieces == [first |-> {"first"}, second |-> {"second"}, comma |-> {}, star |-> {"*"}]

ASSUME GraphAssumption ==
    /\ Tags \subseteq DOMAIN Pieces
    /\ MaxBytes \in Nat /\ MaxBody \in Nat
    /\ None \notin Nat /\ None \notin DOMAIN Pieces
    /\ None \notin {"caller", "timer"}
    /\ None \notin {"ok", "not_modified", "local", "http_error", "invalid",
                    "too_large", "aborted", "timeout", "failed"}

\* tag is None without a valid strong ETag and digest, announced without a valid
\* Content-Length; fits: the other headers are those of the requested format.
Replies ==
    [status : {"200", "304"}, tag : Tags \union {None},
     announced : 0..MaxBody \union {None}, fits : BOOLEAN]
    \union
    [status : {"other"}, tag : {None}, announced : {None}, fits : {FALSE}]

ASSUME RepliesAssumption == None \notin Replies

VARIABLES
    docs,      \* application: the tags of the documents it keeps
    aborted,   \* application: the signal it passes to every call is aborted
    pc,        \* "idle", "waiting", "reading" or "done"
    asked,     \* the condition of a running call: a set of tags, or {"*"}
    tag,       \* the tag of the response, while it is used
    announced, \* the Content-Length of the body being read
    taken,     \* bytes of it taken
    listening, \* the calls that listen to the application's signal
    timers,    \* the calls whose timer is armed
    signal,    \* who aborted each call's own signal first
    streams,   \* the calls whose response stream is neither ended nor cancelled
    outcome    \* what the application got

app      == <<docs, aborted>>
response == <<tag, announced, taken>>
vars     == <<app, pc, asked, response, listening, timers, signal, streams, outcome>>

Outcomes == {"ok", "not_modified", "local", "http_error", "invalid", "too_large",
             "aborted", "timeout", "failed"}

TypeOK ==
    /\ docs \in SUBSET Tags /\ aborted \in BOOLEAN
    /\ pc \in [Calls -> {"idle", "waiting", "reading", "done"}]
    /\ asked \in [Calls -> SUBSET (Tags \union {"*"})]
    /\ tag \in [Calls -> Tags \union {None}]
    /\ announced \in [Calls -> 0..MaxBytes]
    /\ taken \in [Calls -> 0..MaxBytes]
    /\ listening \in SUBSET Calls /\ timers \in SUBSET Calls
    /\ signal \in [Calls -> {"caller", "timer", None}]
    /\ streams \in SUBSET Calls
    /\ outcome \in [Calls -> Outcomes \union {None}]

\* The documents may come from an earlier run of the application.
Init ==
    /\ docs \in SUBSET Tags /\ aborted = FALSE
    /\ pc = [c \in Calls |-> "idle"]
    /\ asked = [c \in Calls |-> {}]
    /\ tag = [c \in Calls |-> None]
    /\ announced = [c \in Calls |-> 0] /\ taken = [c \in Calls |-> 0]
    /\ listening = {} /\ timers = {}
    /\ signal = [c \in Calls |-> None]
    /\ streams = {}
    /\ outcome = [c \in Calls |-> None]

Running(c) == pc[c] \in {"waiting", "reading"}

-----------------------------------------------------------------------------
(* The application's signal, the timers, and streams left alone. *)

\* The signal is aborted for good, and its listeners run once.
CallerAborts ==
    /\ ~aborted /\ aborted' = TRUE
    /\ signal' = [c \in Calls |-> IF c \in listening /\ signal[c] = None
                                  THEN "caller" ELSE signal[c]]
    /\ listening' = {}
    /\ UNCHANGED <<docs, pc, asked, response, timers, streams, outcome>>

\* Faulty variant: the timer overrides the reason.
TimerFiresAnyway(c) ==
    /\ c \in timers /\ timers' = timers \ {c}
    /\ signal' = [signal EXCEPT ![c] = "timer"]
    /\ UNCHANGED <<app, pc, asked, response, listening, streams, outcome>>

TimerFires(c) ==
    /\ c \in timers /\ timers' = timers \ {c}
    /\ signal' = [signal EXCEPT ![c] = IF signal[c] = None THEN "timer" ELSE signal[c]]
    /\ UNCHANGED <<app, pc, asked, response, listening, streams, outcome>>

\* The sender ends a stream that nobody reads any more.
Drain(c) ==
    /\ pc[c] = "done" /\ c \in streams
    /\ streams' = streams \ {c}
    /\ UNCHANGED <<app, pc, asked, response, listening, timers, signal, outcome>>

-----------------------------------------------------------------------------
(* The call. *)

\* Faulty variant: the timer is forgotten.
FinishTimerLeft(c, o, t) ==
    /\ pc' = [pc EXCEPT ![c] = "done"] /\ outcome' = [outcome EXCEPT ![c] = o]
    /\ asked' = [asked EXCEPT ![c] = {}] /\ tag' = [tag EXCEPT ![c] = t]
    /\ announced' = [announced EXCEPT ![c] = 0] /\ taken' = [taken EXCEPT ![c] = 0]
    /\ listening' = listening \ {c}
    /\ UNCHANGED <<aborted, timers, signal>>

\* The finally clause disposes of the timer and of the listener.  What of the
\* response is not in the result is forgotten.
Finish(c, o, t) ==
    /\ pc' = [pc EXCEPT ![c] = "done"] /\ outcome' = [outcome EXCEPT ![c] = o]
    /\ asked' = [asked EXCEPT ![c] = {}] /\ tag' = [tag EXCEPT ![c] = t]
    /\ announced' = [announced EXCEPT ![c] = 0] /\ taken' = [taken EXCEPT ![c] = 0]
    /\ listening' = listening \ {c} /\ timers' = timers \ {c}
    /\ UNCHANGED <<aborted, signal>>

\* Format, coordinate, limit and timeout are checked before anything is armed.
Decline(c) ==
    /\ pc[c] = "idle"
    /\ Finish(c, "local", None)
    /\ UNCHANGED <<docs, streams>>

\* Faulty variant: no timer is armed.
StartUntimed(c) ==
    /\ pc[c] = "idle" /\ pc' = [pc EXCEPT ![c] = "waiting"]
    /\ \E cond \in (SUBSET docs) \union {{"*"}} : asked' = [asked EXCEPT ![c] = cond]
    /\ IF aborted
       THEN signal' = [signal EXCEPT ![c] = "caller"] /\ UNCHANGED listening
       ELSE listening' = listening \union {c} /\ UNCHANGED signal
    /\ UNCHANGED <<app, response, timers, streams, outcome>>

\* The application asks for a document, on the condition that it is none of
\* those it names.
Start(c) ==
    /\ pc[c] = "idle" /\ pc' = [pc EXCEPT ![c] = "waiting"]
    /\ \E cond \in (SUBSET docs) \union {{"*"}} : asked' = [asked EXCEPT ![c] = cond]
    /\ IF aborted
       THEN signal' = [signal EXCEPT ![c] = "caller"] /\ UNCHANGED listening
       ELSE listening' = listening \union {c} /\ UNCHANGED signal
    /\ timers' = timers \union {c}
    /\ UNCHANGED <<app, response, streams, outcome>>

\* Faulty variant: any condition will do.
MatchesAny(cond, t) == cond # {}

Matches(cond, t) ==
    LET candidates == UNION {IF x = "*" THEN {"*"} ELSE Pieces[x] : x \in cond}
    IN "*" \in candidates \/ t \in candidates

\* The first check that fails, in the order of the code; None when all hold.
Refusal(c, r) ==
    IF r.status = "other" THEN "http_error"
    ELSE IF r.tag = None \/ r.announced = None THEN "invalid"
    ELSE IF r.announced > MaxBytes THEN "too_large"
    ELSE IF ~r.fits \/ (r.status = "304" /\ ~Matches(asked[c], r.tag)) THEN "invalid"
    ELSE None

\* Headers arrive, any headers, from the registry or from a cache in front of it.
\* A response that they refuse is neither read nor cancelled.
TakeHeaders(c) ==
    /\ pc[c] = "waiting" /\ signal[c] = None
    /\ \E r \in Replies :
        /\ \/ Refusal(c, r) # None /\ Finish(c, Refusal(c, r), None)
           \/ Refusal(c, r) = None /\ r.status = "304" /\ Finish(c, "not_modified", r.tag)
           \/ /\ Refusal(c, r) = None /\ r.status = "200"
              /\ pc' = [pc EXCEPT ![c] = "reading"]
              /\ tag' = [tag EXCEPT ![c] = r.tag]
              /\ announced' = [announced EXCEPT ![c] = r.announced]
              /\ UNCHANGED <<aborted, asked, taken, listening, timers, signal, outcome>>
        /\ streams' = IF r.status = "304" THEN streams ELSE streams \union {c}
    /\ UNCHANGED docs

\* Faulty variant: the limit lets one byte more through.
OverflowsLate(n) == n > MaxBytes + 1

Overflows(n) == n > MaxBytes

\* A chunk arrives; one that passes the limit cancels the stream.
Chunk(c) ==
    /\ pc[c] = "reading" /\ signal[c] = None
    /\ \E n \in 1..MaxBody :
        IF Overflows(taken[c] + n)
        THEN Finish(c, "too_large", None) /\ streams' = streams \ {c}
        ELSE /\ taken' = [taken EXCEPT ![c] = taken[c] + n]
             /\ UNCHANGED <<aborted, pc, asked, tag, announced, listening, timers,
                            signal, streams, outcome>>
    /\ UNCHANGED docs

\* Faulty variant: a body cut short is accepted.
ExceedsAnnounced(c) == taken[c] > announced[c]

Differs(c) == taken[c] # announced[c]

\* The stream ends; the application keeps what it was promised.
EndBody(c) ==
    /\ pc[c] = "reading" /\ signal[c] = None
    /\ streams' = streams \ {c}
    /\ IF Differs(c)
       THEN Finish(c, "invalid", None) /\ UNCHANGED docs
       ELSE Finish(c, "ok", tag[c]) /\ docs' = docs \union {tag[c]}

\* The connection is lost, or fetch rejects a redirect.
NetworkFails(c) ==
    /\ Running(c) /\ signal[c] = None
    /\ Finish(c, "failed", None)
    /\ streams' = streams \ {c}
    /\ UNCHANGED docs

\* What is awaited rejects with the reason of the abortion.
Interrupted(c) ==
    /\ Running(c) /\ signal[c] # None
    /\ Finish(c, IF signal[c] = "caller" THEN "aborted" ELSE "timeout", None)
    /\ streams' = streams \ {c}
    /\ UNCHANGED docs

Call(c) ==
    \/ Decline(c) \/ Start(c) \/ TakeHeaders(c) \/ Chunk(c) \/ EndBody(c)
    \/ NetworkFails(c) \/ Interrupted(c)

Next ==
    \/ CallerAborts
    \/ \E c \in Calls : TimerFires(c) \/ Drain(c) \/ Call(c)

Spec == Init /\ [][Next]_vars

\* An armed timer fires, and a rejected promise is noticed; the registry and the
\* application promise nothing.
FairSpec == Spec /\ \A c \in Calls : WF_vars(TimerFires(c)) /\ WF_vars(Interrupted(c))

-----------------------------------------------------------------------------
(* Properties. *)

Ends(c, o) == outcome[c] = None /\ outcome'[c] = o

\* "Not modified" is only said of a document that the application keeps, unless
\* it asked with a star: an unrelated 304 proves nothing.
ConfirmedIsKept ==
    [][\A c \in Calls : Ends(c, "not_modified") =>
            asked[c] = {"*"} \/ tag'[c] \in docs]_vars

\* While a call runs, its timer is armed or has aborted it, and it listens to
\* the application's signal or was aborted; when it has ended neither is left, and a
\* stream stays open only if its headers were refused.
Guarded ==
    \A c \in Calls :
        /\ Running(c) => /\ c \in timers \/ signal[c] # None
                         /\ c \in listening <=> ~aborted
                         /\ aborted => signal[c] # None
        /\ ~Running(c) => c \notin timers \union listening
        /\ c \in streams => Running(c) \/ outcome[c] \in {"http_error", "invalid", "too_large"}

\* The application's signal is authoritative: a call it aborted before the timer
\* did ends as aborted, and only a call whose timer came first as timed out.
AbortIsAuthoritative ==
    [][\A c \in Calls : Running(c) /\ signal[c] # None =>
            /\ signal'[c] = signal[c]
            /\ outcome'[c] \in {None, IF signal[c] = "caller" THEN "aborted"
                                                              ELSE "timeout"}]_vars

\* A document is only kept with a tag when its body had the length announced for
\* it, within the limit; what it keeps the application never loses.
KeptIsComplete ==
    [][/\ docs \subseteq docs'
       /\ \A t \in docs' \ docs : \E c \in Calls :
            /\ Ends(c, "ok") /\ tag[c] = t /\ tag'[c] = t
            /\ taken[c] = announced[c] /\ taken[c] <= MaxBytes]_vars

\* Every call ends, whatever the registry leaves undone.
Settles == \A c \in Calls : Running(c) ~> pc[c] = "done"
=============================================================================
