----------------------------- MODULE GraphProofs -----------------------------
(***************************************************************************)
(* Proofs about GraphCache, for any number of calls and any limit.         *)
(***************************************************************************)
EXTENDS GraphCache, TLAPS

\* What a call that has not ended knows, and that conditions stay true.
Pending ==
    \A c \in Calls :
        /\ pc[c] # "done" => outcome[c] = None
        /\ pc[c] = "waiting" => c \notin streams
        /\ pc[c] = "reading" => tag[c] \in Tags
        /\ asked[c] \in (SUBSET docs) \union {{"*"}}

Inv == TypeOK /\ Guarded /\ Pending

-----------------------------------------------------------------------------
(* Helpers. *)

\* Ending a call keeps the invariant, whatever it ends with: docs may have grown
\* by its tag, and its stream is closed unless its headers were refused.
LEMMA FinishKeepsInv ==
    ASSUME Inv, NEW c \in Calls, NEW o \in Outcomes, NEW t \in Tags \union {None},
           Finish(c, o, t), docs' \in SUBSET Tags, docs \subseteq docs',
           streams' \in SUBSET Calls,
           \/ streams' = streams \ {c}
           \/ streams' = streams /\ c \notin streams
           \/ streams' = streams \union {c} /\ o \in {"http_error", "invalid", "too_large"}
    PROVE  Inv'
<1>1. TypeOK'
  BY GraphAssumption DEF Inv, TypeOK, Finish
<1>2. Guarded'
  <2> SUFFICES ASSUME NEW d \in Calls
               PROVE  /\ Running(d)' => /\ d \in timers' \/ signal'[d] # None
                                        /\ d \in listening' <=> ~aborted'
                                        /\ aborted' => signal'[d] # None
                      /\ ~Running(d)' => d \notin timers' \union listening'
                      /\ d \in streams' => \/ Running(d)'
                                           \/ outcome'[d] \in {"http_error", "invalid",
                                                               "too_large"}
    BY DEF Guarded
  <2>1. CASE d = c
    BY <2>1 DEF Inv, TypeOK, Finish, Running
  <2>2. CASE d # c
    BY <2>2 DEF Inv, TypeOK, Guarded, Finish, Running
  <2> QED  BY <2>1, <2>2
<1>3. Pending'
  BY DEF Inv, TypeOK, Pending, Finish
<1> QED  BY <1>1, <1>2, <1>3 DEF Inv

\* The refusals are outcomes of a refused response.
LEMMA RefusalIsOutcome ==
    ASSUME NEW c, NEW r
    PROVE  Refusal(c, r) \in {"http_error", "invalid", "too_large", None}
BY DEF Refusal

\* Without stars inside tags a condition of tags matches only a tag it names.
LEMMA MatchesNamed ==
    ASSUME "star" \notin Tags, NEW cond \in SUBSET Tags, NEW t \in Tags,
           Matches(cond, t)
    PROVE  t \in cond
<1>1. \A x \in cond : x \in {"first", "second", "comma"}
  BY GraphAssumption DEF Pieces
<1>2. \A x \in cond : x # "*" /\ Pieces[x] \subseteq {x}
  BY <1>1 DEF Pieces
<1>3. UNION {IF x = "*" THEN {"*"} ELSE Pieces[x] : x \in cond} \subseteq cond
  BY <1>2
<1>4. "*" \notin cond
  BY <1>2
<1> QED  BY <1>3, <1>4 DEF Matches

-----------------------------------------------------------------------------
(* The invariant. *)

LEMMA InitInv == Init => Inv
<1> SUFFICES ASSUME Init PROVE Inv
  OBVIOUS
<1>1. TypeOK
  <2>1. 0 \in 0..MaxBytes
    BY GraphAssumption
  <2>2. asked \in [Calls -> SUBSET (Tags \union {"*"})] /\ streams \in SUBSET Calls
    BY DEF Init
  <2> QED  BY <2>1, <2>2 DEF Init, TypeOK
<1>2. Guarded
  BY DEF Init, Guarded, Running
<1>3. Pending
  BY DEF Init, Pending
<1> QED  BY <1>1, <1>2, <1>3 DEF Inv

LEMMA NextInv == Inv /\ [Next]_vars => Inv'
<1> SUFFICES ASSUME Inv, [Next]_vars PROVE Inv'
  OBVIOUS
<1>1. CASE CallerAborts
  <2>1. TypeOK'
    BY <1>1 DEF Inv, TypeOK, CallerAborts, response
  <2>2. Guarded'
    <3> SUFFICES ASSUME NEW d \in Calls
                 PROVE  /\ Running(d)' => signal'[d] # None
                        /\ ~Running(d) => d \notin timers
                        /\ d \in streams => \/ Running(d)
                                            \/ outcome[d] \in {"http_error", "invalid",
                                                               "too_large"}
      BY <1>1 DEF Guarded, CallerAborts, response, Running
    <3>1. signal'[d] = IF d \in listening /\ signal[d] = None THEN "caller" ELSE signal[d]
      BY <1>1 DEF CallerAborts
    <3> QED  BY <1>1, <3>1, GraphAssumption DEF Inv, Guarded, CallerAborts, response, Running
  <2>3. Pending'
    BY <1>1 DEF Inv, Pending, CallerAborts, response
  <2> QED  BY <2>1, <2>2, <2>3 DEF Inv
<1>2. ASSUME NEW c \in Calls, TimerFires(c) PROVE Inv'
  <2>1. TypeOK'
    BY <1>2 DEF Inv, TypeOK, TimerFires, app, response
  <2>2. Guarded'
    BY <1>2, GraphAssumption DEF Inv, TypeOK, Guarded, TimerFires, app, response, Running
  <2>3. Pending'
    BY <1>2 DEF Inv, Pending, TimerFires, app, response
  <2> QED  BY <2>1, <2>2, <2>3 DEF Inv
<1>3. ASSUME NEW c \in Calls, Drain(c) PROVE Inv'
  BY <1>3 DEF Inv, TypeOK, Guarded, Pending, Drain, app, response, Running
<1>4. ASSUME NEW c \in Calls, Decline(c) PROVE Inv'
  <2>1. c \notin streams
    BY <1>4, GraphAssumption DEF Decline, Inv, Guarded, Pending, Running
  <2> QED  BY <1>4, <2>1, FinishKeepsInv DEF Decline, Inv, TypeOK, Outcomes
<1>5. ASSUME NEW c \in Calls, Start(c) PROVE Inv'
  <2>1. TypeOK'
    <3>1. PICK cond \in (SUBSET docs) \union {{"*"}} : asked' = [asked EXCEPT ![c] = cond]
      BY <1>5 DEF Start
    <3>2. cond \in SUBSET (Tags \union {"*"})
      BY DEF Inv, TypeOK
    <3>3. signal' \in [Calls -> {"caller", "timer", None}]
      BY <1>5 DEF Inv, TypeOK, Start
    <3>4. asked' \in [Calls -> SUBSET (Tags \union {"*"})]
      BY <3>1, <3>2 DEF Inv, TypeOK
    <3>5. /\ pc' \in [Calls -> {"idle", "waiting", "reading", "done"}]
          /\ listening' \in SUBSET Calls /\ timers' \in SUBSET Calls
      BY <1>5 DEF Inv, TypeOK, Start
    <3> QED  BY <1>5, <3>3, <3>4, <3>5 DEF Inv, TypeOK, Start, app, response
  <2>2. Guarded'
    <3> SUFFICES ASSUME NEW d \in Calls
                 PROVE  /\ Running(d)' => /\ d \in timers' \/ signal'[d] # None
                                          /\ d \in listening' <=> ~aborted'
                                          /\ aborted' => signal'[d] # None
                        /\ ~Running(d)' => d \notin timers' \union listening'
                        /\ d \in streams' => \/ Running(d)'
                                             \/ outcome'[d] \in {"http_error", "invalid",
                                                                 "too_large"}
      BY DEF Guarded
    <3>1. CASE d = c
      BY <1>5, <3>1, GraphAssumption DEF Inv, TypeOK, Guarded, Start, app, response, Running
    <3>2. CASE d # c
      BY <1>5, <3>2 DEF Inv, TypeOK, Guarded, Start, app, response, Running
    <3> QED  BY <3>1, <3>2
  <2>3. Pending'
    <3>1. PICK cond \in (SUBSET docs) \union {{"*"}} : asked' = [asked EXCEPT ![c] = cond]
      BY <1>5 DEF Start
    <3>2. c \notin streams
      BY <1>5, GraphAssumption DEF Start, Inv, Guarded, Pending, Running
    <3>3. \A d \in Calls : asked'[d] \in (SUBSET docs) \union {{"*"}}
      BY <3>1 DEF Inv, TypeOK, Pending
    <3> QED  BY <1>5, <3>2, <3>3 DEF Inv, TypeOK, Pending, Start, app, response
  <2> QED  BY <2>1, <2>2, <2>3 DEF Inv
<1>6. ASSUME NEW c \in Calls, TakeHeaders(c) PROVE Inv'
  <2> PICK r \in Replies :
        /\ \/ Refusal(c, r) # None /\ Finish(c, Refusal(c, r), None)
           \/ Refusal(c, r) = None /\ r.status = "304" /\ Finish(c, "not_modified", r.tag)
           \/ /\ Refusal(c, r) = None /\ r.status = "200"
              /\ pc' = [pc EXCEPT ![c] = "reading"]
              /\ tag' = [tag EXCEPT ![c] = r.tag]
              /\ announced' = [announced EXCEPT ![c] = r.announced]
              /\ UNCHANGED <<aborted, asked, taken, listening, timers, signal, outcome>>
        /\ streams' = IF r.status = "304" THEN streams ELSE streams \union {c}
    BY <1>6 DEF TakeHeaders
  <2>1. docs' = docs /\ docs \in SUBSET Tags /\ streams' \in SUBSET Calls
    BY <1>6 DEF TakeHeaders, Inv, TypeOK
  <2>2. pc[c] = "waiting" /\ c \notin streams /\ outcome[c] = None
    BY <1>6 DEF TakeHeaders, Inv, Pending
  <2>3. CASE Refusal(c, r) # None /\ Finish(c, Refusal(c, r), None)
    <3>1. Refusal(c, r) \in {"http_error", "invalid", "too_large"}
      BY <2>3, RefusalIsOutcome
    <3> QED  BY <2>1, <2>2, <2>3, <3>1, FinishKeepsInv DEF Outcomes
  <2>4. CASE Refusal(c, r) = None /\ r.status = "304" /\ Finish(c, "not_modified", r.tag)
    <3>1. r.tag \in Tags \union {None}
      BY DEF Replies
    <3> QED  BY <2>1, <2>2, <2>4, <3>1, FinishKeepsInv DEF Outcomes
  <2>5. CASE /\ Refusal(c, r) = None /\ r.status = "200"
             /\ pc' = [pc EXCEPT ![c] = "reading"]
             /\ tag' = [tag EXCEPT ![c] = r.tag]
             /\ announced' = [announced EXCEPT ![c] = r.announced]
             /\ UNCHANGED <<aborted, asked, taken, listening, timers, signal, outcome>>
    <3>1. r.tag # None /\ r.announced # None /\ ~(r.announced > MaxBytes)
      BY <2>5, GraphAssumption DEF Refusal
    <3>2. r.tag \in Tags /\ r.announced \in 0..MaxBody
      BY <2>5, <3>1 DEF Replies
    <3>3. r.announced \in 0..MaxBytes
      BY <3>1, <3>2, GraphAssumption
    <3>4. streams' = streams \union {c}
      BY <2>5
    <3>5. TypeOK'
      BY <2>1, <2>5, <3>2, <3>3, <2>2, <3>4 DEF Inv, TypeOK
    <3>6. Guarded'
      BY <2>2, <2>5, <3>4 DEF Inv, TypeOK, Guarded, Running
    <3>7. Pending'
      <4>1. \A d \in Calls : asked'[d] \in (SUBSET docs') \union {{"*"}}
        BY <2>1, <2>5 DEF Inv, Pending
      <4>2. \A d \in Calls : /\ pc'[d] # "done" => outcome'[d] = None
                             /\ pc'[d] = "waiting" => d \notin streams'
                             /\ pc'[d] = "reading" => tag'[d] \in Tags
        BY <2>2, <2>5, <3>2, <3>4 DEF Inv, TypeOK, Pending
      <4> QED  BY <4>1, <4>2 DEF Pending
    <3> QED  BY <3>5, <3>6, <3>7 DEF Inv
  <2> QED  BY <2>3, <2>4, <2>5
<1>7. ASSUME NEW c \in Calls, Chunk(c) PROVE Inv'
  <2> PICK n \in 1..MaxBody :
        IF Overflows(taken[c] + n)
        THEN Finish(c, "too_large", None) /\ streams' = streams \ {c}
        ELSE /\ taken' = [taken EXCEPT ![c] = taken[c] + n]
             /\ UNCHANGED <<aborted, pc, asked, tag, announced, listening, timers,
                            signal, streams, outcome>>
    BY <1>7 DEF Chunk
  <2>1. docs' = docs /\ docs \in SUBSET Tags
    BY <1>7 DEF Chunk, Inv, TypeOK
  <2>2. CASE Overflows(taken[c] + n)
    BY <2>1, <2>2, FinishKeepsInv DEF Inv, TypeOK, Outcomes
  <2>3. CASE ~Overflows(taken[c] + n)
    <3>1. taken[c] + n \in 0..MaxBytes
      BY <2>3, GraphAssumption DEF Inv, TypeOK, Overflows
    <3>2. TypeOK'
      BY <2>1, <2>3, <3>1 DEF Inv, TypeOK
    <3>3. Guarded' /\ Pending'
      BY <2>1, <2>3 DEF Inv, Guarded, Pending, Running
    <3> QED  BY <3>2, <3>3 DEF Inv
  <2> QED  BY <2>2, <2>3
<1>8. ASSUME NEW c \in Calls, EndBody(c) PROVE Inv'
  <2>1. docs \in SUBSET Tags /\ tag[c] \in Tags \union {None} /\ streams \in SUBSET Calls
    BY DEF Inv, TypeOK
  <2>2. CASE Differs(c)
    BY <1>8, <2>1, <2>2, FinishKeepsInv DEF EndBody, Outcomes
  <2>3. CASE ~Differs(c)
    <3>1. tag[c] \in Tags
      BY <1>8 DEF EndBody, Inv, Pending
    <3> QED  BY <1>8, <2>1, <2>3, <3>1, FinishKeepsInv DEF EndBody, Outcomes
  <2> QED  BY <2>2, <2>3
<1>9. ASSUME NEW c \in Calls, NetworkFails(c) PROVE Inv'
  BY <1>9, FinishKeepsInv DEF NetworkFails, Inv, TypeOK, Outcomes
<1>10. ASSUME NEW c \in Calls, Interrupted(c) PROVE Inv'
  BY <1>10, FinishKeepsInv DEF Interrupted, Inv, TypeOK, Outcomes
<1>11. CASE UNCHANGED vars
  BY <1>11 DEF Inv, TypeOK, Guarded, Pending, Running, vars, app, response
<1> QED
  BY <1>1, <1>2, <1>3, <1>4, <1>5, <1>6, <1>7, <1>8, <1>9, <1>10, <1>11 DEF Next, Call

LEMMA AlwaysInv == Spec => []Inv
BY InitInv, NextInv, PTL DEF Spec

-----------------------------------------------------------------------------
(* The theorems. *)

\* Every reachable state of any number of calls is well typed.
THEOREM GraphTypeCorrect == Spec => []TypeOK
BY AlwaysInv, PTL DEF Inv

\* Timers and listeners live exactly as long as the call they guard.
THEOREM CallsAreGuarded == Spec => []Guarded
BY AlwaysInv, PTL DEF Inv

\* Whichever of the application's signal and the timer came first is what a call
\* ends with.
THEOREM FirstAbortDecides == Spec => AbortIsAuthoritative
<1>1. ASSUME Inv, [Next]_vars, NEW c \in Calls, Running(c), signal[c] # None
      PROVE  /\ signal'[c] = signal[c]
             /\ outcome'[c] \in {None, IF signal[c] = "caller" THEN "aborted" ELSE "timeout"}
  <2>1. outcome[c] = None /\ signal \in [Calls -> {"caller", "timer", None}]
    BY <1>1 DEF Inv, TypeOK, Pending, Running
  <2>2. outcome \in [Calls -> Outcomes \union {None}]
    BY <1>1 DEF Inv, TypeOK
  <2>3. CASE CallerAborts \/ UNCHANGED vars
    BY <1>1, <2>1, <2>3 DEF CallerAborts, vars, response
  <2>4. ASSUME NEW d \in Calls, TimerFires(d) \/ Drain(d)
        PROVE  signal'[c] = signal[c] /\ outcome' = outcome
    BY <1>1, <2>1, <2>4 DEF TimerFires, Drain
  <2>5. ASSUME NEW d \in Calls, Call(d), d # c
        PROVE  signal'[c] = signal[c] /\ outcome'[c] = outcome[c]
    BY <2>1, <2>2, <2>5 DEF Call, Decline, Start, TakeHeaders, Chunk, EndBody, NetworkFails,
        Interrupted, Finish
  <2>6. ASSUME Call(c)
        PROVE  /\ signal' = signal
               /\ outcome' = [outcome EXCEPT ![c] = IF signal[c] = "caller" THEN "aborted"
                                                                         ELSE "timeout"]
    <3>1. Interrupted(c)
      BY <1>1, <2>6 DEF Call, Decline, Start, TakeHeaders, Chunk, EndBody, NetworkFails, Running
    <3> QED  BY <3>1 DEF Interrupted, Finish
  <2> DEFINE Told == /\ signal'[c] = signal[c]
                     /\ outcome'[c] \in {None, IF signal[c] = "caller" THEN "aborted"
                                                                       ELSE "timeout"}
  <2>7. ASSUME NEW d \in Calls, Call(d) PROVE Told
    <3>1. CASE d = c
      BY <2>2, <2>6, <2>7, <3>1
    <3>2. CASE d # c
      BY <2>1, <2>5, <2>7, <3>2
    <3> QED  BY <3>1, <3>2
  <2>8. ASSUME CallerAborts \/ UNCHANGED vars PROVE Told
    BY <2>1, <2>3, <2>8
  <2>9. ASSUME NEW d \in Calls, TimerFires(d) \/ Drain(d) PROVE Told
    BY <2>1, <2>4, <2>9
  <2> HIDE DEF Told
  <2>10. ASSUME Next PROVE Told
    <3>1. CASE CallerAborts
      BY <2>8, <3>1
    <3>2. CASE \E d \in Calls : TimerFires(d) \/ Drain(d) \/ Call(d)
      <4> PICK d \in Calls : TimerFires(d) \/ Drain(d) \/ Call(d)
        BY <3>2
      <4> QED  BY <2>7, <2>9
    <3> QED  BY <2>10, <3>1, <3>2 DEF Next
  <2>11. Told
    BY <1>1, <2>8, <2>10
  <2> QED  BY <2>11 DEF Told
<1>2. Inv /\ [Next]_vars =>
        [\A c \in Calls : Running(c) /\ signal[c] # None =>
            /\ signal'[c] = signal[c]
            /\ outcome'[c] \in {None, IF signal[c] = "caller" THEN "aborted"
                                                              ELSE "timeout"}]_vars
  BY <1>1
<1> QED  BY <1>2, AlwaysInv, PTL DEF Spec, AbortIsAuthoritative

\* What ends a call: another call's steps do not, nor do timers and streams.
LEMMA EndsByItself ==
    ASSUME Inv, Next, NEW c \in Calls, NEW o \in Outcomes, Ends(c, o)
    PROVE  Call(c) /\ o # None
<1>1. None \notin Outcomes
  BY GraphAssumption DEF Outcomes
<1>2. outcome[c] = None /\ outcome'[c] = o /\ outcome'[c] # outcome[c]
  BY <1>1 DEF Ends
<1>3. ~CallerAborts
  BY <1>2 DEF CallerAborts
<1>4. ASSUME NEW d \in Calls, TimerFires(d) \/ Drain(d) PROVE FALSE
  BY <1>2, <1>4 DEF TimerFires, Drain
<1>5. ASSUME NEW d \in Calls, Call(d), d # c PROVE FALSE
  <2>1. outcome \in [Calls -> Outcomes \union {None}]
    BY DEF Inv, TypeOK
  <2> QED  BY <1>2, <1>5, <2>1 DEF Call, Decline, Start, TakeHeaders, Chunk, EndBody, NetworkFails,
               Interrupted, Finish
<1> QED  BY <1>1, <1>3, <1>4, <1>5 DEF Next

\* "Not modified" is only said of a document the application keeps, if no tag
\* has a star between commas; the run graph_tags shows what such a tag does.
THEOREM ConfirmationsAreKept ==
    ASSUME "star" \notin Tags
    PROVE  Spec => ConfirmedIsKept
<1>1. ASSUME Inv, Next, NEW c \in Calls, Ends(c, "not_modified")
      PROVE  asked[c] = {"*"} \/ tag'[c] \in docs
  <2>1. Call(c)
    BY <1>1, EndsByItself DEF Outcomes
  <2>2. /\ outcome \in [Calls -> Outcomes \union {None}] /\ tag \in [Calls -> Tags \union {None}]
        /\ docs \in SUBSET Tags /\ asked[c] \in (SUBSET docs) \union {{"*"}}
    BY <1>1 DEF Inv, TypeOK, Pending
  <2>3. outcome[c] = None /\ outcome'[c] = "not_modified"
    BY <1>1 DEF Ends
  <2>4. TakeHeaders(c)
    <3>1. ~Decline(c) /\ ~NetworkFails(c) /\ ~Interrupted(c)
      BY <2>2, <2>3 DEF Decline, NetworkFails, Interrupted, Finish
    <3>2. ~Start(c) /\ ~Chunk(c) /\ ~EndBody(c)
      BY <2>2, <2>3, GraphAssumption DEF Start, Chunk, EndBody, Finish
    <3> QED  BY <2>1, <3>1, <3>2 DEF Call
  <2>5. PICK r \in Replies : Refusal(c, r) = None /\ r.status = "304"
                            /\ Finish(c, "not_modified", r.tag)
    <3>1. PICK r \in Replies :
           \/ Refusal(c, r) # None /\ Finish(c, Refusal(c, r), None)
           \/ Refusal(c, r) = None /\ r.status = "304" /\ Finish(c, "not_modified", r.tag)
           \/ UNCHANGED outcome
      BY <2>4 DEF TakeHeaders
    <3>2. ~UNCHANGED outcome
      BY <2>3, GraphAssumption
    <3>3. Refusal(c, r) \in {"http_error", "invalid", "too_large", None}
      BY RefusalIsOutcome
    <3>4. ~(Refusal(c, r) # None /\ Finish(c, Refusal(c, r), None))
      BY <2>2, <2>3, <3>3 DEF Finish
    <3> QED  BY <3>1, <3>2, <3>4
  <2>6. r.tag # None /\ Matches(asked[c], r.tag)
    BY <2>5, GraphAssumption DEF Refusal
  <2>7. r.tag \in Tags
    BY <2>5, <2>6 DEF Replies
  <2>8. tag'[c] = r.tag
    BY <2>2, <2>5 DEF Finish
  <2> QED  BY <2>2, <2>6, <2>7, <2>8, MatchesNamed
<1>2. Inv /\ [Next]_vars =>
        [\A c \in Calls : Ends(c, "not_modified") =>
            asked[c] = {"*"} \/ tag'[c] \in docs]_vars
  BY <1>1
<1> QED  BY <1>2, AlwaysInv, PTL DEF Spec, ConfirmedIsKept

\* Documents change only when a body ends.
LEMMA OnlyBodiesAreKept ==
    ASSUME Inv, [Next]_vars
    PROVE  docs' = docs \/ \E c \in Calls : EndBody(c) /\ ~Differs(c)
<1>1. CASE UNCHANGED vars \/ CallerAborts
  BY <1>1 DEF vars, app, CallerAborts
<1>2. ASSUME NEW c \in Calls, TimerFires(c) \/ Drain(c) PROVE docs' = docs
  BY <1>2 DEF TimerFires, Drain, app
<1>3. ASSUME NEW c \in Calls, Decline(c) \/ Start(c) PROVE docs' = docs
  BY <1>3 DEF Decline, Start, app
<1>4. ASSUME NEW c \in Calls, TakeHeaders(c) \/ Chunk(c) PROVE docs' = docs
  BY <1>4 DEF TakeHeaders, Chunk
<1>5. ASSUME NEW c \in Calls, NetworkFails(c) \/ Interrupted(c) PROVE docs' = docs
  BY <1>5 DEF NetworkFails, Interrupted
<1>6. ASSUME NEW c \in Calls, EndBody(c), Differs(c) PROVE docs' = docs
  BY <1>6 DEF EndBody
<1> QED  BY <1>1, <1>2, <1>3, <1>4, <1>5, <1>6 DEF Next, Call

\* A document is only kept with the tag that came with a body of the announced
\* length, within the limit, and none is lost.
THEOREM KeptIsAlwaysComplete == Spec => KeptIsComplete
<1>1. ASSUME Inv, [Next]_vars, NEW c \in Calls, EndBody(c), ~Differs(c)
      PROVE  /\ docs' = docs \union {tag[c]} /\ Ends(c, "ok") /\ tag'[c] = tag[c]
             /\ taken[c] = announced[c] /\ taken[c] <= MaxBytes
  <2>1. /\ outcome \in [Calls -> Outcomes \union {None}] /\ tag \in [Calls -> Tags \union {None}]
        /\ taken[c] \in 0..MaxBytes /\ pc[c] = "reading" /\ outcome[c] = None
    BY <1>1 DEF Inv, TypeOK, Pending, EndBody
  <2>2. Finish(c, "ok", tag[c]) /\ docs' = docs \union {tag[c]}
    BY <1>1 DEF EndBody
  <2>3. outcome'[c] = "ok" /\ tag'[c] = tag[c]
    BY <2>1, <2>2 DEF Finish
  <2>4. taken[c] = announced[c] /\ taken[c] <= MaxBytes
    BY <1>1, <2>1, GraphAssumption DEF Differs
  <2> QED  BY <2>1, <2>2, <2>3, <2>4 DEF Ends
<1>2. ASSUME Inv, [Next]_vars
      PROVE  /\ docs \subseteq docs'
             /\ \A t \in docs' \ docs : \E c \in Calls :
                  /\ Ends(c, "ok") /\ tag[c] = t /\ tag'[c] = t
                  /\ taken[c] = announced[c] /\ taken[c] <= MaxBytes
  <2>1. CASE docs' = docs
    BY <2>1
  <2>2. CASE \E c \in Calls : EndBody(c) /\ ~Differs(c)
    BY <1>1, <1>2, <2>2
  <2> QED  BY <1>2, <2>1, <2>2, OnlyBodiesAreKept
<1>3. Inv /\ [Next]_vars =>
        [/\ docs \subseteq docs'
         /\ \A t \in docs' \ docs : \E c \in Calls :
              /\ Ends(c, "ok") /\ tag[c] = t /\ tag'[c] = t
              /\ taken[c] = announced[c] /\ taken[c] <= MaxBytes]_vars
  BY <1>2
<1> QED  BY <1>3, AlwaysInv, PTL DEF Spec, KeptIsComplete
=============================================================================
