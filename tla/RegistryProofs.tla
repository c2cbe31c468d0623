---------------------------- MODULE RegistryProofs ---------------------------
(***************************************************************************)
(* What RegistryOps guarantees for any number of calls, versions and SDKs. *)
(***************************************************************************)
EXTENDS RegistryOps, TLAPS

\* The SDKs whose HTTP library sends a write once.
SendOnce == \A s \in Sdks : ~ProfileOf[s].repeats

\* How far a call has got, and what that says of its sendings.
CallOK(c) ==
    /\ pc[c] = "idle" <=> request[c] = None
    /\ pc[c] = "idle" => attempts[c] = 0
    /\ pc[c] = "done" <=> outcome[c] # None
    /\ pc[c] \in {"waiting", "fetching"} => attempts[c] \in {1, 2}
    /\ attempts[c] = 2 => Op(c) = "publish" /\ p(c).repeats
    /\ verdict[c][1] # None => attempts[c] \in {1, 2}
    /\ verdict[c][2] # None => attempts[c] = 2
    /\ outcome[c] = "local" => attempts[c] = 0
    /\ outcome[c] = "invalid" => Op(c) = "download"
    /\ IsWrite(c) /\ outcome[c] \in {"ok", "refused"} =>
           attempts[c] \in {1, 2} /\ verdict[c][attempts[c]] = outcome[c]

\* A publish that is sent goes where its metadata says, if the SDK looks.
RouteOK(c) ==
    Op(c) = "publish" /\ attempts[c] # 0 /\ p(c).route # "given" =>
        request[c].meta = request[c].route

\* What a download holds on to.
DownloadOK(c) ==
    /\ Op(c) = "download" /\ verdict[c][1] = "ok" => pinned[c] # None
    /\ pinned[c] # None => Op(c) = "download" /\ pinned[c] = released[Route(c)]
    /\ pc[c] = "fetching" => Op(c) = "download" /\ verdict[c][1] = "ok"
    /\ Op(c) = "download" /\ outcome[c] = "ok" =>
           pinned[c] # None /\ got[c] = pinned[c]

\* The registry holds what the accepted writes left, and nothing else.
ReleasedOK ==
    /\ \A v \in Versions : released[v] # None =>
           /\ Op(released[v]) = "publish" /\ Route(released[v]) = v
           /\ attempts[released[v]] # 0
           /\ verdict[released[v]][1] = "ok" \/ verdict[released[v]][2] = "ok"
    /\ \A c \in Calls :
           Op(c) = "publish" /\ (verdict[c][1] = "ok" \/ verdict[c][2] = "ok") =>
               released[Route(c)] = c

OwnerOK ==
    \A s \in Slugs : owner[s] # None =>
        Op(owner[s]) = "claim" /\ verdict[owner[s]][1] = "ok"

AfterOK == \A c, d \in Calls : d \in after[c] => pc[d] = "done"

\* Once the registry has acted on the last word, it stands.
LastWord ==
    \A c \in Calls, v \in Versions :
        /\ Sets(c, v) /\ verdict[c][1] = "ok"
        /\ \A d \in Calls \ {c} : Sets(d, v) =>
                d \in after[c] /\ outcome[d] \in {"ok", "refused", "local"}
        => (v \in yanked <=> Op(c) = "yank")

IInv ==
    /\ TypeOK
    /\ \A c \in Calls : CallOK(c) /\ RouteOK(c) /\ DownloadOK(c)
    /\ ReleasedOK /\ OwnerOK /\ AfterOK /\ LastWord

-----------------------------------------------------------------------------
LEMMA RouteKinds ==
    ASSUME NEW s \in DOMAIN ProfileOf
    PROVE  ProfileOf[s].route \in {"derived", "compared", "given"}
<1>1. ProfileOf[s] \in {TypeScript, Python, Go, Rust, Java, Dart, Swift, Erlang, Gleam,
                        Wasm, Ruby, Php, Kotlin, Elixir}
  BY DEF ProfileOf
<1> QED
  BY <1>1 DEF Profile, TypeScript, Python, Go, Rust, Java, Dart, Swift, Erlang, Gleam,
              Wasm, Ruby, Php, Kotlin, Elixir

LEMMA RoutedFacts ==
    ASSUME NEW r \in Requests
    PROVE  /\ Routed(r) \in Requests
           /\ Routed(r).sdk = r.sdk /\ Routed(r).op = r.op /\ Routed(r).meta = r.meta
           /\ r.op = "publish" /\ ~Declines(r) /\ ProfileOf[r.sdk].route # "given" =>
                  Routed(r).meta = Routed(r).route
<1>1. ProfileOf[r.sdk].route \in {"derived", "compared", "given"}
  BY RouteKinds, SdksInOpsAssumption DEF Requests
<1>2. CASE r.op = "publish" /\ ProfileOf[r.sdk].route = "derived"
  BY <1>2 DEF Routed, Requests
<1>3. CASE ~(r.op = "publish" /\ ProfileOf[r.sdk].route = "derived")
  BY <1>1, <1>3 DEF Routed, Requests, Declines
<1> QED BY <1>2, <1>3

LEMMA InitInv == Init => IInv
<1> SUFFICES ASSUME Init PROVE IInv
  OBVIOUS
<1> USE RegistryAssumption DEF Init
<1>1. TypeOK
  BY DEF TypeOK
<1>2. ASSUME NEW c \in Calls PROVE CallOK(c) /\ RouteOK(c) /\ DownloadOK(c)
  BY DEF CallOK, RouteOK, DownloadOK, Op, IsWrite, Writes
<1>3. ReleasedOK /\ OwnerOK /\ AfterOK /\ LastWord
  BY DEF ReleasedOK, OwnerOK, AfterOK, LastWord, Sets, Op
<1> QED BY <1>1, <1>2, <1>3 DEF IInv

LEMMA FinishType ==
    ASSUME TypeOK, NEW c \in Calls, NEW o \in Outcomes, Finish(c, o)
    PROVE  /\ pc' \in [Calls -> {"idle", "waiting", "fetching", "done"}]
           /\ outcome' \in [Calls -> Outcomes \union {None}]
BY DEF Finish, TypeOK

LEMMA SentCall ==
    ASSUME TypeOK, NEW c \in Calls, Op(c) \in Writes \union {"download"}
    PROVE  /\ request[c] \in Requests /\ request[c] # None
           /\ Op(c) = request[c].op
           /\ Route(c) \in Versions /\ request[c].slug \in Slugs
<1>1. request[c] # None
  BY RegistryAssumption DEF Op, Writes
<1>2. request[c] \in Requests
  BY <1>1 DEF TypeOK
<1> QED BY <1>1, <1>2 DEF Op, Route, Requests

LEMMA StepType ==
    ASSUME TypeOK, \A c \in Calls : CallOK(c), [Next]_vars
    PROVE  TypeOK'
<1> USE RegistryAssumption
<1>1. ASSUME NEW c \in Calls, NEW r \in Requests, Call(c, r) PROVE TypeOK'
  <2>1. request' \in [Calls -> Requests \union {None}] /\ after' \in [Calls -> SUBSET Calls]
    BY <1>1, RoutedFacts DEF Call, TypeOK
  <2>2. CASE Declines(r)
    <3>1. Finish(c, "local") /\ UNCHANGED attempts /\ "local" \in Outcomes
      BY <1>1, <2>2 DEF Call, Outcomes
    <3> QED
      BY <1>1, <2>1, <3>1, FinishType DEF Call, TypeOK, registry
  <2>3. CASE ~Declines(r)
    <3>1. attempts' \in [Calls -> 0..2]
      BY <1>1, <2>3 DEF Call, TypeOK
    <3>2. pc' \in [Calls -> {"idle", "waiting", "fetching", "done"}]
      BY <1>1, <2>3 DEF Call, TypeOK
    <3> QED
      BY <1>1, <2>1, <2>3, <3>1, <3>2 DEF Call, TypeOK, registry
  <2> QED BY <2>2, <2>3
<1>2. ASSUME NEW c \in Calls, Answer(c) PROVE TypeOK'
  <2>1. attempts[c] \in {1, 2}
    BY <1>2 DEF Answer, CallOK
  <2>2. Heard(c) \in {"ok", "refused"} /\ Heard(c) \in Outcomes
    BY <1>2, <2>1 DEF Answer, Heard, TypeOK, Outcomes
  <2>3. /\ pc' \in [Calls -> {"idle", "waiting", "fetching", "done"}]
        /\ outcome' \in [Calls -> Outcomes \union {None}]
    <3>1. CASE Finish(c, Heard(c))
      BY <2>2, <3>1, FinishType
    <3>2. CASE pc' = [pc EXCEPT ![c] = "fetching"] /\ UNCHANGED outcome
      BY <3>2 DEF TypeOK
    <3> QED BY <1>2, <3>1, <3>2 DEF Answer
  <2> QED BY <1>2, <2>3 DEF Answer, TypeOK, registry, calls
<1>3. ASSUME NEW c \in Calls, Fail(c) PROVE TypeOK'
  <2>1. CASE attempts' = [attempts EXCEPT ![c] = 2] /\ UNCHANGED <<pc, outcome>>
    BY <1>3, <2>1 DEF Fail, TypeOK, registry
  <2>2. CASE Finish(c, "unknown") /\ UNCHANGED attempts
    <3>1. "unknown" \in Outcomes
      BY DEF Outcomes
    <3> QED BY <1>3, <2>2, <3>1, FinishType DEF Fail, TypeOK, registry
  <2> QED BY <1>3, <2>1, <2>2 DEF Fail
<1>4. ASSUME NEW c \in Calls, FetchArtifact(c) PROVE TypeOK'
  <2>1. PICK d \in Digests :
          \/ Finish(c, "ok") /\ got' = [got EXCEPT ![c] = d]
          \/ Finish(c, "invalid") /\ UNCHANGED got
    BY <1>4 DEF FetchArtifact
  <2>2. got' \in [Calls -> Digests \union {None}]
    BY <2>1 DEF TypeOK
  <2>3. "ok" \in Outcomes /\ "invalid" \in Outcomes
    BY DEF Outcomes
  <2>4. /\ pc' \in [Calls -> {"idle", "waiting", "fetching", "done"}]
        /\ outcome' \in [Calls -> Outcomes \union {None}]
    BY <2>1, <2>3, FinishType
  <2> QED BY <1>4, <2>2, <2>4 DEF FetchArtifact, TypeOK, registry, calls
<1>5. ASSUME NEW c \in Calls, NEW i \in 1..2,
             Release(c, i) \/ SetYanked(c, i) \/ Grant(c, i) \/ Lookup(c, i)
      PROVE  TypeOK'
  <2>1. verdict' \in [Calls -> [1..2 -> {None, "ok", "refused"}]]
    BY <1>5 DEF Release, SetYanked, Grant, Lookup, TypeOK
  <2>2. Op(c) \in Writes \union {"download"}
    BY <1>5 DEF Release, SetYanked, Grant, Lookup, Writes
  <2>3. Route(c) \in Versions /\ request[c].slug \in Slugs
    BY <2>2, SentCall
  <2>4. CASE Release(c, i)
    BY <2>1, <2>3, <2>4 DEF Release, TypeOK, calls
  <2>5. CASE SetYanked(c, i)
    BY <2>1, <2>3, <2>5 DEF SetYanked, TypeOK, calls
  <2>6. CASE Grant(c, i)
    <3>1. owner' \in [Slugs -> Calls \union {None}]
      BY <2>3, <2>6 DEF Grant, TypeOK
    <3> QED BY <2>1, <2>6, <3>1 DEF Grant, TypeOK, calls
  <2>7. CASE Lookup(c, i)
    BY <2>1, <2>3, <2>7 DEF Lookup, TypeOK, calls, registry, Digests
  <2> QED BY <1>5, <2>4, <2>5, <2>6, <2>7
<1>6. CASE UNCHANGED vars
  BY <1>6 DEF vars, TypeOK
<1> QED BY <1>1, <1>2, <1>3, <1>4, <1>5, <1>6 DEF Next, Client, Registry

\* What every step of the registry has in common.
Acts(c, i) == Release(c, i) \/ SetYanked(c, i) \/ Grant(c, i) \/ Lookup(c, i)

LEMMA ActsFacts ==
    ASSUME TypeOK, NEW c \in Calls, CallOK(c), NEW i \in 1..2, Acts(c, i)
    PROVE  /\ i \in {1, 2} /\ attempts[c] \in {1, 2} /\ (i = 2 => attempts[c] = 2)
           /\ verdict[c][i] = None
           /\ \E e \in {"ok", "refused"} : verdict' = [verdict EXCEPT ![c][i] = e]
           /\ verdict'[c][i] \in {"ok", "refused"}
           /\ \A d \in Calls, j \in {1, 2} :
                  d # c \/ j # i => verdict'[d][j] = verdict[d][j]
           /\ UNCHANGED <<request, attempts, after, pc, outcome, got>>
<1>1. Sent(c, i) /\ UNCHANGED <<request, attempts, after, pc, outcome, got>>
  BY DEF Acts, Release, SetYanked, Grant, Lookup, calls
<1>2. PICK e \in {"ok", "refused"} : verdict' = [verdict EXCEPT ![c][i] = e]
  BY DEF Acts, Release, SetYanked, Grant, Lookup
<1>3. i \in {1, 2} /\ attempts[c] \in {1, 2} /\ (i = 2 => attempts[c] = 2)
  BY <1>1 DEF Sent, TypeOK
<1>4. verdict'[c][i] = e
  BY <1>2, <1>3 DEF TypeOK
<1>5. ASSUME NEW d \in Calls, NEW j \in {1, 2}, d # c \/ j # i
      PROVE  verdict'[d][j] = verdict[d][j]
  BY <1>2, <1>3, <1>5 DEF TypeOK
<1> QED BY <1>1, <1>2, <1>3, <1>4, <1>5 DEF Sent

\* A call that a step leaves alone stays well formed.
LEMMA CallFrame ==
    ASSUME NEW d \in Calls, CallOK(d), RouteOK(d),
           request'[d] = request[d], pc'[d] = pc[d], attempts'[d] = attempts[d],
           verdict'[d] = verdict[d], outcome'[d] = outcome[d]
    PROVE  CallOK(d)' /\ RouteOK(d)'
BY DEF CallOK, RouteOK, Op, IsWrite, p

LEMMA StepCall ==
    ASSUME IInv, TypeOK', [Next]_vars, NEW d \in Calls
    PROVE  CallOK(d)' /\ RouteOK(d)'
<1> USE RegistryAssumption
<1>0. TypeOK /\ CallOK(d) /\ RouteOK(d) /\ \A c \in Calls : CallOK(c)
  BY DEF IInv
<1>1. ASSUME NEW c \in Calls, NEW r \in Requests, Call(c, r)
      PROVE  CallOK(d)' /\ RouteOK(d)'
  <2>1. CASE d = c
    <3>1. /\ request'[d] = Routed(r) /\ request'[d] # None
          /\ Op(d)' = r.op /\ p(d)' = ProfileOf[r.sdk]
      BY <1>0, <1>1, <2>1, RoutedFacts DEF Call, TypeOK, Op, p
    <3>2. verdict'[d][1] = None /\ verdict'[d][2] = None
      BY <1>0, <1>1, <2>1 DEF Call, CallOK, TypeOK
    <3>3. CASE Declines(r)
      <4>1. pc'[d] = "done" /\ outcome'[d] = "local" /\ attempts'[d] = 0
        BY <1>0, <1>1, <2>1, <3>3 DEF Call, Finish, TypeOK, CallOK
      <4> QED BY <3>1, <3>2, <4>1 DEF CallOK, RouteOK
    <3>4. CASE ~Declines(r)
      <4>1. pc'[d] = "waiting" /\ outcome'[d] = None /\ attempts'[d] = 1
        BY <1>0, <1>1, <2>1, <3>4 DEF Call, TypeOK, CallOK
      <4>2. RouteOK(d)'
        BY <3>1, <3>4, RoutedFacts DEF RouteOK
      <4> QED BY <3>1, <3>2, <4>1, <4>2 DEF CallOK
    <3> QED BY <3>3, <3>4
  <2>2. CASE d # c
    BY <1>0, <1>1, <2>2, CallFrame DEF Call, Finish, TypeOK
  <2> QED BY <2>1, <2>2
<1>2. ASSUME NEW c \in Calls, Answer(c) PROVE CallOK(d)' /\ RouteOK(d)'
  <2>1. CASE d = c
    <3>1. /\ Op(d)' = Op(d) /\ IsWrite(d)' = IsWrite(d) /\ p(d)' = p(d)
          /\ request'[d] = request[d] /\ attempts'[d] = attempts[d] /\ verdict' = verdict
      BY <1>2 DEF Answer, calls, Op, IsWrite, p
    <3>2. pc[d] = "waiting" /\ attempts[d] \in {1, 2} /\ Heard(d) \in {"ok", "refused"}
      BY <1>0, <1>2, <2>1 DEF Answer, CallOK, Heard, TypeOK
    <3>3. \/ pc'[d] = "fetching" /\ outcome'[d] = outcome[d]
          \/ pc'[d] = "done" /\ outcome'[d] = Heard(d)
      BY <1>0, <1>2, <2>1 DEF Answer, Finish, TypeOK
    <3> QED BY <1>0, <3>1, <3>2, <3>3 DEF CallOK, RouteOK, Heard
  <2>2. CASE d # c
    BY <1>0, <1>2, <2>2, CallFrame DEF Answer, Finish, TypeOK, calls
  <2> QED BY <2>1, <2>2
<1>3. ASSUME NEW c \in Calls, Fail(c) PROVE CallOK(d)' /\ RouteOK(d)'
  <2>1. CASE d = c
    <3>1. /\ Op(d)' = Op(d) /\ IsWrite(d)' = IsWrite(d) /\ p(d)' = p(d)
          /\ request'[d] = request[d] /\ verdict' = verdict
      BY <1>3 DEF Fail, Op, IsWrite, p
    <3>2. CASE pc[c] = "waiting" /\ Repeats(c)
      <4>1. /\ attempts'[d] = 2 /\ attempts[d] = 1 /\ pc'[d] = pc[d]
            /\ outcome'[d] = outcome[d] /\ Op(d) = "publish" /\ p(d).repeats
        BY <1>0, <1>3, <2>1, <3>2 DEF Fail, Repeats, TypeOK
      <4> QED BY <1>0, <2>1, <3>1, <3>2, <4>1 DEF CallOK, RouteOK
    <3>3. CASE ~(pc[c] = "waiting" /\ Repeats(c))
      <4>1. pc'[d] = "done" /\ outcome'[d] = "unknown" /\ attempts'[d] = attempts[d]
            /\ pc[d] \in {"waiting", "fetching"}
        BY <1>0, <1>3, <2>1, <3>3 DEF Fail, Finish, TypeOK
      <4> QED BY <1>0, <3>1, <4>1 DEF CallOK, RouteOK
    <3> QED BY <3>2, <3>3
  <2>2. CASE d # c
    BY <1>0, <1>3, <2>2, CallFrame DEF Fail, Finish, TypeOK
  <2> QED BY <2>1, <2>2
<1>4. ASSUME NEW c \in Calls, FetchArtifact(c) PROVE CallOK(d)' /\ RouteOK(d)'
  <2>1. CASE d = c
    <3>1. /\ Op(d)' = Op(d) /\ IsWrite(d)' = IsWrite(d) /\ p(d)' = p(d)
          /\ request'[d] = request[d] /\ attempts'[d] = attempts[d] /\ verdict' = verdict
      BY <1>4 DEF FetchArtifact, calls, Op, IsWrite, p
    <3>2. /\ pc[d] = "fetching" /\ pc'[d] = "done" /\ outcome'[d] \in {"ok", "invalid"}
          /\ Op(d) = "download"
      BY <1>0, <1>4, <2>1 DEF FetchArtifact, Finish, TypeOK, IInv, DownloadOK
    <3> QED BY <1>0, <3>1, <3>2 DEF CallOK, RouteOK, IsWrite, Writes
  <2>2. CASE d # c
    BY <1>0, <1>4, <2>2, CallFrame DEF FetchArtifact, Finish, TypeOK, calls
  <2> QED BY <2>1, <2>2
<1>5. ASSUME NEW c \in Calls, NEW i \in 1..2, Acts(c, i) PROVE CallOK(d)' /\ RouteOK(d)'
  <2>1. /\ request' = request /\ attempts' = attempts /\ pc' = pc /\ outcome' = outcome
        /\ attempts[c] \in {1, 2} /\ (i = 2 => attempts[c] = 2) /\ verdict[c][i] = None
        /\ \A e \in Calls, j \in {1, 2} : e # c \/ j # i => verdict'[e][j] = verdict[e][j]
    BY <1>0, <1>5, ActsFacts
  <2>2. Op(d)' = Op(d) /\ IsWrite(d)' = IsWrite(d) /\ p(d)' = p(d)
    BY <2>1 DEF Op, IsWrite, p
  <2>3. RouteOK(d)'
    BY <1>0, <2>1, <2>2 DEF RouteOK
  <2>4. i \in {1, 2}
    BY <1>0, <1>5, ActsFacts
  <2>5. CallOK(d)'
    BY <1>0, <2>1, <2>2, <2>4 DEF CallOK
  <2> QED BY <2>3, <2>5
<1>6. CASE UNCHANGED vars
  BY <1>0, <1>6, CallFrame DEF vars
<1> QED BY <1>1, <1>2, <1>3, <1>4, <1>5, <1>6 DEF Next, Client, Registry, Acts

\* Everything but a new call keeps the requests; the sendings only add up.
LEMMA Kept ==
    ASSUME TypeOK, NEW c \in Calls, CallOK(c), Answer(c) \/ Fail(c) \/ FetchArtifact(c)
    PROVE  /\ UNCHANGED <<request, after, verdict, pinned, released, yanked, owner>>
           /\ pc[c] \in {"waiting", "fetching"}
           /\ \A d \in Calls : attempts[d] # 0 => attempts'[d] # 0
           /\ \A d \in Calls \ {c} :
                  pc'[d] = pc[d] /\ outcome'[d] = outcome[d] /\ got'[d] = got[d]
<1>1. CASE Answer(c)
  BY <1>1 DEF Answer, Finish, TypeOK, calls, registry
<1>2. CASE Fail(c)
  BY <1>2 DEF Fail, Finish, TypeOK, registry
<1>3. CASE FetchArtifact(c)
  BY <1>3 DEF FetchArtifact, Finish, TypeOK, calls, registry
<1> QED BY <1>1, <1>2, <1>3

LEMMA Begun ==
    ASSUME IInv, NEW c \in Calls, NEW r \in Requests, Call(c, r)
    PROVE  /\ pc[c] = "idle" /\ Op(c) = None /\ verdict[c][1] = None /\ verdict[c][2] = None
           /\ UNCHANGED <<verdict, pinned, got, released, yanked, owner>>
           /\ pc'[c] # "fetching" /\ outcome'[c] # "ok"
           /\ \A d \in Calls \ {c} :
                  /\ request'[d] = request[d] /\ attempts'[d] = attempts[d]
                  /\ pc'[d] = pc[d] /\ outcome'[d] = outcome[d] /\ after'[d] = after[d]
           /\ after'[c] = {d \in Calls : pc[d] = "done"}
<1>0. TypeOK /\ CallOK(c)
  BY DEF IInv
<1>1. pc[c] = "idle" /\ request[c] = None /\ outcome[c] = None
  BY <1>0 DEF Call, CallOK
<1>2. Op(c) = None /\ verdict[c][1] = None /\ verdict[c][2] = None
  BY <1>0, <1>1 DEF CallOK, Op
<1>3. /\ UNCHANGED <<verdict, pinned, got, released, yanked, owner>>
      /\ after'[c] = {d \in Calls : pc[d] = "done"}
  BY <1>0 DEF Call, TypeOK, registry
<1>4. pc'[c] # "fetching" /\ outcome'[c] # "ok"
  BY <1>0, <1>1, RegistryAssumption DEF Call, Finish, TypeOK
<1>5. ASSUME NEW d \in Calls \ {c}
      PROVE  /\ request'[d] = request[d] /\ attempts'[d] = attempts[d]
             /\ pc'[d] = pc[d] /\ outcome'[d] = outcome[d] /\ after'[d] = after[d]
  BY <1>0 DEF Call, Finish, TypeOK
<1> QED BY <1>1, <1>2, <1>3, <1>4, <1>5

LEMMA StepReleased ==
    ASSUME IInv, TypeOK', [Next]_vars
    PROVE  ReleasedOK'
<1> USE RegistryAssumption DEF Writes
<1>0. TypeOK /\ ReleasedOK /\ \A c \in Calls : CallOK(c)
  BY DEF IInv
<1>1. ASSUME NEW c \in Calls, NEW r \in Requests, Call(c, r) PROVE ReleasedOK'
  <2>1. /\ Op(c) = None /\ verdict[c][1] = None /\ verdict[c][2] = None
        /\ verdict' = verdict /\ released' = released
        /\ \A d \in Calls \ {c} : request'[d] = request[d] /\ attempts'[d] = attempts[d]
    BY <1>1, Begun
  <2>2. \A d \in Calls \ {c} : Op(d)' = Op(d) /\ Route(d)' = Route(d)
    BY <2>1 DEF Op, Route
  <2>3. \A v \in Versions : released[v] # None => released[v] \in Calls \ {c}
    BY <1>0, <2>1 DEF ReleasedOK, TypeOK
  <2> QED BY <1>0, <2>1, <2>2, <2>3 DEF ReleasedOK
<1>2. ASSUME NEW c \in Calls, Answer(c) \/ Fail(c) \/ FetchArtifact(c) PROVE ReleasedOK'
  <2>1. /\ UNCHANGED <<request, verdict, released>>
        /\ \A d \in Calls : attempts[d] # 0 => attempts'[d] # 0
    BY <1>0, <1>2, Kept
  <2>2. \A d \in Calls : Op(d)' = Op(d) /\ Route(d)' = Route(d)
    BY <2>1 DEF Op, Route
  <2>3. \A v \in Versions : released[v] # None => released[v] \in Calls
    BY <1>0 DEF TypeOK
  <2> QED BY <1>0, <2>1, <2>2, <2>3 DEF ReleasedOK
<1>3. ASSUME NEW c \in Calls, NEW i \in 1..2, Acts(c, i) PROVE ReleasedOK'
  <2>1. /\ i \in {1, 2} /\ attempts[c] \in {1, 2} /\ verdict[c][i] = None
        /\ \A d \in Calls, j \in {1, 2} : d # c \/ j # i => verdict'[d][j] = verdict[d][j]
        /\ UNCHANGED <<request, attempts>>
    BY <1>0, <1>3, ActsFacts
  <2>2. \A d \in Calls : Op(d)' = Op(d) /\ Route(d)' = Route(d)
    BY <2>1 DEF Op, Route
  <2>3. \A v \in Versions : released[v] # None => released[v] \in Calls
    BY <1>0 DEF TypeOK
  <2>4. CASE Release(c, i) /\ Authorised(c) /\ released[Route(c)] = None
    <3>1. Op(c) = "publish" /\ Route(c) \in Versions
      BY <1>0, <2>4, SentCall DEF Release
    <3>2. /\ released'[Route(c)] = c /\ verdict'[c][i] = "ok"
          /\ \A v \in Versions \ {Route(c)} : released'[v] = released[v]
      BY <1>0, <2>1, <2>4, <3>1 DEF Release, TypeOK
    <3>3. \A d \in Calls, j \in {1, 2} : verdict[d][j] = "ok" => verdict'[d][j] = "ok"
      BY <2>1
    <3>4. \A d \in Calls, j \in {1, 2} :
              d # c /\ verdict'[d][j] = "ok" => verdict[d][j] = "ok"
      BY <2>1
    <3>5. ASSUME NEW v \in Versions, NEW e \in Calls, released'[v] = e
          PROVE  /\ Op(e)' = "publish" /\ Route(e)' = v /\ attempts'[e] # 0
                 /\ verdict'[e][1] = "ok" \/ verdict'[e][2] = "ok"
      <4>1. CASE v = Route(c)
        <5>1. e = c
          BY <3>2, <3>5, <4>1
        <5> QED BY <2>1, <2>2, <3>1, <3>2, <4>1, <5>1
      <4>2. CASE v # Route(c)
        <5>1. released[v] = e /\ e # None
          BY <3>2, <3>5, <4>2
        <5>2. /\ Op(e) = "publish" /\ Route(e) = v /\ attempts[e] # 0
              /\ verdict[e][1] = "ok" \/ verdict[e][2] = "ok"
          BY <1>0, <5>1 DEF ReleasedOK
        <5> QED BY <2>1, <2>2, <3>3, <5>2
      <4> QED BY <4>1, <4>2
    <3>6. ASSUME NEW d \in Calls, Op(d)' = "publish",
                 verdict'[d][1] = "ok" \/ verdict'[d][2] = "ok"
          PROVE  (released[Route(d)] = d)'
      <4>1. CASE d = c
        BY <2>2, <3>2, <4>1
      <4>2. CASE d # c
        <5>1. Op(d) = "publish" /\ released[Route(d)] = d /\ Route(d) \in Versions
          BY <1>0, <2>2, <3>4, <3>6, <4>2, SentCall DEF ReleasedOK
        <5>2. Route(d) # Route(c)
          BY <2>4, <5>1
        <5> QED BY <2>2, <3>2, <5>1, <5>2
      <4> QED BY <4>1, <4>2
    <3>7. \A v \in Versions : released'[v] # None => released'[v] \in Calls
      BY DEF TypeOK
    <3>8. ASSUME NEW v \in Versions, released'[v] # None
          PROVE  (/\ Op(released[v]) = "publish" /\ Route(released[v]) = v
                  /\ attempts[released[v]] # 0
                  /\ verdict[released[v]][1] = "ok" \/ verdict[released[v]][2] = "ok")'
      <4>1. PICK e \in Calls : released'[v] = e
        BY <3>7, <3>8
      <4> QED BY <3>5, <4>1 DEF Op, Route
    <3> QED BY <3>6, <3>8 DEF ReleasedOK
  <2>5. CASE ~(Release(c, i) /\ Authorised(c) /\ released[Route(c)] = None)
    <3>1. released' = released /\ (Op(c) = "publish" => verdict'[c][i] = "refused")
      BY <1>0, <1>3, <2>1, <2>5 DEF Acts, Release, SetYanked, Grant, Lookup, TypeOK, registry
    <3>2. \A d \in Calls, j \in {1, 2} : verdict[d][j] = "ok" => verdict'[d][j] = "ok"
      BY <2>1
    <3>3. \A d \in Calls, j \in {1, 2} :
              Op(d) = "publish" /\ verdict'[d][j] = "ok" => verdict[d][j] = "ok"
      BY <2>1, <3>1
    <3> QED BY <1>0, <2>1, <2>2, <2>3, <3>1, <3>2, <3>3 DEF ReleasedOK
  <2> QED BY <2>4, <2>5
<1>4. CASE UNCHANGED vars
  BY <1>0, <1>4 DEF vars, ReleasedOK, Op, Route
<1> QED BY <1>1, <1>2, <1>3, <1>4 DEF Next, Client, Registry, Acts

LEMMA StepOwner ==
    ASSUME IInv, TypeOK', [Next]_vars
    PROVE  OwnerOK'
<1> USE RegistryAssumption
<1>0. TypeOK /\ OwnerOK /\ \A c \in Calls : CallOK(c)
  BY DEF IInv
<1>a. \A s \in Slugs : owner[s] # None => owner[s] \in Calls
  BY <1>0 DEF TypeOK
<1>1. ASSUME NEW c \in Calls, NEW r \in Requests, Call(c, r) PROVE OwnerOK'
  <2>1. /\ verdict[c][1] = None /\ verdict' = verdict /\ owner' = owner
        /\ \A d \in Calls \ {c} : request'[d] = request[d]
    BY <1>1, Begun
  <2>2. \A d \in Calls \ {c} : Op(d)' = Op(d)
    BY <2>1 DEF Op
  <2>3. \A s \in Slugs : owner[s] # None => owner[s] \in Calls \ {c}
    BY <1>0, <1>a, <2>1 DEF OwnerOK
  <2> QED BY <1>0, <2>1, <2>2, <2>3 DEF OwnerOK
<1>2. ASSUME NEW c \in Calls, Answer(c) \/ Fail(c) \/ FetchArtifact(c) PROVE OwnerOK'
  <2>1. UNCHANGED <<request, verdict, owner>>
    BY <1>0, <1>2, Kept
  <2> QED BY <1>0, <2>1 DEF OwnerOK, Op
<1>3. ASSUME NEW c \in Calls, NEW i \in 1..2, Acts(c, i) PROVE OwnerOK'
  <2>1. /\ i \in {1, 2} /\ attempts[c] \in {1, 2} /\ (i = 2 => attempts[c] = 2)
        /\ verdict[c][i] = None
        /\ \A d \in Calls, j \in {1, 2} : d # c \/ j # i => verdict'[d][j] = verdict[d][j]
        /\ UNCHANGED request
    BY <1>0, <1>3, ActsFacts
  <2>2. \A d \in Calls : Op(d)' = Op(d)
    BY <2>1 DEF Op
  <2>3. \A d \in Calls : verdict[d][1] = "ok" => verdict'[d][1] = "ok"
    BY <2>1
  <2>4. CASE owner' = owner
    BY <1>0, <1>a, <2>2, <2>3, <2>4 DEF OwnerOK
  <2>5. CASE owner' # owner
    <3>1. Grant(c, i)
      BY <1>3, <2>5 DEF Acts, Release, SetYanked, Lookup, registry
    <3>2. Op(c) = "claim"
      BY <3>1 DEF Grant
    <3>3. i = 1
      BY <1>0, <2>1, <3>2 DEF CallOK
    <3>4. verdict'[c][1] = "ok" /\ owner' = [owner EXCEPT ![request[c].slug] = c]
      BY <1>0, <2>5, <3>1, <3>3 DEF Grant, TypeOK
    <3>5. ASSUME NEW s \in Slugs, owner'[s] # None
          PROVE  owner'[s] = c \/ (owner'[s] = owner[s] /\ owner[s] \in Calls)
      BY <1>0, <1>a, <3>4, <3>5 DEF TypeOK
    <3>6. \A e \in Calls : (\E s \in Slugs : owner'[s] = e) =>
              Op(e)' = "claim" /\ verdict'[e][1] = "ok"
      BY <1>0, <2>2, <2>3, <3>2, <3>4, <3>5 DEF OwnerOK
    <3>7. \A s \in Slugs : owner'[s] # None => owner'[s] \in Calls
      BY <3>5
    <3> QED BY <3>6, <3>7 DEF OwnerOK, Op
  <2> QED BY <2>4, <2>5
<1>4. CASE UNCHANGED vars
  BY <1>0, <1>4 DEF vars, OwnerOK, Op
<1> QED BY <1>1, <1>2, <1>3, <1>4 DEF Next, Client, Registry, Acts

LEMMA StepAfter ==
    ASSUME IInv, [Next]_vars
    PROVE  AfterOK'
<1>0. TypeOK /\ AfterOK /\ \A c \in Calls : CallOK(c)
  BY DEF IInv
<1>1. ASSUME NEW c \in Calls, NEW r \in Requests, Call(c, r) PROVE AfterOK'
  BY <1>0, <1>1, Begun DEF AfterOK
<1>2. ASSUME NEW c \in Calls, Answer(c) \/ Fail(c) \/ FetchArtifact(c) PROVE AfterOK'
  BY <1>0, <1>2, Kept DEF AfterOK
<1>3. ASSUME NEW c \in Calls, NEW i \in 1..2, Acts(c, i) PROVE AfterOK'
  BY <1>0, <1>3, ActsFacts DEF AfterOK
<1>4. CASE UNCHANGED vars
  BY <1>0, <1>4 DEF vars, AfterOK
<1> QED BY <1>1, <1>2, <1>3, <1>4 DEF Next, Client, Registry, Acts

LEMMA StepDownload ==
    ASSUME IInv, TypeOK', [Next]_vars, NEW d \in Calls
    PROVE  DownloadOK(d)'
<1> USE RegistryAssumption
<1>0. TypeOK /\ CallOK(d) /\ DownloadOK(d) /\ \A c \in Calls : CallOK(c)
  BY DEF IInv
<1>1. ASSUME NEW c \in Calls, NEW r \in Requests, Call(c, r) PROVE DownloadOK(d)'
  <2>1. /\ Op(c) = None /\ UNCHANGED <<verdict, pinned, got, released>>
        /\ verdict[c][1] = None /\ pc'[c] # "fetching" /\ outcome'[c] # "ok"
        /\ \A e \in Calls \ {c} :
               request'[e] = request[e] /\ pc'[e] = pc[e] /\ outcome'[e] = outcome[e]
    BY <1>1, Begun
  <2>2. CASE d = c
    <3>1. pinned[d] = None
      BY <1>0, <2>1, <2>2 DEF DownloadOK
    <3> QED BY <2>1, <2>2, <3>1 DEF DownloadOK
  <2>3. CASE d # c
    <3>1. Op(d)' = Op(d) /\ Route(d)' = Route(d)
      BY <2>1, <2>3 DEF Op, Route
    <3> QED BY <1>0, <2>1, <2>3, <3>1 DEF DownloadOK
  <2> QED BY <2>2, <2>3
<1>2. ASSUME NEW c \in Calls, Answer(c) \/ Fail(c) \/ FetchArtifact(c) PROVE DownloadOK(d)'
  <2>1. /\ UNCHANGED <<request, verdict, pinned, released>>
        /\ pc[c] \in {"waiting", "fetching"}
        /\ \A e \in Calls \ {c} :
               pc'[e] = pc[e] /\ outcome'[e] = outcome[e] /\ got'[e] = got[e]
    BY <1>0, <1>2, Kept
  <2>2. Op(d)' = Op(d) /\ Route(d)' = Route(d)
    BY <2>1 DEF Op, Route
  <2>3. CASE d # c
    BY <1>0, <2>1, <2>2, <2>3 DEF DownloadOK
  <2>4. CASE d = c /\ Answer(c)
    <3>1. pc[d] = "waiting" /\ got' = got
      BY <2>4 DEF Answer
    <3>2. CASE Op(c) = "download" /\ Heard(c) = "ok"
      <4>1. pc'[d] = "fetching" /\ outcome'[d] = outcome[d]
        BY <1>0, <2>4, <3>2 DEF Answer, TypeOK
      <4>2. attempts[d] = 1
        BY <1>0, <2>4, <3>1, <3>2 DEF CallOK
      <4>3. verdict[d][1] = "ok"
        BY <2>4, <3>2, <4>2 DEF Heard
      <4> QED BY <1>0, <2>1, <2>2, <2>4, <3>1, <3>2, <4>1, <4>3 DEF DownloadOK
    <3>3. CASE ~(Op(c) = "download" /\ Heard(c) = "ok")
      <4>1. pc'[d] = "done" /\ outcome'[d] = Heard(d)
        BY <1>0, <2>4, <3>3 DEF Answer, Finish, TypeOK
      <4> QED BY <1>0, <2>1, <2>2, <2>4, <3>1, <3>3, <4>1 DEF DownloadOK
    <3> QED BY <3>2, <3>3
  <2>5. CASE d = c /\ Fail(c)
    <3>1. got' = got
      BY <2>5 DEF Fail
    <3>2. \/ pc'[d] = pc[d] /\ outcome'[d] = outcome[d]
          \/ pc'[d] = "done" /\ outcome'[d] = "unknown"
      BY <1>0, <2>5 DEF Fail, Finish, TypeOK
    <3> QED BY <1>0, <2>1, <2>2, <3>1, <3>2 DEF DownloadOK
  <2>6. CASE d = c /\ FetchArtifact(c)
    <3>1. pc[d] = "fetching" /\ pc'[d] = "done"
      BY <1>0, <2>6 DEF FetchArtifact, Finish, TypeOK
    <3>2. pinned[d] # None
      BY <1>0, <3>1 DEF DownloadOK
    <3>3. \/ outcome'[d] = "invalid"
          \/ outcome'[d] = "ok" /\ got'[d] = pinned[d]
      BY <1>0, <2>6 DEF FetchArtifact, Finish, Matches, TypeOK
    <3> QED BY <1>0, <2>1, <2>2, <3>1, <3>2, <3>3 DEF DownloadOK
  <2> QED BY <1>2, <2>3, <2>4, <2>5, <2>6
<1>3. ASSUME NEW c \in Calls, NEW i \in 1..2, Acts(c, i) PROVE DownloadOK(d)'
  <2>1. /\ i \in {1, 2} /\ attempts[c] \in {1, 2} /\ (i = 2 => attempts[c] = 2)
        /\ verdict[c][i] = None
        /\ \A e \in Calls, j \in {1, 2} : e # c \/ j # i => verdict'[e][j] = verdict[e][j]
        /\ UNCHANGED <<request, pc, outcome, got>>
    BY <1>0, <1>3, ActsFacts
  <2>2. Op(d)' = Op(d) /\ Route(d)' = Route(d)
    BY <2>1 DEF Op, Route
  <2>3. CASE Lookup(c, i)
    <3>1. Op(c) = "download" /\ released' = released
      BY <2>3 DEF Lookup, registry
    <3>2. i = 1
      BY <1>0, <2>1, <3>1 DEF CallOK
    <3>3. CASE d # c
      <4>1. pinned'[d] = pinned[d] /\ verdict'[d][1] = verdict[d][1]
        BY <1>0, <2>1, <2>3, <3>3 DEF Lookup, TypeOK
      <4> QED BY <1>0, <2>1, <2>2, <3>1, <4>1 DEF DownloadOK
    <3>4. CASE d = c /\ released[Route(c)] # None
      <4>1. pinned'[d] = released[Route(d)] /\ verdict'[d][1] = "ok"
        BY <1>0, <2>3, <3>2, <3>4 DEF Lookup, TypeOK
      <4> QED BY <1>0, <2>1, <2>2, <3>1, <3>4, <4>1 DEF DownloadOK
    <3>5. CASE d = c /\ released[Route(c)] = None
      <4>1. pinned' = pinned /\ verdict'[d][1] = "refused"
        BY <1>0, <2>3, <3>2, <3>5 DEF Lookup, TypeOK
      <4>2. verdict[d][1] = None
        BY <2>1, <3>2, <3>5
      <4> QED BY <1>0, <2>1, <2>2, <3>1, <4>1, <4>2 DEF DownloadOK
    <3> QED BY <3>3, <3>4, <3>5
  <2>4. CASE ~Lookup(c, i)
    <3>1. pinned' = pinned /\ Op(c) # "download"
      BY <1>3, <2>4 DEF Acts, Release, SetYanked, Grant
    <3>2. Op(d) = "download" => verdict'[d][1] = verdict[d][1]
      BY <2>1, <3>1
    <3>3. pinned[d] # None => released'[Route(d)] = released[Route(d)]
      <4>1. CASE released' = released
        BY <4>1
      <4>2. CASE released' # released
        <5>1. Release(c, i) /\ released[Route(c)] = None
          BY <1>3, <2>4, <4>2 DEF Acts, Release, SetYanked, Grant
        <5>2. released' = [released EXCEPT ![Route(c)] = c]
          BY <4>2, <5>1 DEF Release
        <5>3. pinned[d] # None => Route(d) # Route(c) /\ Op(d) = "download"
          BY <1>0, <5>1 DEF DownloadOK
        <5>4. pinned[d] # None => Route(d) \in Versions
          BY <1>0, <5>3, SentCall
        <5> QED BY <1>0, <5>2, <5>3, <5>4 DEF TypeOK
      <4> QED BY <4>1, <4>2
    <3> QED BY <1>0, <2>1, <2>2, <3>1, <3>2, <3>3 DEF DownloadOK
  <2> QED BY <2>3, <2>4
<1>4. CASE UNCHANGED vars
  BY <1>0, <1>4 DEF vars, DownloadOK, Op, Route
<1> QED BY <1>1, <1>2, <1>3, <1>4 DEF Next, Client, Registry, Acts

LEMMA StepLastWord ==
    ASSUME IInv, TypeOK', [Next]_vars
    PROVE  LastWord'
<1> USE RegistryAssumption DEF Writes
<1>0. TypeOK /\ LastWord /\ AfterOK /\ \A c \in Calls : CallOK(c)
  BY DEF IInv
<1>1. ASSUME NEW k \in Calls, NEW r \in Requests, Call(k, r) PROVE LastWord'
  <2>1. /\ pc[k] = "idle" /\ Op(k) = None /\ verdict[k][1] = None
        /\ UNCHANGED <<verdict, yanked>>
        /\ \A e \in Calls \ {k} :
               request'[e] = request[e] /\ outcome'[e] = outcome[e] /\ after'[e] = after[e]
    BY <1>1, Begun
  <2>2. SUFFICES ASSUME NEW c \in Calls, NEW v \in Versions,
                        Sets(c, v)', verdict'[c][1] = "ok",
                        \A d \in Calls \ {c} : Sets(d, v)' =>
                            d \in after'[c] /\ outcome'[d] \in {"ok", "refused", "local"}
                 PROVE  (v \in yanked <=> Op(c) = "yank")'
    BY DEF LastWord
  <2>3. c # k
    BY <2>1, <2>2
  <2>4. \A e \in Calls \ {k} : Op(e)' = Op(e) /\ Sets(e, v)' = Sets(e, v)
    BY <2>1 DEF Sets, Op, Route
  <2>5. \A d \in Calls \ {c} : Sets(d, v) =>
            d \in after[c] /\ outcome[d] \in {"ok", "refused", "local"}
    BY <2>1, <2>2, <2>3, <2>4 DEF Sets
  <2>6. v \in yanked <=> Op(c) = "yank"
    BY <1>0, <2>1, <2>2, <2>3, <2>4, <2>5 DEF LastWord
  <2> QED BY <2>1, <2>3, <2>4, <2>6
<1>2. ASSUME NEW k \in Calls, Answer(k) \/ Fail(k) \/ FetchArtifact(k) PROVE LastWord'
  <2>1. /\ UNCHANGED <<request, after, verdict, yanked>>
        /\ pc[k] \in {"waiting", "fetching"}
        /\ \A e \in Calls \ {k} : outcome'[e] = outcome[e]
    BY <1>0, <1>2, Kept
  <2>2. SUFFICES ASSUME NEW c \in Calls, NEW v \in Versions,
                        Sets(c, v)', verdict'[c][1] = "ok",
                        \A d \in Calls \ {c} : Sets(d, v)' =>
                            d \in after'[c] /\ outcome'[d] \in {"ok", "refused", "local"}
                 PROVE  (v \in yanked <=> Op(c) = "yank")'
    BY DEF LastWord
  <2>3. \A e \in Calls : Op(e)' = Op(e) /\ Sets(e, v)' = Sets(e, v)
    BY <2>1 DEF Sets, Op, Route
  <2>4. \A d \in Calls \ {c} : Sets(d, v) =>
            d \in after[c] /\ outcome[d] \in {"ok", "refused", "local"}
    BY <1>0, <2>1, <2>2, <2>3 DEF AfterOK
  <2>5. v \in yanked <=> Op(c) = "yank"
    BY <1>0, <2>1, <2>2, <2>3, <2>4 DEF LastWord
  <2> QED BY <2>1, <2>3, <2>5
<1>3. ASSUME NEW k \in Calls, NEW i \in 1..2, Acts(k, i) PROVE LastWord'
  <2>1. /\ i \in {1, 2} /\ attempts[k] \in {1, 2} /\ (i = 2 => attempts[k] = 2)
        /\ verdict[k][i] = None
        /\ \A e \in Calls, j \in {1, 2} : e # k \/ j # i => verdict'[e][j] = verdict[e][j]
        /\ UNCHANGED <<request, after, outcome>>
    BY <1>0, <1>3, ActsFacts
  <2>2. SUFFICES ASSUME NEW c \in Calls, NEW v \in Versions,
                        Sets(c, v)', verdict'[c][1] = "ok",
                        \A d \in Calls \ {c} : Sets(d, v)' =>
                            d \in after'[c] /\ outcome'[d] \in {"ok", "refused", "local"}
                 PROVE  (v \in yanked <=> Op(c) = "yank")'
    BY DEF LastWord
  <2>3. \A e \in Calls : Op(e)' = Op(e) /\ Sets(e, v)' = Sets(e, v)
    BY <2>1 DEF Sets, Op, Route
  <2>4. CASE c = k
    <3>1. Op(k) \in {"yank", "restore"} /\ Route(k) = v
      BY <2>2, <2>3, <2>4 DEF Sets
    <3>2. i = 1
      BY <1>0, <2>1, <3>1 DEF CallOK
    <3>3. SetYanked(k, i)
      BY <1>3, <3>1 DEF Acts, Release, Grant, Lookup
    <3>4. yanked' = IF Op(k) = "yank" THEN yanked \union {v} ELSE yanked \ {v}
      BY <1>0, <2>2, <2>4, <3>1, <3>2, <3>3 DEF SetYanked, TypeOK
    <3> QED BY <2>3, <2>4, <3>1, <3>4
  <2>5. CASE c # k
    <3>1. ASSUME Sets(k, v) PROVE FALSE
      <4>1. outcome[k] \in {"ok", "refused", "local"} /\ IsWrite(k) /\ attempts[k] # 2
        BY <1>0, <2>1, <2>2, <2>3, <2>5, <3>1 DEF Sets, IsWrite, CallOK
      <4>2. verdict[k][1] = None /\ attempts[k] = 1
        BY <2>1, <4>1
      <4> QED BY <1>0, <4>1, <4>2 DEF CallOK
    <3>2. v \in yanked' <=> v \in yanked
      <4>1. CASE SetYanked(k, i)
        <5>1. Route(k) # v
          BY <3>1, <4>1 DEF SetYanked, Sets
        <5> QED BY <4>1, <5>1 DEF SetYanked
      <4>2. CASE ~SetYanked(k, i)
        BY <1>3, <4>2 DEF Acts, Release, Grant, Lookup, registry
      <4> QED BY <4>1, <4>2
    <3>3. verdict[c][1] = "ok"
      BY <2>1, <2>2, <2>5
    <3>4. v \in yanked <=> Op(c) = "yank"
      BY <1>0, <2>1, <2>2, <2>3, <3>3 DEF LastWord
    <3> QED BY <2>3, <3>2, <3>4
  <2> QED BY <2>4, <2>5
<1>4. CASE UNCHANGED vars
  BY <1>0, <1>4 DEF vars, LastWord, Sets, Op, Route
<1> QED BY <1>1, <1>2, <1>3, <1>4 DEF Next, Client, Registry, Acts

LEMMA Inductive == Spec => []IInv
<1>1. IInv /\ [Next]_vars => IInv'
  <2> SUFFICES ASSUME IInv, [Next]_vars PROVE IInv'
    OBVIOUS
  <2>1. TypeOK'
    BY StepType DEF IInv
  <2>2. \A d \in Calls : CallOK(d)' /\ RouteOK(d)'
    BY <2>1, StepCall
  <2>3. \A d \in Calls : DownloadOK(d)'
    BY <2>1, StepDownload
  <2>4. ReleasedOK' /\ OwnerOK' /\ AfterOK' /\ LastWord'
    BY <2>1, StepReleased, StepOwner, StepAfter, StepLastWord
  <2> QED BY <2>1, <2>2, <2>3, <2>4 DEF IInv
<1> QED BY InitInv, <1>1, PTL DEF Spec

\* The calls and the registry stay within their types: nothing is released under a
\* version that is none, and no answer is made up.
THEOREM RegistryTypeCorrect == Spec => []TypeOK
<1>1. IInv => TypeOK
  BY DEF IInv
<1> QED BY Inductive, <1>1, PTL

\* A version holds the artifact whose metadata names it, for any number of
\* publishers with any SDK that derives or compares the coordinate.
THEOREM ReleasesAreAsDescribed == Spec => []ReleasedAsDescribed
<1>1. IInv => ReleasedAsDescribed
  <2> SUFFICES ASSUME IInv, NEW v \in Versions, released[v] # None
               PROVE  LET r == request[released[v]]
                      IN r.route = v /\ (ProfileOf[r.sdk].route # "given" => r.meta = v)
    BY DEF ReleasedAsDescribed
  <2>1. PICK e \in Calls : released[v] = e
    BY DEF IInv, TypeOK
  <2>2. Op(e) = "publish" /\ Route(e) = v /\ attempts[e] # 0
    BY <2>1 DEF IInv, ReleasedOK
  <2>3. RouteOK(e)
    BY DEF IInv
  <2> QED BY <2>1, <2>2, <2>3 DEF RouteOK, Route, p
<1> QED BY Inductive, <1>1, PTL

\* What the publisher of a version was told succeeded is what every download of that
\* version returns, with every SDK and whatever the store serves.
THEOREM DownloadsAreAlwaysGenuine == Spec => []DownloadsAreGenuine
<1>1. IInv => DownloadsAreGenuine
  <2> SUFFICES ASSUME IInv, NEW c \in Calls, NEW d \in Calls,
                      Op(c) = "publish", outcome[c] = "ok",
                      Op(d) = "download", outcome[d] = "ok", Route(d) = Route(c)
               PROVE  got[d] = c
    BY DEF DownloadsAreGenuine
  <2>1. attempts[c] \in {1, 2} /\ verdict[c][attempts[c]] = "ok"
    BY DEF IInv, CallOK, IsWrite, Writes
  <2>2. released[Route(c)] = c
    BY <2>1 DEF IInv, ReleasedOK
  <2>3. got[d] = pinned[d] /\ pinned[d] = released[Route(d)]
    BY DEF IInv, DownloadOK
  <2> QED BY <2>2, <2>3
<1> QED BY Inductive, <1>1, PTL

\* The last word of callers who wait for each other stands, with every SDK: a request
\* that was given up and arrives late is the only thing that can undo it.
THEOREM LastWordAlwaysStands == Spec => []LastWordStands
<1>1. IInv => LastWordStands
  <2> SUFFICES ASSUME IInv, NEW c \in Calls, NEW v \in Versions,
                      Sets(c, v), outcome[c] = "ok",
                      \A d \in Calls \ {c} : Sets(d, v) =>
                          d \in after[c] /\ outcome[d] \in {"ok", "refused", "local"}
               PROVE  v \in yanked <=> Op(c) = "yank"
    BY DEF LastWordStands
  <2>1. attempts[c] \in {1, 2} /\ verdict[c][attempts[c]] = "ok" /\ attempts[c] # 2
    BY DEF IInv, CallOK, IsWrite, Writes, Sets
  <2>2. verdict[c][1] = "ok"
    BY <2>1
  <2> QED BY <2>2 DEF IInv, LastWord
<1> QED BY Inductive, <1>1, PTL

-----------------------------------------------------------------------------
(* The SDKs whose HTTP library sends a write once.                           *)

LEMMA SentOnce ==
    ASSUME SendOnce, TypeOK, NEW c \in Calls, CallOK(c)
    PROVE  attempts[c] # 2 /\ verdict[c][2] = None /\ (IsWrite(c) => ~p(c).repeats)
<1>1. attempts[c] = 2 \/ IsWrite(c) => ~p(c).repeats
  <2> SUFFICES ASSUME attempts[c] = 2 \/ IsWrite(c) PROVE ~p(c).repeats
    OBVIOUS
  <2>1. Op(c) \in Writes
    BY DEF CallOK, IsWrite, Writes
  <2>2. request[c] \in Requests
    BY <2>1, SentCall
  <2> QED BY <2>2 DEF p, SendOnce, Requests
<1> QED BY <1>1 DEF CallOK

\* A publish or a claim that its caller heard was refused, or was refused before it
\* was sent, leaves nothing in the registry.
THEOREM RefusalsHadNoEffect ==
    ASSUME SendOnce
    PROVE  Spec => []RefusedHadNoEffect
<1>1. IInv => RefusedHadNoEffect
  <2> SUFFICES ASSUME IInv, NEW c \in Calls, outcome[c] \in {"refused", "local"}
               PROVE  /\ \A v \in Versions : released[v] # c
                      /\ \A s \in Slugs : owner[s] # c
    BY DEF RefusedHadNoEffect
  <2> USE RegistryAssumption
  <2>1. TypeOK /\ CallOK(c)
    BY DEF IInv
  <2>2. verdict[c][2] = None /\ attempts[c] # 2
    BY <2>1, SentOnce
  <2>3. IsWrite(c) => verdict[c][1] # "ok"
    BY <2>1, <2>2 DEF CallOK
  <2>4. ASSUME NEW v \in Versions, released[v] = c PROVE FALSE
    <3>1. Op(c) = "publish" /\ (verdict[c][1] = "ok" \/ verdict[c][2] = "ok")
      BY <2>4 DEF IInv, ReleasedOK
    <3> QED BY <2>2, <2>3, <3>1 DEF IsWrite, Writes
  <2>5. ASSUME NEW s \in Slugs, owner[s] = c PROVE FALSE
    <3>1. Op(c) = "claim" /\ verdict[c][1] = "ok"
      BY <2>5 DEF IInv, OwnerOK
    <3> QED BY <2>3, <3>1 DEF IsWrite, Writes
  <2> QED BY <2>4, <2>5
<1> QED BY Inductive, <1>1, PTL

\* What WriteOnce sees of a call.
Seen(c)  == IF IsWrite(c) THEN verdict[c][1] ELSE None
Told(c)  == IF IsWrite(c) THEN outcome[c] ELSE None

SeenIsEffect ==
    [c \in Calls |-> IF IsWrite(c) THEN Effect(c) ELSE None] = [c \in Calls |-> Seen(c)]

LEMMA SeenAsEffect ==
    ASSUME SendOnce, IInv
    PROVE  SeenIsEffect
<1>1. ASSUME NEW c \in Calls
      PROVE  (IF IsWrite(c) THEN Effect(c) ELSE None) = Seen(c)
  BY SentOnce, RegistryAssumption DEF Seen, Effect, TypeOK, IInv
<1> QED BY <1>1 DEF SeenIsEffect

\* A call that a step leaves alone looks the same.
LEMMA SeenFrame ==
    ASSUME NEW d \in Calls, request'[d] = request[d], verdict'[d] = verdict[d],
           outcome'[d] = outcome[d]
    PROVE  Seen(d)' = Seen(d) /\ Told(d)' = Told(d)
BY DEF Seen, Told, IsWrite, Op

\* The moves of WriteOnce, and the stutter, from effects e to en, answers h to hn.
Moves(e, h, en, hn, c) ==
    \/ en = e /\ hn = h
    \/ /\ e[c] = None /\ h[c] \in {None, "unknown"}
       /\ \E x \in {"ok", "refused"} : en = [e EXCEPT ![c] = x]
       /\ hn = h
    \/ e[c] # None /\ h[c] = None /\ hn = [h EXCEPT ![c] = e[c]] /\ en = e
    \/ h[c] = None /\ hn = [h EXCEPT ![c] = "unknown"] /\ en = e
    \/ e[c] = None /\ h[c] = None /\ hn = [h EXCEPT ![c] = "local"] /\ en = e

\* A step that changes how one call looks, as one of WriteOnce's actions would.
LEMMA OneCallSteps ==
    ASSUME NEW c \in Calls,
           \A d \in Calls \ {c} : Seen(d)' = Seen(d) /\ Told(d)' = Told(d),
           \/ Seen(c)' = Seen(c) /\ Told(c)' = Told(c)
           \/ /\ Seen(c) = None /\ Told(c) \in {None, "unknown"}
              /\ Seen(c)' \in {"ok", "refused"} /\ Told(c)' = Told(c)
           \/ /\ Seen(c) # None /\ Told(c) = None
              /\ Told(c)' = Seen(c) /\ Seen(c)' = Seen(c)
           \/ Told(c) = None /\ Told(c)' = "unknown" /\ Seen(c)' = Seen(c)
           \/ /\ Seen(c) = None /\ Told(c) = None
              /\ Told(c)' = "local" /\ Seen(c)' = Seen(c)
    PROVE  LET e == [d \in Calls |-> Seen(d)]
               h == [d \in Calls |-> Told(d)]
           IN Moves(e, h, e', h', c)
<1> DEFINE e == [d \in Calls |-> Seen(d)]
           h == [d \in Calls |-> Told(d)]
<1>1. e[c] = Seen(c) /\ h[c] = Told(c)
  OBVIOUS
<1>2. e' = [e EXCEPT ![c] = Seen(c)']
  OBVIOUS
<1>3. h' = [h EXCEPT ![c] = Told(c)']
  OBVIOUS
<1>4. (Seen(c)' = Seen(c) => e' = e) /\ (Told(c)' = Told(c) => h' = h)
  OBVIOUS
<1> HIDE DEF e, h
<1>5. Moves(e, h, e', h', c)
  BY <1>1, <1>2, <1>3, <1>4 DEF Moves
<1> QED BY <1>5 DEF e, h

\* How each step of a call looks.
LEMMA ActsLook ==
    ASSUME SendOnce, IInv, NEW c \in Calls, NEW i \in 1..2, Acts(c, i)
    PROVE  /\ \A d \in Calls \ {c} : Seen(d)' = Seen(d) /\ Told(d)' = Told(d)
           /\ \/ Seen(c)' = Seen(c) /\ Told(c)' = Told(c)
              \/ /\ Seen(c) = None /\ Told(c) \in {None, "unknown"}
                 /\ Seen(c)' \in {"ok", "refused"} /\ Told(c)' = Told(c)
<1> USE RegistryAssumption
<1>0. TypeOK /\ CallOK(c)
  BY DEF IInv
<1>1. /\ i \in {1, 2} /\ attempts[c] \in {1, 2} /\ (i = 2 => attempts[c] = 2)
      /\ verdict[c][i] = None /\ verdict'[c][i] \in {"ok", "refused"}
      /\ \A d \in Calls, j \in {1, 2} : d # c \/ j # i => verdict'[d][j] = verdict[d][j]
      /\ UNCHANGED <<request, outcome>>
  BY <1>0, ActsFacts
<1>2. i = 1 /\ attempts[c] = 1
  BY <1>0, <1>1, SentOnce
<1>3. \A d \in Calls : IsWrite(d)' = IsWrite(d) /\ Told(d)' = Told(d)
  BY <1>1 DEF IsWrite, Op, Told
<1>4. \A d \in Calls \ {c} : Seen(d)' = Seen(d)
  BY <1>1, <1>3 DEF Seen
<1>5. CASE ~IsWrite(c)
  BY <1>3, <1>4, <1>5 DEF Seen
<1>6. CASE IsWrite(c)
  <2>1. outcome[c] \in {None, "unknown"}
    BY <1>0, <1>1, <1>2, <1>6 DEF CallOK, TypeOK, Outcomes, IsWrite, Writes
  <2> QED BY <1>1, <1>2, <1>3, <1>4, <1>6, <2>1 DEF Seen, Told
<1> QED BY <1>5, <1>6

LEMMA ClientLooks ==
    ASSUME SendOnce, IInv, NEW c \in Calls, Client(c)
    PROVE  /\ \A d \in Calls \ {c} : Seen(d)' = Seen(d) /\ Told(d)' = Told(d)
           /\ \/ Seen(c)' = Seen(c) /\ Told(c)' = Told(c)
              \/ /\ Seen(c) # None /\ Told(c) = None
                 /\ Told(c)' = Seen(c) /\ Seen(c)' = Seen(c)
              \/ Told(c) = None /\ Told(c)' = "unknown" /\ Seen(c)' = Seen(c)
              \/ /\ Seen(c) = None /\ Told(c) = None
                 /\ Told(c)' = "local" /\ Seen(c)' = Seen(c)
<1> USE RegistryAssumption
<1>0. TypeOK /\ CallOK(c)
  BY DEF IInv
<1>1. ASSUME NEW r \in Requests, Call(c, r)
      PROVE  /\ \A d \in Calls \ {c} : Seen(d)' = Seen(d) /\ Told(d)' = Told(d)
             /\ Seen(c) = None /\ Told(c) = None /\ Seen(c)' = None
             /\ Told(c)' \in {None, "local"}
  <2>1. /\ Op(c) = None /\ verdict[c][1] = None /\ verdict' = verdict
        /\ \A d \in Calls \ {c} : request'[d] = request[d] /\ outcome'[d] = outcome[d]
    BY <1>1, Begun
  <2>2. ~IsWrite(c)
    BY <2>1 DEF IsWrite, Writes
  <2>3. outcome'[c] \in {None, "local"}
    BY <1>0, <1>1 DEF Call, Finish, TypeOK, CallOK
  <2>4. \A d \in Calls \ {c} : Seen(d)' = Seen(d) /\ Told(d)' = Told(d)
    BY <2>1, SeenFrame
  <2> QED BY <2>1, <2>2, <2>3, <2>4 DEF Seen, Told
<1>2. ASSUME Answer(c) \/ Fail(c) \/ FetchArtifact(c)
      PROVE  /\ \A d \in Calls \ {c} : Seen(d)' = Seen(d) /\ Told(d)' = Told(d)
             /\ Seen(c)' = Seen(c) /\ IsWrite(c)' = IsWrite(c)
             /\ outcome[c] = None /\ Told(c) = None
  <2>1. /\ UNCHANGED <<request, verdict>> /\ pc[c] \in {"waiting", "fetching"}
        /\ \A d \in Calls \ {c} : outcome'[d] = outcome[d]
    BY <1>0, <1>2, Kept
  <2>2. outcome[c] = None
    BY <1>0, <2>1 DEF CallOK
  <2>3. \A d \in Calls \ {c} : Seen(d)' = Seen(d) /\ Told(d)' = Told(d)
    BY <2>1, SeenFrame
  <2> QED BY <2>1, <2>2, <2>3 DEF Seen, Told, IsWrite, Op
<1>3. CASE Answer(c)
  <2>1. attempts[c] = 1 /\ Heard(c) = verdict[c][1] /\ Heard(c) # None
    BY <1>0, <1>3, SentOnce DEF Answer, CallOK, Heard
  <2>2. outcome'[c] = outcome[c] \/ outcome'[c] = Heard(c)
    BY <1>0, <1>3 DEF Answer, Finish, TypeOK
  <2> QED BY <1>2, <1>3, <2>1, <2>2 DEF Seen, Told
<1>4. CASE Fail(c)
  <2>1. outcome'[c] = outcome[c] \/ outcome'[c] = "unknown"
    BY <1>0, <1>4 DEF Fail, Finish, TypeOK
  <2> QED BY <1>2, <1>4, <2>1 DEF Told
<1>5. CASE FetchArtifact(c)
  <2>1. ~IsWrite(c)
    BY <1>5 DEF FetchArtifact, IInv, DownloadOK, IsWrite, Writes
  <2> QED BY <1>2, <1>5, <2>1 DEF Told
<1> QED BY <1>1, <1>3, <1>4, <1>5 DEF Client

LEMMA NextLooks ==
    ASSUME SendOnce, IInv, SeenIsEffect, SeenIsEffect', [Next]_vars
    PROVE  [OnceOnly!WriteNext]_(OnceOnly!wvars)
<1> DEFINE e == [c \in Calls |-> Seen(c)]
           h == [c \in Calls |-> Told(c)]
<1>1. /\ [c \in Calls |-> IF IsWrite(c) THEN Effect(c) ELSE None] = e
      /\ [c \in Calls |-> IF IsWrite(c) THEN Effect(c) ELSE None]' = e'
  BY DEF SeenIsEffect
<1>2. /\ [c \in Calls |-> IF IsWrite(c) THEN outcome[c] ELSE None] = h
      /\ [c \in Calls |-> IF IsWrite(c) THEN outcome[c] ELSE None]' = h'
  BY DEF Told
<1>3. (e' = e /\ h' = h) \/ \E c \in Calls : Moves(e, h, e', h', c)
  <2>1. ASSUME NEW c \in Calls, Client(c) \/ \E i \in 1..2 : Acts(c, i)
        PROVE  Moves(e, h, e', h', c)
    BY <2>1, ActsLook, ClientLooks, OneCallSteps
  <2>2. CASE UNCHANGED vars
    BY <2>2, SeenFrame DEF vars
  <2> QED BY <2>1, <2>2 DEF Next, Registry, Acts
<1> HIDE DEF e, h
<1>4. CASE e' = e /\ h' = h
  BY <1>1, <1>2, <1>4 DEF OnceOnly!wvars
<1>5. ASSUME NEW c \in Calls,
             /\ e[c] = None /\ h[c] \in {None, "unknown"}
             /\ \E x \in {"ok", "refused"} : e' = [e EXCEPT ![c] = x]
             /\ h' = h
      PROVE  OnceOnly!TakeEffect(c)
  BY <1>1, <1>2, <1>5 DEF OnceOnly!TakeEffect
<1>6. ASSUME NEW c \in Calls,
             e[c] # None /\ h[c] = None /\ h' = [h EXCEPT ![c] = e[c]] /\ e' = e
      PROVE  OnceOnly!Tell(c)
  BY <1>1, <1>2, <1>6 DEF OnceOnly!Tell
<1>7. ASSUME NEW c \in Calls, h[c] = None /\ h' = [h EXCEPT ![c] = "unknown"] /\ e' = e
      PROVE  OnceOnly!TellUnknown(c)
  BY <1>1, <1>2, <1>7 DEF OnceOnly!TellUnknown
<1>8. ASSUME NEW c \in Calls,
             e[c] = None /\ h[c] = None /\ h' = [h EXCEPT ![c] = "local"] /\ e' = e
      PROVE  OnceOnly!Decline(c)
  BY <1>1, <1>2, <1>8 DEF OnceOnly!Decline
<1> QED BY <1>3, <1>4, <1>5, <1>6, <1>7, <1>8 DEF Moves, OnceOnly!WriteNext

\* A write takes effect at most once and its caller hears the truth or nothing, for any
\* number of calls, however late the registry acts: the operations implement WriteOnce.
THEOREM ImplementsWriteOnce ==
    ASSUME SendOnce
    PROVE  Spec => WritesOnce
<1>1. Init => OnceOnly!WriteInit
  BY RegistryAssumption DEF Init, OnceOnly!WriteInit, IsWrite, Op, Writes
<1>2. IInv /\ SeenIsEffect /\ SeenIsEffect' /\ [Next]_vars
          => [OnceOnly!WriteNext]_(OnceOnly!wvars)
  BY NextLooks
<1>3. IInv => SeenIsEffect
  BY SeenAsEffect
<1> QED BY Inductive, <1>1, <1>2, <1>3, PTL DEF Spec, WritesOnce, OnceOnly!WriteSpec
=============================================================================
