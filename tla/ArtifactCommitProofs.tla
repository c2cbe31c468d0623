------------------------ MODULE ArtifactCommitProofs ------------------------
(***************************************************************************)
(* What ArtifactCommit guarantees for any number of calls, processes,      *)
(* artifacts, blocks and files.                                            *)
(***************************************************************************)
EXTENDS ArtifactCommit, TLAPS

\* A call that has a temporary file or the destination open knows where it is.
OpenInv == \A w \in Writers :
    /\ pc[w] \in {"writing", "synced", "cleanup"} => temp[w] \in Names
    /\ pc[w] \in {"writing", "synced", "overwriting"} => fd[w] \in Inodes

LEMMA BlankType == Blank \in [data : [1..Blocks -> Bodies \union {None}], synced : BOOLEAN]
BY DEF Blank

LEMMA TypeInit == Init => TypeOK /\ OpenInv
<1> SUFFICES ASSUME Init PROVE TypeOK /\ OpenInv
  OBVIOUS
<1>1. \A a \in Artifacts :
        Whole(a) \in [data : [1..Blocks -> Bodies \union {None}], synced : BOOLEAN]
  BY DEF Whole, Bodies
<1>2. file \in [Inodes -> [data : [1..Blocks -> Bodies \union {None}],
                            synced : BOOLEAN]]
  <2>1. PICK a \in Artifacts : file = [i \in Inodes |-> Whole(a)]
    BY DEF Init
  <2> QED BY <1>1, <2>1
<1>3. pos \in [Writers -> 0..Blocks]
  BY CommitAssumption DEF Init
<1> QED
  BY <1>2, <1>3 DEF Init, TypeOK, OpenInv, States

LEMMA PutType ==
    ASSUME TypeOK, OpenInv, NEW w \in Writers, Put(w), fd[w] \in Inodes
    PROVE  (TypeOK /\ OpenInv)'
<1>1. file'[fd[w]] = [data |-> [file[fd[w]].data EXCEPT ![pos[w] + 1] = body[w]],
                      synced |-> FALSE]
      /\ \A i \in Inodes : i # fd[w] => file'[i] = file[i]
  BY DEF Put, TypeOK
<1>2. file' \in [Inodes -> [data : [1..Blocks -> Bodies \union {None}],
                            synced : BOOLEAN]]
  BY DEF Put, TypeOK
<1>3. pos' \in [Writers -> 0..Blocks]
  BY CommitAssumption DEF Put, TypeOK
<1> QED
  BY <1>2, <1>3 DEF Put, TypeOK, OpenInv, call

LEMMA ReturnType ==
    ASSUME TypeOK, OpenInv, NEW w \in Writers, Return(w)
    PROVE  /\ pc' \in [Writers -> States]
           /\ sdk' \in [Writers -> Sdks \union {None}]
           /\ want' \in [Writers -> Artifacts \union {None}]
           /\ body' \in [Writers -> Bodies \union {None}]
           /\ temp' \in [Writers -> Names \union {None}]
           /\ fd' \in [Writers -> Inodes \union {None}]
           /\ pos' \in [Writers -> 0..Blocks]
           /\ over' \in [Writers -> SUBSET Names]
           /\ OpenInv'
BY CommitAssumption DEF Return, Goto, TypeOK, OpenInv, States

LEMMA ResetType ==
    ASSUME TypeOK, OpenInv, NEW S, Reset(S)
    PROVE  /\ pc' \in [Writers -> States]
           /\ sdk' \in [Writers -> Sdks \union {None}]
           /\ want' \in [Writers -> Artifacts \union {None}]
           /\ body' \in [Writers -> Bodies \union {None}]
           /\ temp' \in [Writers -> Names \union {None}]
           /\ fd' \in [Writers -> Inodes \union {None}]
           /\ pos' \in [Writers -> 0..Blocks]
           /\ over' \in [Writers -> SUBSET Names]
           /\ OpenInv'
BY CommitAssumption DEF Reset, TypeOK, OpenInv, States

LEMMA StepType ==
    ASSUME TypeOK, OpenInv, NEW w \in Writers, Step(w)
    PROVE  (TypeOK /\ OpenInv)'
<1>1. CASE Verify(w)
  <2>1. CASE Goto(w, "verified") /\ UNCHANGED <<disk, call, local>>
    BY <2>1 DEF Goto, disk, call, local, TypeOK, OpenInv, States
  <2>2. CASE Return(w) /\ UNCHANGED disk
    BY <2>2, ReturnType DEF disk, TypeOK
  <2> QED BY <1>1, <2>1, <2>2 DEF Verify
<1>2. CASE CreateTemp(w)
  BY <1>2, BlankType DEF CreateTemp, TempNames, ProbedNames, ClockNames,
     CountedNames, FreeInodes, Goto, call, TypeOK, OpenInv, States
<1>3. CASE NameTaken(w)
  <2>1. CASE Return(w) /\ UNCHANGED disk
    BY <2>1, ReturnType DEF disk, TypeOK
  <2>2. CASE /\ pc[w] = "verified" /\ Goto(w, "cleanup") /\ UNCHANGED <<disk, call, fd, pos, over>>
             /\ \E n \in Names : temp' = [temp EXCEPT ![w] = n]
    BY <2>2 DEF Goto, disk, call, TypeOK, OpenInv, States
  <2> QED
    BY <1>3, <2>1, <2>2 DEF NameTaken, TempNames, ProbedNames, ClockNames, CountedNames
<1>4. CASE WriteTemp(w)
  BY <1>4, PutType DEF WriteTemp, OpenInv
<1>5. CASE SyncTemp(w)
  BY <1>5 DEF SyncTemp, Goto, call, local, TypeOK, OpenInv, States
<1>6. CASE Rename(w)
  BY <1>6, ReturnType DEF Rename, TypeOK, OpenInv
<1>7. CASE SysCallFails(w)
  <2>1. CASE Return(w) /\ UNCHANGED disk
    BY <2>1, ReturnType DEF disk, TypeOK
  <2>2. CASE /\ pc[w] \in {"writing", "synced"} /\ Goto(w, "cleanup")
             /\ UNCHANGED <<disk, call, local>>
    BY <2>2 DEF Goto, disk, call, local, TypeOK, OpenInv, States
  <2> QED BY <1>7, <2>1, <2>2 DEF SysCallFails
<1>8. CASE RemoveTemp(w)
  BY <1>8, ReturnType DEF RemoveTemp, TypeOK, OpenInv
<1>9. CASE OpenDest(w)
  <2> USE BlankType
  <2>1. PICK i \in Inodes :
            /\ dest' = i /\ durable' = durable \union {i}
            /\ file' = [file EXCEPT ![i] = Blank]
            /\ fd' = [fd EXCEPT ![w] = i]
    BY <1>9 DEF OpenDest, FreeInodes, TypeOK
  <2> QED
    BY <1>9, <2>1 DEF OpenDest, Goto, call, TypeOK, OpenInv, States
<1>10. CASE WriteDest(w)
  BY <1>10, PutType DEF WriteDest, OpenInv
<1>11. CASE CloseDest(w)
  BY <1>11, ReturnType DEF CloseDest, disk, TypeOK
<1> QED
  BY <1>1, <1>2, <1>3, <1>4, <1>5, <1>6, <1>7, <1>8, <1>9, <1>10, <1>11 DEF Step

\* Every variable keeps its type: in particular a call that renames or removes
\* a temporary name has chosen one, and no write goes past the artifact.
THEOREM TypeCorrect == Spec => []TypeOK
<1>1. TypeOK /\ OpenInv /\ [Next]_vars => (TypeOK /\ OpenInv)'
  <2> SUFFICES ASSUME TypeOK, OpenInv, [Next]_vars PROVE (TypeOK /\ OpenInv)'
    OBVIOUS
  <2>1. ASSUME NEW w \in Writers, NEW s \in Sdks, NEW a \in Artifacts,
               NEW b \in Bodies, Fetch(w, s, a, b)
        PROVE  (TypeOK /\ OpenInv)'
    BY <2>1 DEF Fetch, Goto, disk, TypeOK, OpenInv, States
  <2>2. ASSUME NEW w \in Writers, Step(w) PROVE (TypeOK /\ OpenInv)'
    BY <2>2, StepType
  <2>3. ASSUME NEW p \in Procs, Kill(p) PROVE (TypeOK /\ OpenInv)'
    <3>1. LiveTemps({w \in Writers : ProcOf[w] = p}) \subseteq Names
      BY DEF LiveTemps, Holds, OpenInv
    <3>2. Reset({w \in Writers : ProcOf[w] = p})
      BY <2>3 DEF Kill
    <3> QED BY <2>3, <3>1, <3>2, ResetType DEF Kill, TypeOK
  <2>4. CASE SyncDirectory
    BY <2>4 DEF SyncDirectory, call, local, TypeOK, OpenInv
  <2>5. CASE PowerLoss
    <3>1. dest' \in Inodes \union {None} /\ durable' \subseteq Inodes \union {None}
      BY <2>5 DEF PowerLoss, TypeOK
    <3>2. dir' \in [Names -> Inodes \union {None}] /\ orphans' \subseteq Names
      BY <2>5 DEF PowerLoss, TypeOK
    <3>3. file' \in [Inodes -> [data : [1..Blocks -> Bodies \union {None}],
                                synced : BOOLEAN]]
      BY <2>5, BlankType DEF PowerLoss, TypeOK
    <3>4. Reset(Writers)
      BY <2>5 DEF PowerLoss
    <3> QED BY <3>1, <3>2, <3>3, <3>4, ResetType DEF TypeOK
  <2>6. CASE UNCHANGED vars
    BY <2>6 DEF vars, TypeOK, OpenInv
  <2> QED BY <2>1, <2>2, <2>3, <2>4, <2>5, <2>6 DEF Next
<1> QED BY TypeInit, <1>1, PTL DEF Spec

-----------------------------------------------------------------------------
(* SDKs of both kinds, when no two calls can draw the same clock name.      *)

Unshared == ~CoarseClock

InTemp == {"writing", "synced", "cleanup"}
USE DEF InTemp

\* A call knows its artifact; from its verification on the body it holds is
\* that artifact; while it has a temporary file, the file is there under the
\* name the call chose; what it overwrites is no temporary file.
CallInv == \A w \in Writers :
    /\ pc[w] = "idle" <=> want[w] = None
    /\ pc[w] \notin {"idle", "fetched"} => body[w] = want[w]
    /\ pc[w] \notin InTemp => temp[w] = None
    /\ pc[w] \notin InTemp \union {"overwriting"} => fd[w] = None /\ pos[w] = 0
    /\ pc[w] \in InTemp =>
            /\ temp[w] \in Names \ orphans
            /\ fd[w] \in Inodes
            /\ dir[temp[w]] = fd[w]
    /\ pc[w] = "overwriting" => fd[w] \in Inodes /\ \A n \in Names : dir[n] # fd[w]

\* Two calls never share a name, two names never share a file, a temporary
\* file is no destination, present or past, and has an owner or is orphaned.
TempsApart   == \A v, w \in Writers : v # w /\ temp[v] # None => temp[v] # temp[w]
NamesApart   == \A m, n \in Names : dir[m] # None /\ dir[m] = dir[n] => m = n
TempNotDest  == \A n \in Names : dir[n] # None => dir[n] \notin durable
OrphansThere == \A n \in orphans : dir[n] # None
TempsOwned   == \A n \in Names \ orphans :
                    dir[n] # None => \E w \in Writers : temp[w] = n

NameInv == /\ TempsApart /\ NamesApart /\ TempNotDest /\ OrphansThere /\ TempsOwned
           /\ dest \in durable

\* What a call has written so far is its body, a file it has synced is whole,
\* and every past or present destination that is synced is a published artifact.
DataInv ==
    /\ \A w \in Writers :
        /\ pc[w] \in {"writing", "synced"} =>
                \A k \in 1..pos[w] : file[fd[w]].data[k] = body[w]
        /\ pc[w] = "synced" => pos[w] = Blocks /\ file[fd[w]].synced
    /\ \A i \in durable \ {None} :
        file[i].synced => \E a \in Artifacts : HoldsAll(i, a)

IInv == TypeOK /\ CallInv /\ NameInv /\ DataInv

LEMMA NoneFacts ==
    /\ None \notin Artifacts /\ None \notin Bodies /\ None \notin Inodes /\ None \notin Names
    /\ Artifacts \subseteq Bodies
    /\ Blocks \in Nat /\ Blocks > 0
BY CommitAssumption DEF Bodies

LEMMA IInvInit == Init => CallInv /\ NameInv /\ DataInv
<1> SUFFICES ASSUME Init PROVE CallInv /\ NameInv /\ DataInv
  OBVIOUS
<1>1. PICK a \in Artifacts : file = [i \in Inodes |-> Whole(a)]
  BY DEF Init
<1>2. \A i \in Inodes : file[i].synced /\ HoldsAll(i, a)
  BY <1>1 DEF Whole, HoldsAll
<1>3. CallInv /\ NameInv
  BY NoneFacts DEF Init, CallInv, NameInv, TempsApart, NamesApart, TempNotDest, OrphansThere, TempsOwned
<1>4. DataInv
  BY <1>2, NoneFacts DEF Init, DataInv
<1> QED
  BY <1>3, <1>4

\* Two open calls never have the same file open.
LEMMA FilesApart ==
    ASSUME TypeOK, CallInv, NameInv, NEW v \in Writers, NEW w \in Writers, v # w,
           pc[v] \in InTemp
    PROVE  fd[v] # fd[w]
<1>1. temp[v] \in Names /\ dir[temp[v]] = fd[v] /\ fd[v] # None
  BY NoneFacts DEF CallInv
<1>2. CASE pc[w] \notin InTemp
  BY <1>1, <1>2 DEF CallInv
<1>3. CASE pc[w] \in InTemp
  <2>1. temp[w] \in Names /\ dir[temp[w]] = fd[w]
    BY <1>3 DEF CallInv
  <2>2. temp[v] # temp[w]
    BY <1>1, NoneFacts DEF NameInv, TempsApart
  <2> QED BY <1>1, <2>1, <2>2 DEF NameInv, NamesApart
<1> QED BY <1>2, <1>3

\* A temporary file is neither a past nor the present destination.
LEMMA FileIsNoDest ==
    ASSUME TypeOK, CallInv, NameInv, NEW w \in Writers, pc[w] \in InTemp
    PROVE  fd[w] \notin durable
<1>1. temp[w] \in Names /\ dir[temp[w]] = fd[w] /\ fd[w] # None
  BY NoneFacts DEF CallInv
<1> QED BY <1>1 DEF NameInv, TempNotDest

\* The state after a call has ended by itself: its locals are gone.
LEMMA ReturnCall ==
    ASSUME TypeOK, CallInv, NEW w \in Writers, Return(w)
    PROVE  /\ pc'[w] = "idle" /\ want'[w] = None
           /\ temp'[w] = None /\ fd'[w] = None /\ pos'[w] = 0
           /\ \A v \in Writers \ {w} :
                /\ pc'[v] = pc[v] /\ want'[v] = want[v] /\ sdk'[v] = sdk[v]
                /\ body'[v] = body[v] /\ temp'[v] = temp[v] /\ fd'[v] = fd[v]
                /\ pos'[v] = pos[v]
BY DEF Return, Goto, TypeOK

LEMMA ReturnTemps ==
    ASSUME TypeOK, TempsApart, NEW w \in Writers, Return(w)
    PROVE  /\ TempsApart'
           /\ \A v \in Writers : temp'[v] = IF v = w THEN None ELSE temp[v]
<1>1. \A v \in Writers : temp'[v] = IF v = w THEN None ELSE temp[v]
  BY DEF Return, TypeOK
<1>2. TempsApart'
  <2> SUFFICES ASSUME NEW u \in Writers, NEW v \in Writers, u # v, temp'[u] # None
               PROVE  temp'[u] # temp'[v]
    BY DEF TempsApart
  <2> QED BY <1>1 DEF TempsApart
<1> QED BY <1>1, <1>2

\* The owner of an existing temporary name other than the one call w gives up
\* is another call, which keeps it.
LEMMA OwnerStays ==
    ASSUME TypeOK, TempsOwned, TempsApart, NEW w \in Writers, Return(w),
           NEW n \in Names \ orphans, dir[n] # None, n # temp[w]
    PROVE  \E v \in Writers : temp'[v] = n
<1>1. PICK v \in Writers : temp[v] = n
  BY DEF TempsOwned
<1> QED BY <1>1, ReturnTemps

\* A call that ends holding no temporary file changes nothing else.
LEMMA ReturnIdle ==
    ASSUME IInv, NEW w \in Writers, Return(w), UNCHANGED disk,
           temp[w] = None
    PROVE  (CallInv /\ NameInv /\ DataInv)'
<1> USE DEF IInv
<1>1. CallInv'
  BY ReturnCall DEF CallInv, disk
<1>2. NameInv'
  <2>1. TempsApart'
    BY ReturnTemps DEF NameInv
  <2>2. NamesApart'
    BY ReturnCall, NoneFacts DEF disk, TypeOK, NameInv, NamesApart
  <2>3. TempNotDest'
    BY ReturnCall, NoneFacts DEF disk, TypeOK, NameInv, TempNotDest
  <2>4. OrphansThere'
    BY ReturnCall, NoneFacts DEF disk, TypeOK, NameInv, OrphansThere
  <2>5. TempsOwned'
    BY OwnerStays, NoneFacts DEF disk, NameInv, TempsOwned
  <2>6. dest' \in durable'
    BY ReturnCall, NoneFacts DEF disk, TypeOK, NameInv
  <2> QED BY <2>1, <2>2, <2>3, <2>4, <2>5, <2>6 DEF NameInv
<1>3. DataInv'
  BY ReturnCall DEF DataInv, disk, HoldsAll
<1> QED BY <1>1, <1>2, <1>3

LEMMA FetchIInv ==
    ASSUME IInv, Unshared, NEW w \in Writers, NEW s \in Sdks, NEW a \in Artifacts,
           NEW b \in Bodies, Fetch(w, s, a, b)
    PROVE  (CallInv /\ NameInv /\ DataInv)'
<1> USE DEF IInv
<1>1. CallInv'
  BY NoneFacts DEF Fetch, Goto, CallInv, TypeOK, Unshared, disk
<1>2. NameInv'
  BY DEF Fetch, NameInv, TempsApart, NamesApart, TempNotDest, OrphansThere, TempsOwned, disk
<1>3. DataInv'
  BY DEF Fetch, Goto, DataInv, CallInv, TypeOK, disk, HoldsAll
<1> QED BY <1>1, <1>2, <1>3

LEMMA VerifyIInv ==
    ASSUME IInv, NEW w \in Writers, Verify(w)
    PROVE  (CallInv /\ NameInv /\ DataInv)'
<1> USE DEF IInv
<1>1. CASE DigestMatches(w) /\ Goto(w, "verified") /\ UNCHANGED <<disk, call, local>>
  <2>1. CallInv'
    BY <1>1 DEF Verify, DigestMatches, Goto, CallInv, TypeOK, disk, call, local
  <2>2. NameInv'
    BY <1>1 DEF NameInv, TempsApart, NamesApart, TempNotDest, OrphansThere, TempsOwned, disk, local
  <2>3. DataInv'
    BY <1>1 DEF Goto, DataInv, CallInv, TypeOK, disk, local, call, HoldsAll
  <2> QED BY <2>1, <2>2, <2>3
<1>2. CASE Return(w) /\ UNCHANGED disk
  BY <1>2, ReturnIdle DEF Verify, CallInv
<1> QED BY <1>1, <1>2 DEF Verify

LEMMA CreateTempIInv ==
    ASSUME IInv, Unshared, NEW w \in Writers, CreateTemp(w)
    PROVE  (CallInv /\ NameInv /\ DataInv)'
<1> USE DEF IInv
<1>1. PICK n \in Names, i \in FreeInodes :
        /\ dir[n] = None
        /\ dir' = [dir EXCEPT ![n] = i]
        /\ file' = [file EXCEPT ![i] = Blank]
        /\ temp' = [temp EXCEPT ![w] = n]
        /\ fd' = [fd EXCEPT ![w] = i]
  BY DEF CreateTemp, TempNames, ProbedNames, ClockNames, CountedNames
<1>2. /\ i \in Inodes /\ i \notin durable /\ i # dest
      /\ \A m \in Names : dir[m] # i
      /\ \A v \in Writers : fd[v] # i
  BY DEF FreeInodes
<1>3. ASSUME NEW v \in Writers PROVE temp[v] # n
  <2>1. CASE pc[v] \in InTemp
    <3>1. dir[temp[v]] \in Inodes
      BY <2>1 DEF CallInv
    <3> QED BY <1>1, <3>1, NoneFacts
  <2>2. CASE pc[v] \notin InTemp
    BY <2>2, NoneFacts DEF CallInv
  <2> QED BY <2>1, <2>2
<1>4. CallInv'
  BY <1>1, <1>2, <1>3, NoneFacts DEF CreateTemp, Goto, CallInv, NameInv, OrphansThere, TypeOK, call
<1>5. NameInv'
  <2>1. TempsApart'
    BY <1>1, <1>2, <1>3, NoneFacts DEF CreateTemp, CallInv, TypeOK, NameInv, TempsApart
  <2>2. NamesApart'
    BY <1>1, <1>2, <1>3, NoneFacts DEF CreateTemp, CallInv, TypeOK, NameInv, NamesApart
  <2>3. TempNotDest'
    BY <1>1, <1>2, <1>3, NoneFacts DEF CreateTemp, CallInv, TypeOK, NameInv, TempNotDest
  <2>4. OrphansThere'
    BY <1>1, <1>2, <1>3, NoneFacts DEF CreateTemp, CallInv, TypeOK, NameInv, OrphansThere
  <2>5. TempsOwned'
    <3> SUFFICES ASSUME NEW m \in Names \ orphans, dir'[m] # None
                 PROVE  \E v \in Writers : temp'[v] = m
      BY DEF CreateTemp, TempsOwned
    <3>1. CASE m = n
      BY <1>1, <3>1 DEF TypeOK
    <3>2. CASE m # n
      <4>1. dir[m] # None
        BY <1>1, <3>2 DEF TypeOK
      <4>2. PICK v \in Writers : temp[v] = m
        BY <4>1 DEF NameInv, TempsOwned
      <4>3. v # w
        BY <4>2, NoneFacts DEF CreateTemp, CallInv
      <4> QED BY <1>1, <4>2, <4>3 DEF TypeOK
    <3> QED BY <3>1, <3>2
  <2>6. dest' \in durable'
    BY <1>1, <1>2, <1>3, NoneFacts DEF CreateTemp, CallInv, TypeOK, NameInv
  <2> QED BY <2>1, <2>2, <2>3, <2>4, <2>5, <2>6 DEF NameInv
<1>6. DataInv'
  <2>1. \A j \in Inodes \ {i} : file'[j] = file[j]
    BY <1>1, <1>2 DEF TypeOK
  <2>2. \A v \in Writers \ {w} : pc[v] \in {"writing", "synced"} => fd[v] \in Inodes \ {i}
    BY <1>2 DEF CallInv
  <2>3. pos[w] = 0
    BY DEF CreateTemp, CallInv
  <2> QED
    BY <1>1, <1>2, <2>1, <2>2, <2>3, NoneFacts
       DEF CreateTemp, Goto, DataInv, TypeOK, call, HoldsAll
<1> QED BY <1>4, <1>5, <1>6

LEMMA NameTakenIInv ==
    ASSUME IInv, Unshared, NEW w \in Writers, NameTaken(w)
    PROVE  (CallInv /\ NameInv /\ DataInv)'
<1>1. sdk[w] # "rust"
  BY DEF NameTaken, TempNames, ClockNames, Family, Unshared
<1>2. Return(w) /\ UNCHANGED disk /\ temp[w] = None
  BY <1>1 DEF NameTaken, IInv, CallInv
<1> QED BY <1>2, ReturnIdle

LEMMA WriteTempIInv ==
    ASSUME IInv, NEW w \in Writers, WriteTemp(w)
    PROVE  (CallInv /\ NameInv /\ DataInv)'
<1> USE DEF IInv
<1>1. pc[w] = "writing" /\ fd[w] \in Inodes /\ fd[w] # None /\ pos[w] < Blocks
  BY NoneFacts DEF WriteTemp, Put, CallInv
<1>2. /\ file'[fd[w]].data = [file[fd[w]].data EXCEPT ![pos[w] + 1] = body[w]]
      /\ \A j \in Inodes \ {fd[w]} : file'[j] = file[j]
  BY <1>1 DEF WriteTemp, Put, TypeOK
<1>3. CallInv'
  BY <1>1 DEF WriteTemp, Put, CallInv, TypeOK, call
<1>4. NameInv'
  BY DEF WriteTemp, Put, NameInv, TempsApart, NamesApart, TempNotDest, OrphansThere, TempsOwned, call
<1>5. DataInv'
  <2>1. \A v \in Writers \ {w} : pc[v] \in {"writing", "synced"} => fd[v] \in Inodes \ {fd[w]}
    BY <1>1, FilesApart DEF CallInv
  <2>2. \A k \in 1..(pos[w] + 1) : file'[fd[w]].data[k] = body[w]
    <3> TAKE k \in 1..(pos[w] + 1)
    <3>1. pos[w] \in Nat /\ k \in 1..Blocks /\ (k = pos[w] + 1 \/ k \in 1..pos[w])
      BY <1>1, NoneFacts DEF TypeOK
    <3>2. DOMAIN file[fd[w]].data = 1..Blocks
      BY <1>1 DEF TypeOK
    <3> QED BY <1>1, <1>2, <3>1, <3>2 DEF DataInv
  <2>3. \A i \in durable \ {None} : i \in Inodes \ {fd[w]}
    BY <1>1, FileIsNoDest DEF TypeOK
  <2>4. pos'[w] = pos[w] + 1 /\ \A v \in Writers \ {w} : pos'[v] = pos[v]
    BY DEF WriteTemp, Put, TypeOK
  <2>5. UNCHANGED <<pc, fd, body, durable>>
    BY DEF WriteTemp, Put, call
  <2> QED
    <3>1. \A i \in durable' \ {None} :
            file'[i].synced => \E a \in Artifacts : HoldsAll(i, a)'
      BY <1>2, <2>3, <2>5 DEF DataInv, HoldsAll
    <3>2. \A v \in Writers : pc'[v] \in {"writing", "synced"} =>
            \A k \in 1..pos'[v] : file'[fd'[v]].data[k] = body'[v]
      <4> TAKE v \in Writers
      <4>1. CASE v = w
        BY <4>1, <2>2, <2>4, <2>5
      <4>2. CASE v # w
        BY <4>2, <1>2, <2>1, <2>4, <2>5 DEF DataInv
      <4> QED BY <4>1, <4>2
    <3>3. \A v \in Writers : pc'[v] = "synced" => pos'[v] = Blocks /\ file'[fd'[v]].synced
      <4> TAKE v \in Writers
      <4>1. CASE v = w
        BY <4>1, <1>1, <2>5
      <4>2. CASE v # w
        BY <4>2, <1>2, <2>1, <2>4, <2>5 DEF DataInv
      <4> QED BY <4>1, <4>2
    <3> QED BY <3>1, <3>2, <3>3 DEF DataInv
<1> QED BY <1>3, <1>4, <1>5

LEMMA SyncTempIInv ==
    ASSUME IInv, NEW w \in Writers, SyncTemp(w)
    PROVE  (CallInv /\ NameInv /\ DataInv)'
<1> USE DEF IInv
<1>1. pc[w] = "writing" /\ fd[w] \in Inodes /\ fd[w] # None
  BY NoneFacts DEF SyncTemp, CallInv
<1>2. /\ file'[fd[w]].data = file[fd[w]].data
      /\ file'[fd[w]].synced
      /\ \A j \in Inodes \ {fd[w]} : file'[j] = file[j]
  BY <1>1 DEF SyncTemp, TypeOK
<1>3. CallInv'
  BY DEF SyncTemp, Goto, CallInv, TypeOK, call, local
<1>4. NameInv'
  BY DEF SyncTemp, NameInv, TempsApart, NamesApart, TempNotDest, OrphansThere, TempsOwned, local
<1>5. DataInv'
  <2>1. \A v \in Writers \ {w} : pc[v] \in {"writing", "synced"} => fd[v] \in Inodes \ {fd[w]}
    BY <1>1, FilesApart DEF CallInv
  <2>2. \A i \in durable \ {None} : i \in Inodes \ {fd[w]}
    BY <1>1, FileIsNoDest DEF TypeOK
  <2>3. pc[w] = "writing" /\ pc'[w] = "synced" /\ \A v \in Writers \ {w} : pc'[v] = pc[v]
    BY DEF SyncTemp, Goto, TypeOK
  <2>4. UNCHANGED <<pos, fd, body, durable>> /\ pos[w] = Blocks
    BY DEF SyncTemp, call, local
  <2> QED
    BY <1>2, <2>1, <2>2, <2>3, <2>4 DEF DataInv, HoldsAll
<1> QED BY <1>3, <1>4, <1>5

LEMMA RenameIInv ==
    ASSUME IInv, NEW w \in Writers, Rename(w)
    PROVE  /\ (CallInv /\ NameInv /\ DataInv)'
           /\ dest' = fd[w] /\ HoldsAll(fd[w], want[w]) /\ file' = file
           /\ want[w] \in Artifacts
<1> USE DEF IInv
<1>1. /\ dir[temp[w]] = fd[w] /\ temp[w] \in Names \ orphans
      /\ fd[w] \in Inodes /\ fd[w] # None
      /\ body[w] = want[w] /\ want[w] \in Artifacts
  BY NoneFacts DEF Rename, CallInv, TypeOK
<1>2. HoldsAll(fd[w], want[w]) /\ file[fd[w]].synced
  BY <1>1 DEF Rename, DataInv, HoldsAll
<1>3. \A v \in Writers \ {w} : temp[v] # temp[w]
  BY <1>1, NoneFacts DEF NameInv, TempsApart, TypeOK
<1>4. CallInv'
  <2>1. \A n \in Names : dir'[n] = (IF n = temp[w] THEN None ELSE dir[n])
    BY <1>1 DEF Rename, TypeOK
  <2>2. orphans' = orphans /\ Return(w)
    BY DEF Rename
  <2> QED BY <1>3, <2>1, <2>2, ReturnCall, NoneFacts DEF CallInv
<1>5. NameInv'
  <2>1. TempsApart'
    BY ReturnTemps DEF Rename, NameInv
  <2>2. NamesApart'
    BY <1>1, <1>3, ReturnCall, NoneFacts DEF Rename, TypeOK, NameInv, NamesApart
  <2>3. TempNotDest'
    <3>1. \A n \in Names \ {temp[w]} : dir'[n] = dir[n] /\ (dir[n] # None => dir[n] # fd[w])
      BY <1>1 DEF Rename, TypeOK, NameInv, NamesApart
    <3>2. dir'[temp[w]] = None
      BY <1>1 DEF Rename, TypeOK
    <3> QED BY <1>1, <3>1, <3>2 DEF Rename, NameInv, TempNotDest
  <2>4. OrphansThere'
    BY <1>1, <1>3, ReturnCall, NoneFacts DEF Rename, TypeOK, NameInv, OrphansThere
  <2>5. TempsOwned'
    <3> SUFFICES ASSUME NEW n \in Names \ orphans, dir'[n] # None
                 PROVE  \E v \in Writers : temp'[v] = n
      BY DEF Rename, TempsOwned
    <3>1. n # temp[w] /\ dir[n] # None
      BY <1>1 DEF Rename, TypeOK
    <3> QED BY <3>1, OwnerStays DEF Rename, NameInv
  <2>6. dest' \in durable'
    BY <1>1, <1>3, ReturnCall, NoneFacts DEF Rename, TypeOK, NameInv
  <2> QED BY <2>1, <2>2, <2>3, <2>4, <2>5, <2>6 DEF NameInv
<1>6. DataInv'
  BY <1>1, <1>2, ReturnCall DEF Rename, DataInv, HoldsAll
<1> QED BY <1>1, <1>2, <1>4, <1>5, <1>6 DEF Rename

LEMMA SysCallFailsIInv ==
    ASSUME IInv, NEW w \in Writers, SysCallFails(w)
    PROVE  (CallInv /\ NameInv /\ DataInv)'
<1> USE DEF IInv
<1>1. CASE Goto(w, "cleanup") /\ UNCHANGED <<disk, call, local>>
           /\ pc[w] \in {"writing", "synced"}
  <2>1. CallInv'
    BY <1>1 DEF Goto, CallInv, TypeOK, disk, call, local
  <2>2. NameInv'
    BY <1>1 DEF NameInv, TempsApart, NamesApart, TempNotDest, OrphansThere, TempsOwned, disk, local
  <2>3. DataInv'
    BY <1>1 DEF Goto, DataInv, TypeOK, disk, local, call, HoldsAll
  <2> QED BY <2>1, <2>2, <2>3
<1>2. CASE Return(w) /\ UNCHANGED disk /\ pc[w] \in {"verified", "overwriting"}
  BY <1>2, ReturnIdle DEF CallInv
<1> QED BY <1>1, <1>2 DEF SysCallFails

LEMMA RemoveTempIInv ==
    ASSUME IInv, NEW w \in Writers, RemoveTemp(w)
    PROVE  (CallInv /\ NameInv /\ DataInv)'
<1> USE DEF IInv
<1>1. /\ dir[temp[w]] = fd[w] /\ temp[w] \in Names \ orphans /\ fd[w] # None
      /\ Return(w) /\ UNCHANGED <<dest, durable, file>>
  BY NoneFacts DEF RemoveTemp, CallInv
<1>2. \A v \in Writers \ {w} : temp[v] # temp[w]
  BY <1>1, NoneFacts DEF NameInv, TempsApart, TypeOK
<1>3. \/ dir' = [dir EXCEPT ![temp[w]] = None] /\ orphans' = orphans
      \/ dir' = dir /\ orphans' = orphans \union {temp[w]}
  BY <1>1 DEF RemoveTemp
<1>4. CallInv'
  <2>1. \A n \in Names \ {temp[w]} :
            dir'[n] = dir[n] /\ (n \in orphans' <=> n \in orphans)
    BY <1>1, <1>3 DEF TypeOK
  <2>2. dir'[temp[w]] \in {None, dir[temp[w]]}
    BY <1>1, <1>3 DEF TypeOK
  <2>3. ASSUME NEW v \in Writers, pc'[v] = "overwriting"
        PROVE  fd'[v] \in Inodes /\ \A n \in Names : dir'[n] # fd'[v]
    <3>1. v # w /\ pc[v] = "overwriting" /\ fd'[v] = fd[v]
      BY <1>1, <2>3, ReturnCall
    <3> QED BY <2>1, <2>2, <3>1, NoneFacts DEF CallInv
  <2> QED BY <1>1, <1>2, <2>1, <2>3, ReturnCall DEF CallInv
<1>5. NameInv'
  <2>1. TempsApart'
    BY <1>1, ReturnTemps DEF NameInv
  <2>2. NamesApart'
    <3>1. CASE dir' = dir
      BY <3>1 DEF NameInv, NamesApart
    <3>2. CASE dir' = [dir EXCEPT ![temp[w]] = None]
      BY <1>1, <3>2 DEF TypeOK, NameInv, NamesApart
    <3> QED BY <1>3, <3>1, <3>2
  <2>3. TempNotDest'
    BY <1>1, <1>2, <1>3, ReturnCall, NoneFacts DEF TypeOK, NameInv, TempNotDest
  <2>4. OrphansThere'
    BY <1>1, <1>2, <1>3, ReturnCall, NoneFacts DEF TypeOK, NameInv, OrphansThere
  <2>5. TempsOwned'
    <3> SUFFICES ASSUME NEW n \in Names \ orphans', dir'[n] # None
                 PROVE  \E v \in Writers : temp'[v] = n
      BY DEF TempsOwned
    <3>1. n \in Names \ orphans /\ dir[n] # None /\ n # temp[w]
      BY <1>1, <1>3 DEF TypeOK
    <3> QED BY <1>1, <3>1, OwnerStays DEF NameInv
  <2>6. dest' \in durable'
    BY <1>1, <1>2, <1>3, ReturnCall, NoneFacts DEF TypeOK, NameInv
  <2> QED BY <2>1, <2>2, <2>3, <2>4, <2>5, <2>6 DEF NameInv
<1>6. DataInv'
  BY <1>1, ReturnCall DEF DataInv, HoldsAll
<1> QED BY <1>4, <1>5, <1>6

LEMMA ResetCalls ==
    ASSUME TypeOK, NEW S, Reset(S)
    PROVE  \A w \in Writers :
             /\ w \in S => /\ pc'[w] = "idle" /\ want'[w] = None /\ temp'[w] = None
                           /\ fd'[w] = None /\ pos'[w] = 0
             /\ w \notin S => /\ pc'[w] = pc[w] /\ want'[w] = want[w]
                              /\ sdk'[w] = sdk[w] /\ body'[w] = body[w]
                              /\ temp'[w] = temp[w] /\ fd'[w] = fd[w]
                              /\ pos'[w] = pos[w]
BY DEF Reset, TypeOK

LEMMA KillIInv ==
    ASSUME IInv, NEW p \in Procs, Kill(p)
    PROVE  (CallInv /\ NameInv /\ DataInv)'
<1> USE DEF IInv
<1> DEFINE S == {w \in Writers : ProcOf[w] = p}
<1>1. Reset(S) /\ orphans' = orphans \union LiveTemps(S)
      /\ UNCHANGED <<dest, durable, dir, file>>
  BY DEF Kill
<1>2. \A w \in S : temp[w] # None =>
        temp[w] \in LiveTemps(S) /\ dir[temp[w]] # None
  BY NoneFacts DEF LiveTemps, Holds, CallInv
<1>3. \A n \in LiveTemps(S) :
        n \in Names /\ dir[n] # None /\ \E w \in S : temp[w] = n
  BY NoneFacts DEF LiveTemps, Holds, CallInv
<1>4. \A w \in Writers \ S : temp[w] \notin LiveTemps(S)
  BY <1>3, NoneFacts DEF NameInv, TempsApart
<1> HIDE DEF S
<1>5. CallInv'
  BY <1>1, <1>4, ResetCalls DEF CallInv
<1>6. NameInv'
  <2>1. TempsApart'
    <3> SUFFICES ASSUME NEW u \in Writers, NEW v \in Writers, u # v, temp'[u] # None
                 PROVE  temp'[u] # temp'[v]
      BY DEF TempsApart
    <3> QED BY <1>1, ResetCalls DEF NameInv, TempsApart
  <2>2. TempsOwned'
    <3> SUFFICES ASSUME NEW n \in Names \ orphans', dir'[n] # None
                 PROVE  \E w \in Writers : temp'[w] = n
      BY DEF TempsOwned
    <3>1. PICK w \in Writers : temp[w] = n
      BY <1>1 DEF NameInv, TempsOwned
    <3>2. w \notin S
      BY <1>1, <1>2, <3>1, NoneFacts
    <3> QED BY <1>1, <3>1, <3>2, ResetCalls
  <2>3. NamesApart' /\ TempNotDest' /\ dest' \in durable'
    BY <1>1 DEF NameInv, NamesApart, TempNotDest
  <2>4. OrphansThere'
    BY <1>1, <1>3 DEF NameInv, OrphansThere
  <2> QED BY <2>1, <2>2, <2>3, <2>4 DEF NameInv
<1>7. DataInv'
  BY <1>1, ResetCalls DEF DataInv, HoldsAll
<1> QED BY <1>5, <1>6, <1>7

LEMMA SyncDirectoryIInv ==
    ASSUME IInv, SyncDirectory
    PROVE  (CallInv /\ NameInv /\ DataInv)'
<1> USE DEF IInv
<1>1. durable' = {dest} /\ durable' \subseteq durable
  BY DEF SyncDirectory, NameInv
<1>2. CallInv'
  BY DEF SyncDirectory, CallInv, call, local
<1>3. NameInv'
  BY <1>1 DEF SyncDirectory, local, NameInv, TempsApart, NamesApart, TempNotDest,
             OrphansThere, TempsOwned
<1>4. DataInv'
  BY <1>1 DEF SyncDirectory, call, local, DataInv, HoldsAll
<1> QED BY <1>2, <1>3, <1>4

LEMMA PowerLossIInv ==
    ASSUME IInv, PowerLoss
    PROVE  /\ (CallInv /\ NameInv /\ DataInv)'
           /\ dest' \in durable /\ durable' = {dest'}
           /\ \A i \in durable \ {None} : file[i].synced => file'[i] = file[i]
<1> USE DEF IInv
<1>1. Reset(Writers)
  BY DEF PowerLoss
<1>2. PICK kept \in SUBSET {n \in Names : dir[n] # None} :
        /\ dir' = [n \in Names |-> IF n \in kept THEN dir[n] ELSE None]
        /\ orphans' = kept
  BY DEF PowerLoss
<1>3. PICK torn \in SUBSET {i \in Inodes : ~file[i].synced} :
        file' = [i \in Inodes |-> IF i \in torn THEN Blank ELSE file[i]]
  BY DEF PowerLoss
<1>4. dest' \in durable /\ durable' = {dest'}
  BY DEF PowerLoss
<1>5. \A i \in durable \ {None} :
        IF file'[i].synced THEN file'[i] = file[i] ELSE ~file[i].synced
  BY <1>3 DEF TypeOK, Blank
<1>6. CallInv'
  BY <1>1, ResetCalls DEF CallInv
<1>7. NameInv'
  <2>1. TempsApart'
    BY <1>1, ResetCalls DEF TempsApart
  <2>2. NamesApart'
    BY <1>2 DEF NameInv, NamesApart
  <2>3. TempNotDest'
    BY <1>2, <1>4 DEF NameInv, TempNotDest
  <2>4. OrphansThere' /\ TempsOwned'
    BY <1>2 DEF OrphansThere, TempsOwned
  <2> QED BY <1>4, <2>1, <2>2, <2>3, <2>4 DEF NameInv
<1>8. DataInv'
  BY <1>1, <1>4, <1>5, ResetCalls DEF DataInv, HoldsAll
<1> QED BY <1>4, <1>5, <1>6, <1>7, <1>8

\* Truncating the destination, or creating it, touches no temporary file.
LEMMA OpenDestIInv ==
    ASSUME IInv, NEW w \in Writers, OpenDest(w)
    PROVE  (CallInv /\ NameInv /\ DataInv)'
<1> USE DEF IInv
<1>1. PICK i \in (IF dest = None THEN FreeInodes ELSE {dest}) :
        /\ dest' = i
        /\ durable' = durable \union {i}
        /\ file' = [file EXCEPT ![i] = Blank]
        /\ fd' = [fd EXCEPT ![w] = i]
  BY DEF OpenDest
<1>2. /\ i \in Inodes /\ i # None
      /\ \A n \in Names : dir[n] # i
      /\ i \in durable \/ \A v \in Writers : fd[v] # i
  BY <1>1, NoneFacts DEF FreeInodes, TypeOK, NameInv, TempNotDest
<1>3. /\ pc[w] = "verified" /\ pc'[w] = "overwriting" /\ fd'[w] = i
      /\ \A v \in Writers \ {w} : pc'[v] = pc[v] /\ fd'[v] = fd[v]
      /\ UNCHANGED <<dir, want, body, temp, pos, orphans>>
  BY <1>1 DEF OpenDest, Goto, call, TypeOK
<1>4. CallInv'
  BY <1>2, <1>3 DEF CallInv
<1>5. NameInv'
  BY <1>1, <1>2, <1>3 DEF NameInv, TempsApart, NamesApart, TempNotDest, OrphansThere, TempsOwned
<1>6. DataInv'
  <2>1. ~file'[i].synced /\ \A j \in Inodes \ {i} : file'[j] = file[j]
    BY <1>1, <1>2 DEF TypeOK, Blank
  <2>2. \A v \in Writers \ {w} : pc[v] \in {"writing", "synced"} => fd[v] \in Inodes \ {i}
    BY <1>2 DEF CallInv
  <2>3. \A j \in durable' \ {None} : j # i => j \in durable /\ j \in Inodes
    BY <1>1 DEF TypeOK
  <2> QED BY <1>3, <2>1, <2>2, <2>3 DEF DataInv, HoldsAll
<1> QED BY <1>4, <1>5, <1>6

\* Writing the destination leaves it unsynced, and touches no temporary file.
LEMMA WriteDestIInv ==
    ASSUME IInv, NEW w \in Writers, WriteDest(w)
    PROVE  (CallInv /\ NameInv /\ DataInv)'
<1> USE DEF IInv
<1>1. /\ pc[w] = "overwriting" /\ fd[w] \in Inodes
      /\ \A n \in Names : dir[n] # fd[w]
  BY DEF WriteDest, CallInv
<1>2. /\ ~file'[fd[w]].synced
      /\ \A j \in Inodes \ {fd[w]} : file'[j] = file[j]
  BY <1>1 DEF WriteDest, Put, TypeOK
<1>3. /\ UNCHANGED <<dest, durable, dir, pc, sdk, want, body, temp, fd, over, orphans>>
      /\ \A v \in Writers \ {w} : pos'[v] = pos[v]
  BY DEF WriteDest, Put, TypeOK, call
<1>4. CallInv'
  BY <1>1, <1>3 DEF CallInv
<1>5. NameInv'
  BY <1>3 DEF NameInv, TempsApart, NamesApart, TempNotDest, OrphansThere, TempsOwned
<1>6. DataInv'
  <2>1. \A v \in Writers : pc[v] \in {"writing", "synced"} =>
            v # w /\ fd[v] \in Inodes \ {fd[w]}
    BY <1>1 DEF CallInv
  <2>2. \A j \in durable \ {None} : j \in Inodes
    BY DEF TypeOK
  <2> QED BY <1>2, <1>3, <2>1, <2>2 DEF DataInv, HoldsAll
<1> QED BY <1>4, <1>5, <1>6

LEMMA CloseDestIInv ==
    ASSUME IInv, NEW w \in Writers, CloseDest(w)
    PROVE  (CallInv /\ NameInv /\ DataInv)'
BY ReturnIdle DEF CloseDest, IInv, CallInv

LEMMA StepIInv ==
    ASSUME IInv, Unshared, NEW w \in Writers, Step(w)
    PROVE  (CallInv /\ NameInv /\ DataInv)'
BY VerifyIInv, CreateTempIInv, NameTakenIInv, WriteTempIInv, SyncTempIInv,
   RenameIInv, SysCallFailsIInv, RemoveTempIInv, OpenDestIInv, WriteDestIInv,
   CloseDestIInv DEF Step

\* The invariant under every step of the system.
LEMMA NextIInv ==
    ASSUME Unshared, IInv, TypeOK', [Next]_vars
    PROVE  IInv'
<1>1. ASSUME NEW w \in Writers, NEW s \in Sdks, NEW a \in Artifacts,
             NEW b \in Bodies, Fetch(w, s, a, b)
      PROVE  IInv'
  BY <1>1, FetchIInv DEF IInv
<1>2. ASSUME NEW w \in Writers, Step(w) PROVE IInv'
  BY <1>2, StepIInv DEF IInv
<1>3. ASSUME NEW p \in Procs, Kill(p) PROVE IInv'
  BY <1>3, KillIInv DEF IInv
<1>4. CASE SyncDirectory
  BY <1>4, SyncDirectoryIInv DEF IInv
<1>5. CASE PowerLoss
  BY <1>5, PowerLossIInv DEF IInv
<1>6. CASE UNCHANGED vars
  BY <1>6 DEF IInv, CallInv, NameInv, DataInv, HoldsAll, vars, TempsApart,
     NamesApart, TempNotDest, OrphansThere, TempsOwned
<1> QED BY <1>1, <1>2, <1>3, <1>4, <1>5, <1>6 DEF Next

LEMMA Inductive ==
    ASSUME Unshared
    PROVE  Spec => []IInv
<1>1. Init => CallInv /\ NameInv /\ DataInv
  BY IInvInit
<1>2. IInv /\ TypeOK' /\ [Next]_vars => IInv'
  BY NextIInv
<1> QED
  BY TypeCorrect, <1>1, <1>2, PTL DEF Spec, IInv

-----------------------------------------------------------------------------
(* What follows from the invariant. *)

\* A file whose blocks all hold one body contains that body.
LEMMA ContentWhole ==
    ASSUME NEW i \in Inodes, NEW a \in Bodies, HoldsAll(i, a)
    PROVE  Content(i) = a
<1>1. \A b \in Bodies : HoldsAll(i, b) => b = a
  BY NoneFacts DEF HoldsAll
<1> QED BY <1>1, NoneFacts DEF Content

\* Without overwriting SDKs nothing but synced files is ever a destination.
AllReplace == Sdks \subseteq Replacing

OnlyReplacing ==
    /\ \A w \in Writers : pc[w] # "overwriting" /\ (pc[w] # "idle" => sdk[w] \in Replacing)
    /\ \A i \in durable \ {None} : file[i].synced

\* No call of a replacing SDK reaches the destination except by its rename.
LEMMA StepOnlyReplacing ==
    ASSUME IInv, OnlyReplacing, NEW w \in Writers, Step(w)
    PROVE  OnlyReplacing'
<1> USE DEF IInv
<1>1. ~OpenDest(w) /\ ~WriteDest(w) /\ ~CloseDest(w)
  BY DEF OpenDest, WriteDest, CloseDest, OnlyReplacing, Replacing, Overwriting
<1>2. /\ pc'[w] # "overwriting" /\ (pc'[w] # "idle" => pc[w] # "idle" /\ sdk'[w] = sdk[w])
      /\ \A v \in Writers \ {w} : pc'[v] = pc[v] /\ sdk'[v] = sdk[v]
  <2>1. CASE Return(w)
    BY <2>1, ReturnCall
  <2>2. CASE sdk' = sdk
    BY <1>1, <2>2 DEF Step, Verify, CreateTemp, NameTaken, WriteTemp, SyncTemp, Rename,
       SysCallFails, RemoveTemp, Put, Return, Goto, OnlyReplacing, TypeOK
  <2> QED
    BY <1>1, <2>1, <2>2 DEF Step, Verify, CreateTemp, NameTaken, WriteTemp, SyncTemp,
       Rename, SysCallFails, RemoveTemp, Put, call
<1>3. \A i \in durable' \ {None} : file'[i].synced
  <2>1. CASE CreateTemp(w)
    <3>1. PICK i \in FreeInodes : file' = [file EXCEPT ![i] = Blank] /\ durable' = durable
      BY <2>1 DEF CreateTemp
    <3> QED BY <3>1 DEF FreeInodes, OnlyReplacing, TypeOK
  <2>2. CASE WriteTemp(w) \/ SyncTemp(w)
    <3>1. fd[w] \notin durable /\ durable' = durable
      BY <2>2, FileIsNoDest DEF WriteTemp, SyncTemp, Put
    <3>2. \A i \in durable \ {None} : file'[i] = file[i]
      BY <2>2, <3>1 DEF WriteTemp, SyncTemp, Put, TypeOK
    <3> QED BY <3>1, <3>2 DEF OnlyReplacing
  <2>3. CASE Rename(w)
    BY <2>3 DEF Rename, OnlyReplacing, CallInv, DataInv
  <2>4. CASE Verify(w) \/ NameTaken(w) \/ SysCallFails(w) \/ RemoveTemp(w)
    BY <2>4 DEF Verify, NameTaken, SysCallFails, RemoveTemp, disk, OnlyReplacing
  <2> QED BY <1>1, <2>1, <2>2, <2>3, <2>4 DEF Step
<1> QED BY <1>2, <1>3 DEF OnlyReplacing

LEMMA NextOnlyReplacing ==
    ASSUME IInv, OnlyReplacing, AllReplace, [Next]_vars
    PROVE  OnlyReplacing'
<1> USE DEF IInv
<1>1. ASSUME NEW w \in Writers, NEW s \in Sdks, NEW a \in Artifacts,
             NEW b \in Bodies, Fetch(w, s, a, b)
      PROVE  OnlyReplacing'
  BY <1>1 DEF Fetch, Goto, disk, OnlyReplacing, AllReplace, TypeOK
<1>2. ASSUME NEW w \in Writers, Step(w) PROVE OnlyReplacing'
  BY <1>2, StepOnlyReplacing
<1>3. ASSUME NEW p \in Procs, Kill(p) PROVE OnlyReplacing'
  <2>1. UNCHANGED <<durable, file>> /\ Reset({w \in Writers : ProcOf[w] = p})
    BY <1>3 DEF Kill
  <2> QED BY <2>1, ResetCalls DEF OnlyReplacing
<1>4. CASE SyncDirectory
  BY <1>4 DEF SyncDirectory, call, NameInv, OnlyReplacing
<1>5. CASE PowerLoss
  <2>1. Reset(Writers) /\ durable' \subseteq durable
    BY <1>5 DEF PowerLoss
  <2>2. \A i \in durable \ {None} : file'[i] = file[i]
    BY <1>5, PowerLossIInv DEF OnlyReplacing
  <2> QED BY <2>1, <2>2, ResetCalls DEF OnlyReplacing
<1>6. CASE UNCHANGED vars
  BY <1>6 DEF vars, OnlyReplacing
<1> QED BY <1>1, <1>2, <1>3, <1>4, <1>5, <1>6 DEF Next

LEMMA AlwaysOnlyReplacing ==
    ASSUME Unshared, AllReplace
    PROVE  Spec => []OnlyReplacing
<1>1. Init => OnlyReplacing
  BY DEF Init, OnlyReplacing, Whole
<1>2. IInv /\ OnlyReplacing /\ [Next]_vars => OnlyReplacing'
  BY NextOnlyReplacing
<1> QED BY Inductive, <1>1, <1>2, PTL DEF Spec

\* Whatever a past or present destination contains, it is whole.
LEMMA WholeIfInv ==
    ASSUME IInv, OnlyReplacing
    PROVE  \A i \in durable \union {dest} : Content(i) \in Artifacts \union {None}
<1> TAKE i \in durable \union {dest}
<1>1. i \in durable
  BY DEF IInv, NameInv
<1>2. CASE i = None
  BY <1>2 DEF Content
<1>3. CASE i # None
  <2>1. i \in Inodes
    BY <1>1, <1>3 DEF IInv, TypeOK
  <2>2. PICK a \in Artifacts : HoldsAll(i, a)
    BY <1>1, <1>3 DEF IInv, DataInv, OnlyReplacing
  <2> QED BY <2>1, <2>2, ContentWhole, NoneFacts
<1> QED BY <1>2, <1>3

\* The main promise of the replacing SDKs: whatever calls overlap, fail, are
\* killed or lose power, a reader of the destination finds nothing or one
\* complete, verified artifact.
THEOREM DestAlwaysWhole ==
    ASSUME Unshared, AllReplace
    PROVE  Spec => []DestWhole
<1>1. IInv /\ OnlyReplacing => DestWhole
  BY WholeIfInv DEF DestWhole
<1> QED BY Inductive, AlwaysOnlyReplacing, <1>1, PTL

\* No call leaks its temporary file, and no two calls share one.
THEOREM TempsAlwaysAccountedFor ==
    ASSUME Unshared
    PROVE  Spec => []TempsAccountedFor
<1>1. IInv => TempsAccountedFor
  <2> SUFFICES ASSUME IInv, NEW n \in Names, dir[n] # None
               PROVE  \/ /\ n \in orphans
                         /\ \A w \in Writers : Holds(w) => fd[w] # dir[n]
                      \/ /\ n \notin orphans
                         /\ \E w \in Writers :
                              /\ Holds(w) /\ temp[w] = n /\ fd[w] = dir[n]
                              /\ \A v \in Writers \ {w} : fd[v] # dir[n]
    BY DEF TempsAccountedFor
  <2>1. CASE n \in orphans
    <3> SUFFICES ASSUME NEW w \in Writers, Holds(w) PROVE fd[w] # dir[n]
      BY <2>1
    <3>1. temp[w] \in Names /\ temp[w] # n /\ dir[temp[w]] = fd[w]
      BY <2>1 DEF Holds, IInv, CallInv
    <3> QED BY <3>1 DEF IInv, NameInv, NamesApart
  <2>2. CASE n \notin orphans
    <3>1. PICK w \in Writers : temp[w] = n
      BY <2>2 DEF IInv, NameInv, TempsOwned
    <3>2. pc[w] \in {"writing", "synced", "cleanup"} /\ fd[w] = dir[n]
      BY <3>1, NoneFacts DEF IInv, CallInv
    <3>3. \A v \in Writers \ {w} : fd[v] # dir[n]
      BY <3>2, FilesApart DEF IInv
    <3> QED BY <2>2, <3>1, <3>2, <3>3 DEF Holds
  <2> QED BY <2>1, <2>2
<1> QED BY Inductive, <1>1, PTL

\* A call whose temporary file is there keeps it, unless the call ends.
LEMMA TempKept ==
    ASSUME IInv, Unshared, [Next]_vars, NEW w \in Writers, Holds(w), pc'[w] # "idle"
    PROVE  dir'[temp[w]] = fd[w]
<1>1. temp[w] \in Names /\ dir[temp[w]] = fd[w] /\ fd[w] # None
  BY DEF Holds, IInv, CallInv
<1>2. ASSUME NEW v \in Writers, NEW s \in Sdks, NEW a \in Artifacts, NEW b \in Bodies,
             Fetch(v, s, a, b)
      PROVE  dir' = dir
  BY <1>2 DEF Fetch, disk
<1>3. ASSUME NEW v \in Writers, Step(v) PROVE dir'[temp[w]] = fd[w]
  <2>1. CASE CreateTemp(v)
    <3>1. PICK n \in Names, i \in FreeInodes : dir[n] = None /\ dir' = [dir EXCEPT ![n] = i]
      BY <2>1 DEF CreateTemp, TempNames, ProbedNames, ClockNames, CountedNames
    <3> QED BY <1>1, <3>1 DEF IInv, TypeOK
  <2>2. CASE Rename(v) \/ RemoveTemp(v)
    <3>1. v # w
      BY <2>2 DEF Rename, RemoveTemp, Return, Goto, IInv, TypeOK
    <3>2. temp[v] # temp[w]
      BY <1>1, <3>1, NoneFacts DEF IInv, NameInv, TempsApart
    <3> QED BY <1>1, <2>2, <3>2 DEF Rename, RemoveTemp, IInv, TypeOK
  <2>3. CASE Verify(v) \/ NameTaken(v) \/ WriteTemp(v) \/ SyncTemp(v) \/ SysCallFails(v)
             \/ OpenDest(v) \/ WriteDest(v) \/ CloseDest(v)
    BY <1>1, <2>3 DEF Verify, NameTaken, WriteTemp, SyncTemp, SysCallFails, OpenDest,
       WriteDest, CloseDest, Put, disk
  <2> QED BY <1>3, <2>1, <2>2, <2>3 DEF Step
<1>4. ASSUME NEW p \in Procs, Kill(p) PROVE dir' = dir
  BY <1>4 DEF Kill
<1>5. CASE SyncDirectory
  BY <1>1, <1>5 DEF SyncDirectory
<1>6. CASE PowerLoss
  BY <1>6 DEF PowerLoss, Reset
<1>7. CASE UNCHANGED vars
  BY <1>1, <1>7 DEF vars
<1> QED BY <1>1, <1>2, <1>3, <1>4, <1>5, <1>6, <1>7 DEF Next

\* No call ever removes or renames the temporary file of another.
THEOREM TempsNeverStolen ==
    ASSUME Unshared
    PROVE  Spec => OwnTempsOnly
<1>1. IInv /\ [Next]_vars =>
        [\A w \in Writers :
            (Holds(w) /\ dir'[temp[w]] # fd[w]) => pc'[w] = "idle"]_vars
  BY TempKept
<1> QED BY Inductive, <1>1, PTL DEF Spec, OwnTempsOnly

\* A call that leaves "synced" for "idle" either renamed or was killed.
LEMMA SyncedEnds ==
    ASSUME IInv, Unshared, [Next]_vars, NEW w \in Writers,
           pc[w] = "synced", pc'[w] = "idle", dest' \notin durable
    PROVE  Rename(w)
<1>1. ASSUME NEW v \in Writers, NEW s \in Sdks, NEW a \in Artifacts, NEW b \in Bodies,
             Fetch(v, s, a, b)
      PROVE  FALSE
  BY <1>1 DEF Fetch, disk, IInv, NameInv
<1>2. ASSUME NEW v \in Writers, Step(v) PROVE Rename(w)
  <2>1. v = w
    BY <1>2 DEF Step, Verify, CreateTemp, NameTaken, WriteTemp, SyncTemp, Rename,
       SysCallFails, RemoveTemp, OpenDest, WriteDest, CloseDest, Put, Return, Goto,
       local, IInv, TypeOK
  <2> QED
    BY <1>2, <2>1 DEF Step, Verify, CreateTemp, NameTaken, WriteTemp, SyncTemp,
       SysCallFails, RemoveTemp, OpenDest, WriteDest, CloseDest, Put, Goto, IInv, TypeOK
<1>3. ASSUME NEW p \in Procs, Kill(p) PROVE FALSE
  BY <1>3 DEF Kill, IInv, NameInv
<1>4. CASE SyncDirectory
  BY <1>4 DEF SyncDirectory
<1>5. CASE PowerLoss
  BY <1>5 DEF PowerLoss
<1>6. CASE UNCHANGED vars
  BY <1>6 DEF vars
<1> QED BY <1>1, <1>2, <1>3, <1>4, <1>5, <1>6 DEF Next

\* The rename that ends a call puts that call's own artifact in place.
THEOREM RenameInstallsOwn ==
    ASSUME Unshared
    PROVE  Spec => InstallsOwn
<1>1. ASSUME IInv, [Next]_vars, NEW w \in Writers,
             pc[w] = "synced", pc'[w] = "idle", dest' \notin durable
      PROVE  Content(dest)' = want[w]
  <2>1. Rename(w)
    BY <1>1, SyncedEnds
  <2>2. /\ dest' = fd[w] /\ HoldsAll(fd[w], want[w]) /\ file' = file
        /\ want[w] \in Artifacts
    BY <1>1, <2>1, RenameIInv
  <2>3. fd[w] \in Inodes
    BY <1>1 DEF IInv, CallInv
  <2>4. Content(fd[w]) = want[w]
    BY <2>2, <2>3, ContentWhole, NoneFacts
  <2> QED BY <2>2, <2>4 DEF Content, HoldsAll
<1>2. IInv /\ [Next]_vars =>
        [\A w \in Writers :
            (pc[w] = "synced" /\ pc'[w] = "idle" /\ dest' \notin durable) =>
                Content(dest)' = want[w]]_vars
  BY <1>1
<1> QED BY Inductive, <1>2, PTL DEF Spec, InstallsOwn

\* A destination that is no longer a complete artifact is open in an
\* overwriting call, or the power failed before it was synced.
LEMMA TornStep ==
    ASSUME IInv, Unshared, [Next]_vars, Content(dest) \in Artifacts, dest' # None,
           Content(dest)' \notin Artifacts
    PROVE  \/ \E w \in Writers : pc'[w] = "overwriting" /\ fd'[w] = dest'
           \/ ~file[dest'].synced /\ \A w \in Writers : pc'[w] = "idle"
<1> DEFINE Goal == \/ \E w \in Writers : pc'[w] = "overwriting" /\ fd'[w] = dest'
                   \/ ~file[dest'].synced /\ \A w \in Writers : pc'[w] = "idle"
<1>1. dest # None /\ dest \in Inodes /\ dest \in durable
  BY NoneFacts DEF Content, IInv, TypeOK, NameInv
<1>2. ASSUME dest' = dest, file'[dest] = file[dest] PROVE FALSE
  BY <1>2 DEF Content, HoldsAll
<1>3. ASSUME NEW w \in Writers, NEW s \in Sdks, NEW a \in Artifacts,
             NEW b \in Bodies, Fetch(w, s, a, b)
      PROVE  FALSE
  BY <1>2, <1>3 DEF Fetch, disk
<1>4. ASSUME NEW w \in Writers, Step(w) PROVE Goal
  <2>1. CASE Verify(w) \/ NameTaken(w) \/ SysCallFails(w) \/ RemoveTemp(w) \/ CloseDest(w)
    BY <1>2, <2>1 DEF Verify, NameTaken, SysCallFails, RemoveTemp, CloseDest, disk
  <2>2. CASE CreateTemp(w)
    <3>1. PICK i \in FreeInodes : file' = [file EXCEPT ![i] = Blank] /\ dest' = dest
      BY <2>2 DEF CreateTemp
    <3> QED BY <1>1, <1>2, <3>1 DEF FreeInodes, IInv, TypeOK
  <2>3. CASE WriteTemp(w) \/ SyncTemp(w)
    <3>1. fd[w] # dest
      BY <1>1, <2>3, FileIsNoDest DEF WriteTemp, SyncTemp, IInv
    <3> QED BY <1>1, <1>2, <2>3, <3>1 DEF WriteTemp, SyncTemp, Put, IInv, TypeOK
  <2>4. CASE Rename(w)
    <3>1. /\ dest' = fd[w] /\ HoldsAll(fd[w], want[w]) /\ file' = file
          /\ want[w] \in Artifacts /\ fd[w] \in Inodes
      BY <2>4, RenameIInv DEF Rename, IInv, CallInv
    <3>2. Content(fd[w]) = want[w]
      BY <3>1, ContentWhole, NoneFacts
    <3> QED BY <3>1, <3>2 DEF Content, HoldsAll
  <2>5. CASE OpenDest(w)
    BY <2>5 DEF OpenDest, Goto, IInv, TypeOK
  <2>6. CASE WriteDest(w)
    <3>1. dest' = dest /\ pc'[w] = "overwriting" /\ fd'[w] = fd[w]
      BY <2>6 DEF WriteDest, Put
    <3>2. CASE fd[w] = dest
      BY <3>1, <3>2
    <3>3. CASE fd[w] # dest
      BY <1>1, <1>2, <2>6, <3>1, <3>3 DEF WriteDest, Put, IInv, TypeOK
    <3> QED BY <3>2, <3>3
  <2> QED BY <1>4, <2>1, <2>2, <2>3, <2>4, <2>5, <2>6 DEF Step
<1>5. ASSUME NEW p \in Procs, Kill(p) PROVE FALSE
  BY <1>2, <1>5 DEF Kill
<1>6. CASE SyncDirectory
  BY <1>2, <1>6 DEF SyncDirectory
<1>7. CASE PowerLoss
  <2>1. dest' \in durable \ {None} /\ dest' \in Inodes
    BY <1>7, PowerLossIInv DEF IInv, TypeOK
  <2>2. PICK i \in Inodes : i = dest'
    BY <2>1
  <2>3. \A w \in Writers : pc'[w] = "idle"
    BY <1>7 DEF PowerLoss, Reset
  <2>4. CASE file[i].synced
    <3>1. file'[i] = file[i]
      BY <1>7, <2>1, <2>2, <2>4, PowerLossIInv
    <3>2. PICK a \in Artifacts : HoldsAll(i, a)
      BY <2>1, <2>2, <2>4 DEF IInv, DataInv
    <3>3. Content(i) = a
      BY <3>2, ContentWhole, NoneFacts
    <3>4. Content(i)' = Content(i)
      BY <3>1 DEF Content, HoldsAll
    <3>5. Content(dest)' = Content(i)'
      BY <2>2 DEF Content, HoldsAll
    <3> QED BY <3>3, <3>4, <3>5
  <2> QED BY <2>2, <2>3, <2>4
<1>8. CASE UNCHANGED vars
  BY <1>2, <1>8 DEF vars
<1> QED BY <1>3, <1>4, <1>5, <1>6, <1>7, <1>8 DEF Next

\* SDKs of both kinds together: only an overwriting call, while it has the
\* destination open, or a power loss before its bytes are on the disk, makes a
\* destination of a complete artifact a destination without one.
THEOREM OnlyOverwritersTear ==
    ASSUME Unshared
    PROVE  Spec => TornOnlyByOverwriting
<1>1. IInv /\ [Next]_vars =>
        [(Content(dest) \in Artifacts /\ dest' # None
          /\ Content(dest)' \notin Artifacts) =>
          \/ \E w \in Writers : pc'[w] = "overwriting" /\ fd'[w] = dest'
          \/ ~file[dest'].synced /\ \A w \in Writers : pc'[w] = "idle"]_vars
  BY TornStep
<1> QED BY Inductive, <1>1, PTL DEF Spec, TornOnlyByOverwriting

-----------------------------------------------------------------------------
(* Every step of a replacing SDK is a step, or no step, of ArtifactFile.    *)

\* Destinations whose files are left alone keep their contents.
LEMMA ContentKept ==
    ASSUME IInv, \A i \in durable \ {None} : file'[i] = file[i]
    PROVE  \A i \in durable : Content(i)' = Content(i)
BY DEF Content, HoldsAll

\* A step that leaves the destinations alone is seen by nobody.
LEMMA DestUnseen ==
    ASSUME IInv, UNCHANGED <<dest, durable>>,
           \A i \in durable \ {None} : file'[i] = file[i]
    PROVE  /\ Content(dest)' = Content(dest)
           /\ {Content(i) : i \in durable}' = {Content(i) : i \in durable}
<1>1. \A i \in durable : Content(i)' = Content(i)
  BY ContentKept
<1>2. dest \in durable
  BY DEF IInv, NameInv
<1>3. Content(dest)' = Content(dest)
  BY <1>1, <1>2 DEF Content, HoldsAll
<1>4. {Content(i) : i \in durable}' = {Content(i) : i \in durable}
  BY <1>1
<1> QED BY <1>3, <1>4

\* A call that ends and leaves the destinations alone has given up.
LEMMA ReturnGivesUp ==
    ASSUME IInv, NEW w \in Writers, Return(w), UNCHANGED <<dest, durable>>,
           \A i \in durable \ {None} : file'[i] = file[i]
    PROVE  Abs!GiveUp({w})
<1>1. want' = [v \in Writers |-> IF v \in {w} THEN None ELSE want[v]]
  BY DEF Return, IInv, TypeOK
<1> QED BY <1>1, DestUnseen DEF Abs!GiveUp

LEMMA StepRefines ==
    ASSUME IInv, OnlyReplacing, Unshared, NEW w \in Writers, Step(w)
    PROVE  [Abs!AbsNext]_(Abs!absVars)
<1>1. ASSUME Return(w), UNCHANGED disk PROVE Abs!AbsNext
  <2>1. Abs!GiveUp({w})
    BY <1>1, ReturnGivesUp DEF disk
  <2> QED BY <2>1 DEF Abs!AbsNext
<1>2. ASSUME UNCHANGED <<dest, durable, want>>,
             \A i \in durable \ {None} : file'[i] = file[i]
      PROVE  UNCHANGED Abs!absVars
  BY <1>2, DestUnseen DEF Abs!absVars
<1>3. CASE Verify(w)
  BY <1>1, <1>2, <1>3 DEF Verify, disk, call
<1>4. CASE CreateTemp(w)
  <2>1. PICK i \in FreeInodes : file' = [file EXCEPT ![i] = Blank]
    BY <1>4 DEF CreateTemp
  <2>2. i \notin durable
    BY DEF FreeInodes
  <2>3. \A j \in durable \ {None} : file'[j] = file[j]
    BY <2>1, <2>2 DEF IInv, TypeOK
  <2> QED BY <1>2, <1>4, <2>3 DEF CreateTemp, call
<1>5. CASE NameTaken(w)
  <2>1. sdk[w] # "rust"
    BY <1>5 DEF NameTaken, TempNames, ClockNames, Family, Unshared
  <2> QED BY <1>1, <1>5, <2>1 DEF NameTaken
<1>6. CASE WriteTemp(w) \/ SyncTemp(w)
  <2>1. fd[w] \in Inodes
    BY <1>6 DEF WriteTemp, SyncTemp, IInv, CallInv
  <2>2. fd[w] \notin durable
    BY <1>6, FileIsNoDest DEF WriteTemp, SyncTemp, IInv
  <2>3. \A j \in durable \ {None} : file'[j] = file[j]
    BY <1>6, <2>1, <2>2 DEF WriteTemp, SyncTemp, Put, IInv, TypeOK
  <2> QED BY <1>2, <1>6, <2>3 DEF WriteTemp, SyncTemp, Put, call
<1>7. CASE Rename(w)
  <2>1. /\ dest' = fd[w] /\ HoldsAll(fd[w], want[w]) /\ file' = file
        /\ want[w] \in Artifacts
    BY <1>7, RenameIInv
  <2>2. fd[w] \in Inodes /\ dir[temp[w]] = fd[w]
    BY <1>7 DEF Rename, IInv, CallInv
  <2>3. PICK i \in Inodes : i = fd[w]
    BY <2>2
  <2>4. /\ dest' = i /\ durable' = durable \union {i}
        /\ want' = [want EXCEPT ![w] = None] /\ want[w] # None
    BY <1>7, <2>1, <2>2, <2>3, NoneFacts DEF Rename, Return
  <2>5. Content(i)' = want[w]
    BY <2>1, <2>3, ContentWhole, NoneFacts DEF Content, HoldsAll
  <2>6. Content(dest)' = want[w]
    BY <2>4, <2>5 DEF Content, HoldsAll
  <2>7. \A j \in durable : Content(j)' = Content(j)
    BY <2>1, ContentKept
  <2>8. {Content(j) : j \in durable}' = {Content(j) : j \in durable} \union {want[w]}
    BY <2>4, <2>5, <2>7
  <2>9. Abs!Install(w)
    BY <2>4, <2>6, <2>8 DEF Abs!Install
  <2> QED BY <2>9 DEF Abs!AbsNext
<1>8. CASE SysCallFails(w)
  BY <1>1, <1>2, <1>8 DEF SysCallFails, disk, call
<1>9. CASE RemoveTemp(w)
  <2>1. Abs!GiveUp({w})
    BY <1>9, ReturnGivesUp DEF RemoveTemp
  <2> QED BY <2>1 DEF Abs!AbsNext
<1>10. ~OpenDest(w) /\ ~WriteDest(w) /\ ~CloseDest(w)
  BY DEF OpenDest, WriteDest, CloseDest, OnlyReplacing, Replacing, Overwriting
<1> QED BY <1>3, <1>4, <1>5, <1>6, <1>7, <1>8, <1>9, <1>10 DEF Step

LEMMA NextRefines ==
    ASSUME IInv, OnlyReplacing, Unshared, [Next]_vars
    PROVE  [Abs!AbsNext]_(Abs!absVars)
<1>1. ASSUME NEW w \in Writers, NEW s \in Sdks, NEW a \in Artifacts,
             NEW b \in Bodies, Fetch(w, s, a, b)
      PROVE  Abs!AbsNext
  <2>1. want[w] = None /\ want' = [want EXCEPT ![w] = a]
    BY <1>1 DEF Fetch, IInv, CallInv
  <2>2. Abs!Request(w, a)
    BY <1>1, <2>1, DestUnseen DEF Fetch, disk, Abs!Request
  <2> QED BY <2>2 DEF Abs!AbsNext
<1>2. ASSUME NEW p \in Procs, Kill(p) PROVE Abs!AbsNext
  <2> DEFINE S == {w \in Writers : ProcOf[w] = p}
  <2>1. want' = [w \in Writers |-> IF w \in S THEN None ELSE want[w]]
    BY <1>2 DEF Kill, Reset
  <2>2. UNCHANGED <<dest, durable, file>>
    BY <1>2 DEF Kill
  <2>3. S \in SUBSET Writers
    OBVIOUS
  <2> HIDE DEF S
  <2>4. Abs!GiveUp(S)
    BY <2>1, <2>2, DestUnseen DEF Abs!GiveUp
  <2> QED BY <2>3, <2>4 DEF Abs!AbsNext
<1>3. CASE SyncDirectory
  <2>1. UNCHANGED <<dest, file, want>> /\ durable' = {dest}
    BY <1>3 DEF SyncDirectory, call
  <2>2. Content(dest)' = Content(dest)
    BY <2>1 DEF Content, HoldsAll
  <2>3. {Content(i) : i \in durable}' = {Content(dest)}
    BY <2>1, <2>2
  <2>4. Abs!Settle
    BY <2>1, <2>2, <2>3 DEF Abs!Settle
  <2> QED BY <2>4 DEF Abs!AbsNext
<1>4. CASE PowerLoss
  <2>1. /\ dest' \in durable /\ durable' = {dest'}
        /\ \A i \in durable \ {None} : file'[i] = file[i]
    BY <1>4, PowerLossIInv DEF OnlyReplacing
  <2>2. PICK i \in durable : dest' = i
    BY <2>1
  <2>3. Content(i)' = Content(i)
    BY <2>1, ContentKept
  <2>4. Content(dest)' = Content(i)
    BY <2>2, <2>3 DEF Content, HoldsAll
  <2>5. {Content(j) : j \in durable}' = {Content(dest)'}
    BY <2>1
  <2>6. want' = [w \in Writers |-> None]
    BY <1>4 DEF PowerLoss, Reset
  <2>7. Abs!Outage
    BY <2>4, <2>5, <2>6 DEF Abs!Outage
  <2> QED BY <2>7 DEF Abs!AbsNext
<1>5. CASE UNCHANGED vars
  BY <1>5, DestUnseen DEF vars, Abs!absVars
<1> QED BY <1>1, <1>2, <1>3, <1>4, <1>5, StepRefines DEF Next

\* Seen from outside, a replacing SDK replaces the destination in one step:
\* every behaviour of the calls is a behaviour of the abstract destination.
THEOREM ImplementsArtifactFile ==
    ASSUME Unshared, AllReplace
    PROVE  Spec => CommitsAtomically
<1>1. Init /\ IInv /\ OnlyReplacing => Abs!AbsInit
  <2> SUFFICES ASSUME Init, IInv, OnlyReplacing PROVE Abs!AbsInit
    OBVIOUS
  <2>1. Content(dest) \in Artifacts \union {None}
    BY WholeIfInv
  <2>2. {Content(i) : i \in durable} = {Content(dest)}
    BY DEF Init
  <2> QED BY <2>1, <2>2 DEF Init, Abs!AbsInit
<1>2. IInv /\ OnlyReplacing /\ [Next]_vars => [Abs!AbsNext]_(Abs!absVars)
  BY NextRefines
<1> QED BY Inductive, AlwaysOnlyReplacing, <1>1, <1>2, PTL DEF Spec, CommitsAtomically, Abs!AbsSpec
=============================================================================
