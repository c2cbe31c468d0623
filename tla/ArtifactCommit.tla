--------------------------- MODULE ArtifactCommit ---------------------------
(***************************************************************************)
(* How the SDKs put a downloaded artifact into the file system.            *)
(*                                                                         *)
(* Python, Go, Rust and Erlang ("replacing" SDKs) verify the bytes, create *)
(* a sibling temporary file exclusively, write it, sync it and rename it   *)
(* over the destination.  Ruby, PHP, Kotlin and Elixir ("overwriting"      *)
(* SDKs) verify the bytes and then truncate and write the destination      *)
(* itself.  Several calls run at once, in threads of one process or in     *)
(* several processes, all towards ONE destination path; any system call    *)
(* may fail, a process may be killed between any two of them, and the      *)
(* machine may lose power.                                                 *)
(***************************************************************************)
EXTENDS Naturals, FiniteSets

CONSTANTS
    Writers,     \* download calls that may run at the same time
    Procs,       \* operating-system processes (an Erlang VM is one)
    ProcOf,      \* ProcOf[w]: the process that performs call w
    Sdks,        \* the SDKs in use, among Replacing and Overwriting
    Artifacts,   \* published artifacts, each named by its own SHA-256
    Corrupt,     \* a body whose SHA-256 is that of no published artifact
    Blocks,      \* the write calls an artifact takes
    Inodes,      \* the files the disk has room for
    Slots,       \* the variable parts a temporary name can have
    CoarseClock, \* two threads may read the same instant from the clock
    None         \* no file, no artifact, no name

Replacing   == {"python", "go", "rust", "erlang"}
Overwriting == {"ruby", "php", "kotlin", "elixir"}

\* Every SDK builds temporary names of its own form, except that Python and
\* Go share the prefix ".zed-artifact-".
Family(s) == IF s \in {"python", "go"} THEN "zed-artifact" ELSE s
Names == {"zed-artifact", "rust", "erlang"} \X Slots

Bodies == Artifacts \union {Corrupt}

ASSUME CommitAssumption ==
    /\ ProcOf \in [Writers -> Procs]
    /\ Sdks \subseteq Replacing \union Overwriting
    /\ Blocks \in Nat \ {0}
    /\ CoarseClock \in BOOLEAN
    /\ Corrupt \notin Artifacts
    /\ None \notin Bodies \union Inodes \union Names

VARIABLES
    dest,     \* inode the destination path names, or None
    durable,  \* what that directory entry may be after a power loss
    dir,      \* dir[n]: inode the temporary name n leads to, or None
    file,     \* file[i]: the blocks of inode i, and whether they are synced
    pc,       \* where call w stands
    sdk,      \* the SDK that performs call w
    want,     \* the artifact whose digest the version metadata of w gives
    body,     \* the bytes call w received
    temp,     \* the temporary name call w chose
    fd,       \* the inode call w has open
    pos,      \* the blocks call w has written
    over,     \* clock names chosen before call w began: that instant is over
    orphans   \* temporary files that nobody will remove any more

disk  == <<dest, durable, dir, file, orphans>>
call  == <<sdk, want, body>>
local == <<temp, fd, pos, over>>
vars  == <<dest, durable, dir, file, pc, sdk, want, body, temp, fd, pos, over,
           orphans>>

States == {"idle", "fetched", "verified", "writing", "synced", "overwriting",
           "cleanup"}

Blank == [data |-> [k \in 1..Blocks |-> None], synced |-> FALSE]
Whole(a) == [data |-> [k \in 1..Blocks |-> a], synced |-> TRUE]

HoldsAll(i, a) == \A k \in 1..Blocks : file[i].data[k] = a

\* What a reader of inode i finds: a whole body, or "partial" bytes.
Content(i) ==
    IF i = None THEN None
    ELSE IF \E a \in Bodies : HoldsAll(i, a)
         THEN CHOOSE a \in Bodies : HoldsAll(i, a)
         ELSE "partial"

\* The temporary file exists and call w holds it open.
Holds(w) == pc[w] \in {"writing", "synced", "cleanup"} /\ fd[w] # None

\* An inode that nothing refers to: a new file gets one of these.
FreeInodes ==
    Inodes \ ({dest} \union durable \union {dir[n] : n \in Names}
              \union {fd[w] : w \in Writers})

TypeOK ==
    /\ dest \in Inodes \union {None}
    /\ durable \subseteq Inodes \union {None}
    /\ dir \in [Names -> Inodes \union {None}]
    /\ file \in [Inodes -> [data : [1..Blocks -> Bodies \union {None}],
                            synced : BOOLEAN]]
    /\ pc \in [Writers -> States]
    /\ sdk \in [Writers -> Sdks \union {None}]
    /\ want \in [Writers -> Artifacts \union {None}]
    /\ body \in [Writers -> Bodies \union {None}]
    /\ temp \in [Writers -> Names \union {None}]
    /\ fd \in [Writers -> Inodes \union {None}]
    /\ pos \in [Writers -> 0..Blocks]
    /\ over \in [Writers -> SUBSET Names]
    /\ orphans \subseteq Names

\* The destination is absent or holds an artifact of an earlier download.
Init ==
    /\ file \in {[i \in Inodes |-> Whole(a)] : a \in Artifacts}
    /\ dest \in Inodes \union {None}
    /\ durable = {dest}
    /\ dir = [n \in Names |-> None]
    /\ pc = [w \in Writers |-> "idle"]
    /\ sdk = [w \in Writers |-> None]
    /\ want = [w \in Writers |-> None]
    /\ body = [w \in Writers |-> None]
    /\ temp = [w \in Writers |-> None]
    /\ fd = [w \in Writers |-> None]
    /\ pos = [w \in Writers |-> 0]
    /\ over = [w \in Writers |-> {}]
    /\ orphans = {}

-----------------------------------------------------------------------------
Goto(w, s) == pc' = [pc EXCEPT ![w] = s]

\* The call ends: the locals of its frame are gone.
Return(w) ==
    /\ Goto(w, "idle")
    /\ sdk' = [sdk EXCEPT ![w] = None]
    /\ want' = [want EXCEPT ![w] = None]
    /\ body' = [body EXCEPT ![w] = None]
    /\ temp' = [temp EXCEPT ![w] = None]
    /\ fd' = [fd EXCEPT ![w] = None]
    /\ pos' = [pos EXCEPT ![w] = 0]
    /\ over' = [over EXCEPT ![w] = {}]

\* A body arrived within the size limit; nothing is known of it yet.
Fetch(w, s, a, b) ==
    /\ pc[w] = "idle"
    /\ Goto(w, "fetched")
    /\ sdk' = [sdk EXCEPT ![w] = s]
    /\ want' = [want EXCEPT ![w] = a]
    /\ body' = [body EXCEPT ![w] = b]
    /\ over' = [over EXCEPT ![w] =
                    IF CoarseClock THEN {temp[v] : v \in Writers} \ {None} ELSE {}]
    /\ UNCHANGED <<disk, temp, fd, pos>>

\* Faulty variant: the digest is computed but never compared.
DigestIgnored(w) == TRUE

\* The digest of the body is compared with the digest in the metadata.
DigestMatches(w) == body[w] = want[w]

Verify(w) ==
    /\ pc[w] = "fetched"
    /\ UNCHANGED disk
    /\ \/ /\ DigestMatches(w)
          /\ Goto(w, "verified")
          /\ UNCHANGED <<call, local>>
       \/ /\ ~DigestMatches(w)
          /\ Return(w)

-----------------------------------------------------------------------------
(* The replacing SDKs. *)

\* mkstemp and os.CreateTemp draw random names until the exclusive open wins.
ProbedNames(w) == {n \in Names : n[1] = "zed-artifact" /\ dir[n] = None}

\* ".{name}.zed-{pid}-{nanos}.tmp": fresh, unless two threads of the process
\* read the same instant.
ClockNames(w) ==
    {n \in Names :
        /\ n[1] = "rust"
        /\ \/ dir[n] = None /\ \A v \in Writers : temp[v] # n
           \/ /\ CoarseClock
              /\ n \notin over[w]
              /\ \E v \in Writers : temp[v] = n /\ ProcOf[v] = ProcOf[w]}

\* ".{name}.zed-{N}.tmp", where N counts from 1 in every virtual machine.
CountedNames(w) ==
    {n \in Names :
        /\ n[1] = "erlang"
        /\ \A v \in Writers : temp[v] = n => ProcOf[v] # ProcOf[w]}

TempNames(w) ==
    IF Family(sdk[w]) = "zed-artifact" THEN ProbedNames(w)
    ELSE IF sdk[w] = "rust" THEN ClockNames(w)
    ELSE CountedNames(w)

\* Faulty variant: O_CREAT without O_EXCL truncates a file that is there.
CreateTempShared(w) ==
    /\ pc[w] = "verified"
    /\ sdk[w] \in Replacing
    /\ \E n \in TempNames(w) :
       \E i \in IF dir[n] = None THEN FreeInodes ELSE {dir[n]} :
        /\ dir' = [dir EXCEPT ![n] = i]
        /\ file' = [file EXCEPT ![i] = Blank]
        /\ temp' = [temp EXCEPT ![w] = n]
        /\ fd' = [fd EXCEPT ![w] = i]
    /\ Goto(w, "writing")
    /\ UNCHANGED <<dest, durable, call, pos, over, orphans>>

\* The exclusive open succeeds: a new, empty file.
CreateTemp(w) ==
    /\ pc[w] = "verified"
    /\ sdk[w] \in Replacing
    /\ \E n \in TempNames(w), i \in FreeInodes :
        /\ dir[n] = None
        /\ dir' = [dir EXCEPT ![n] = i]
        /\ file' = [file EXCEPT ![i] = Blank]
        /\ temp' = [temp EXCEPT ![w] = n]
        /\ fd' = [fd EXCEPT ![w] = i]
    /\ Goto(w, "writing")
    /\ UNCHANGED <<dest, durable, call, pos, over, orphans>>

\* Faulty variant: every failing open runs the clean-up of the temporary name.
NameTakenCleansUp(w) ==
    /\ pc[w] = "verified"
    /\ sdk[w] \in Replacing
    /\ \E n \in TempNames(w) :
        /\ dir[n] # None
        /\ Goto(w, "cleanup")
        /\ temp' = [temp EXCEPT ![w] = n]
    /\ UNCHANGED <<disk, call, fd, pos, over>>

\* The exclusive open finds a file of that name.  Erlang reports the error;
\* Rust reports it after its common error path has run.
NameTaken(w) ==
    /\ pc[w] = "verified"
    /\ sdk[w] \in {"rust", "erlang"}
    /\ \E n \in TempNames(w) :
        /\ dir[n] # None
        /\ \/ /\ sdk[w] = "erlang"
              /\ Return(w)
           \/ /\ sdk[w] = "rust"
              /\ Goto(w, "cleanup")
              /\ temp' = [temp EXCEPT ![w] = n]
              /\ UNCHANGED <<call, fd, pos, over>>
    /\ UNCHANGED disk

\* Faulty variant: the write loop has no end.
PutForever(w) ==
    /\ file' = [file EXCEPT ![fd[w]] =
                    [data |-> [@.data EXCEPT ![pos[w] + 1] = body[w]],
                     synced |-> FALSE]]
    /\ pos' = [pos EXCEPT ![w] = @ + 1]
    /\ UNCHANGED <<dest, durable, dir, pc, call, temp, fd, over, orphans>>

Put(w) ==
    /\ pos[w] < Blocks
    /\ file' = [file EXCEPT ![fd[w]] =
                    [data |-> [@.data EXCEPT ![pos[w] + 1] = body[w]],
                     synced |-> FALSE]]
    /\ pos' = [pos EXCEPT ![w] = @ + 1]
    /\ UNCHANGED <<dest, durable, dir, pc, call, temp, fd, over, orphans>>

WriteTemp(w) == pc[w] = "writing" /\ Put(w)

\* Faulty variants: rename without fsync, and before all of it is written.
SyncTempSkipped(w) ==
    /\ pc[w] = "writing"
    /\ pos[w] = Blocks
    /\ Goto(w, "synced")
    /\ UNCHANGED <<disk, call, local>>

SyncTempEarly(w) ==
    /\ pc[w] = "writing"
    /\ file' = [file EXCEPT ![fd[w]] = [data |-> @.data, synced |-> TRUE]]
    /\ Goto(w, "synced")
    /\ UNCHANGED <<dest, durable, dir, call, local, orphans>>

\* fsync of the complete temporary file (then chmod, then close).
SyncTemp(w) ==
    /\ pc[w] = "writing"
    /\ pos[w] = Blocks
    /\ file' = [file EXCEPT ![fd[w]] = [data |-> @.data, synced |-> TRUE]]
    /\ Goto(w, "synced")
    /\ UNCHANGED <<dest, durable, dir, call, local, orphans>>

\* rename(temporary, destination), by name.  The directory is not synced.
Rename(w) ==
    /\ pc[w] = "synced"
    /\ dir[temp[w]] # None
    /\ dest' = dir[temp[w]]
    /\ durable' = durable \union {dir[temp[w]]}
    /\ dir' = [dir EXCEPT ![temp[w]] = None]
    /\ Return(w)
    /\ UNCHANGED <<file, orphans>>

\* A system call fails: no space, no permission, or nothing of that name.
SysCallFails(w) ==
    /\ \/ /\ pc[w] \in {"writing", "synced"}
          /\ Goto(w, "cleanup")
          /\ UNCHANGED <<call, local>>
       \/ /\ pc[w] \in {"verified", "overwriting"}
          /\ Return(w)
    /\ UNCHANGED disk

\* Faulty variant: the error path forgets the temporary file.
RemoveTempForgotten(w) ==
    /\ pc[w] = "cleanup"
    /\ Return(w)
    /\ UNCHANGED disk

\* The error path removes the temporary name; a failing removal is ignored.
RemoveTemp(w) ==
    /\ pc[w] = "cleanup"
    /\ \/ /\ dir' = [dir EXCEPT ![temp[w]] = None]
          /\ UNCHANGED orphans
       \/ /\ orphans' = IF dir[temp[w]] = None THEN orphans
                        ELSE orphans \union {temp[w]}
          /\ UNCHANGED dir
    /\ Return(w)
    /\ UNCHANGED <<dest, durable, file>>

-----------------------------------------------------------------------------
(* The overwriting SDKs. *)

\* open(destination, O_CREAT | O_TRUNC)
OpenDest(w) ==
    /\ pc[w] = "verified"
    /\ sdk[w] \in Overwriting
    /\ \E i \in IF dest = None THEN FreeInodes ELSE {dest} :
        /\ dest' = i
        /\ durable' = durable \union {i}
        /\ file' = [file EXCEPT ![i] = Blank]
        /\ fd' = [fd EXCEPT ![w] = i]
    /\ Goto(w, "overwriting")
    /\ UNCHANGED <<dir, call, temp, pos, over, orphans>>

WriteDest(w) == pc[w] = "overwriting" /\ Put(w)

CloseDest(w) ==
    /\ pc[w] = "overwriting"
    /\ pos[w] = Blocks
    /\ Return(w)
    /\ UNCHANGED disk

-----------------------------------------------------------------------------
(* The environment. *)

LiveTemps(S) == {temp[w] : w \in {v \in S : Holds(v) /\ dir[temp[v]] = fd[v]}}

Reset(S) ==
    /\ pc' = [w \in Writers |-> IF w \in S THEN "idle" ELSE pc[w]]
    /\ sdk' = [w \in Writers |-> IF w \in S THEN None ELSE sdk[w]]
    /\ want' = [w \in Writers |-> IF w \in S THEN None ELSE want[w]]
    /\ body' = [w \in Writers |-> IF w \in S THEN None ELSE body[w]]
    /\ temp' = [w \in Writers |-> IF w \in S THEN None ELSE temp[w]]
    /\ fd' = [w \in Writers |-> IF w \in S THEN None ELSE fd[w]]
    /\ pos' = [w \in Writers |-> IF w \in S THEN 0 ELSE pos[w]]
    /\ over' = [w \in Writers |-> IF w \in S THEN {} ELSE over[w]]

\* A process is killed with all its calls; its temporary files stay.
Kill(p) ==
    LET S == {w \in Writers : ProcOf[w] = p}
    IN /\ \E w \in S : pc[w] # "idle"
       /\ Reset(S)
       /\ orphans' = orphans \union LiveTemps(S)
       /\ UNCHANGED <<dest, durable, dir, file>>

\* The file system writes the directory out.
SyncDirectory ==
    /\ durable # {dest}
    /\ durable' = {dest}
    /\ UNCHANGED <<dest, dir, file, pc, call, local, orphans>>

\* Power is lost: files that were never synced may come back empty, and each
\* directory entry that was not durable may or may not be there.
PowerLoss ==
    /\ Reset(Writers)
    /\ dest' \in durable
    /\ durable' = {dest'}
    /\ \E kept \in SUBSET {n \in Names : dir[n] # None} :
        /\ dir' = [n \in Names |-> IF n \in kept THEN dir[n] ELSE None]
        /\ orphans' = kept
    /\ \E torn \in SUBSET {i \in Inodes : ~file[i].synced} :
        file' = [i \in Inodes |-> IF i \in torn THEN Blank ELSE file[i]]

Step(w) ==
    \/ Verify(w)
    \/ CreateTemp(w) \/ NameTaken(w) \/ WriteTemp(w) \/ SyncTemp(w)
    \/ Rename(w) \/ SysCallFails(w) \/ RemoveTemp(w)
    \/ OpenDest(w) \/ WriteDest(w) \/ CloseDest(w)

Next ==
    \/ \E w \in Writers, s \in Sdks, a \in Artifacts, b \in Bodies :
            Fetch(w, s, a, b)
    \/ \E w \in Writers : Step(w)
    \/ \E p \in Procs : Kill(p)
    \/ SyncDirectory
    \/ PowerLoss

Spec == Init /\ [][Next]_vars

-----------------------------------------------------------------------------
(* Properties. *)

\* With replacing SDKs only, a reader of the destination finds nothing or one
\* complete, verified artifact: while other calls write, after a call failed
\* or was killed at any point, and after a power loss undid a rename.
DestWhole == \A i \in durable \union {dest} : Content(i) \in Artifacts \union {None}

\* A temporary file on the disk is being written by exactly one live call, or
\* is left over from a kill, a power loss or a removal that failed: no call
\* that ends normally leaks one, and no two calls share one.
TempsAccountedFor ==
    \A n \in Names : dir[n] # None =>
        \/ /\ n \in orphans
           /\ \A w \in Writers : Holds(w) => fd[w] # dir[n]
        \/ /\ n \notin orphans
           /\ \E w \in Writers :
                /\ Holds(w) /\ temp[w] = n /\ fd[w] = dir[n]
                /\ \A v \in Writers \ {w} : fd[v] # dir[n]

\* A temporary file disappears from under a call only by that call's own step
\* (its rename, or its own clean-up) or by a power loss: the error path of
\* one call never removes the file of another.
OwnTempsOnly ==
    [][\A w \in Writers :
        (Holds(w) /\ dir'[temp[w]] # fd[w]) => pc'[w] = "idle"]_vars

\* The rename that ends a call puts that call's own artifact in place.
InstallsOwn ==
    [][\A w \in Writers :
        (pc[w] = "synced" /\ pc'[w] = "idle" /\ dest' \notin durable) =>
            Content(dest)' = want[w]]_vars

\* A destination that held a complete artifact stops holding one only while an
\* overwriting call has it open, or when power is lost before the bytes an
\* overwriting call left unsynced reached the disk.
TornOnlyByOverwriting ==
    [][(Content(dest) \in Artifacts /\ dest' # None
        /\ Content(dest)' \notin Artifacts) =>
        \/ \E w \in Writers : pc'[w] = "overwriting" /\ fd'[w] = dest'
        \/ ~file[dest'].synced /\ \A w \in Writers : pc'[w] = "idle"]_vars

\* The abstract destination: a call holds its wish until its rename.
Abs == INSTANCE ArtifactFile WITH
    Calls <- Writers, Absent <- None,
    content <- Content(dest),
    recent <- {Content(i) : i \in durable},
    wanted <- want

\* Seen from outside, a replacing SDK replaces the destination in one step.
CommitsAtomically == Abs!AbsSpec
=============================================================================
