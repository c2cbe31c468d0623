---------------------------- MODULE ArtifactFile ----------------------------
(***************************************************************************)
(* What `download_artifact(version, destination)` promises about the       *)
(* destination file, whichever SDK performs it: a destination is replaced  *)
(* as a whole by the artifact the caller named, or not at all.  A process  *)
(* may die in the middle of a call, and the machine may lose power; a      *)
(* rename that the file system has not made durable may then be undone,    *)
(* but what is found at the destination is still one complete artifact.    *)
(***************************************************************************)

CONSTANTS
    Calls,      \* download calls that may run at the same time
    Artifacts,  \* published artifacts, each named by its own SHA-256
    Absent      \* the destination does not exist

VARIABLES
    content,    \* what a reader of the destination finds
    recent,     \* contents a power loss may still bring back
    wanted      \* wanted[c]: the artifact call c is downloading, or Absent

absVars == <<content, recent, wanted>>

AbsInit ==
    /\ content \in Artifacts \union {Absent}
    /\ recent = {content}
    /\ wanted = [c \in Calls |-> Absent]

\* A caller asks for artifact a.
Request(c, a) ==
    /\ wanted[c] = Absent
    /\ wanted' = [wanted EXCEPT ![c] = a]
    /\ UNCHANGED <<content, recent>>

\* The call succeeds: the artifact replaces the destination in one step.
Install(c) ==
    /\ wanted[c] # Absent
    /\ content' = wanted[c]
    /\ recent' = recent \union {wanted[c]}
    /\ wanted' = [wanted EXCEPT ![c] = Absent]

\* A call fails, or a process dies with all its calls: the destination is
\* left alone.
GiveUp(S) ==
    /\ wanted' = [c \in Calls |-> IF c \in S THEN Absent ELSE wanted[c]]
    /\ UNCHANGED <<content, recent>>

\* The file system makes the current directory entry durable.
Settle ==
    /\ recent' = {content}
    /\ UNCHANGED <<content, wanted>>

\* The machine restarts: every call is lost, recent renames may be undone.
Outage ==
    /\ content' \in recent
    /\ recent' = {content'}
    /\ wanted' = [c \in Calls |-> Absent]

AbsNext ==
    \/ \E c \in Calls, a \in Artifacts : Request(c, a)
    \/ \E c \in Calls : Install(c)
    \/ \E S \in SUBSET Calls : GiveUp(S)
    \/ Settle
    \/ Outage

AbsSpec == AbsInit /\ [][AbsNext]_absVars
=============================================================================
