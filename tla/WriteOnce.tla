------------------------------ MODULE WriteOnce ------------------------------
(***************************************************************************)
(* What an SDK promises of a write (a publish, a yank, a restore, a claim):*)
(* it takes effect at most once, the caller who hears of success or of a   *)
(* refusal hears the truth, and only a caller who was told neither has to  *)
(* go and look.                                                            *)
(***************************************************************************)
CONSTANTS Calls, None

VARIABLES
    effect,  \* what the registry made of the write
    heard    \* what its caller was told

wvars == <<effect, heard>>

WriteInit ==
    /\ effect = [c \in Calls |-> None]
    /\ heard = [c \in Calls |-> None]

\* The registry decides, possibly after the caller gave up waiting.
TakeEffect(c) ==
    /\ effect[c] = None /\ heard[c] \in {None, "unknown"}
    /\ \E e \in {"ok", "refused"} : effect' = [effect EXCEPT ![c] = e]
    /\ UNCHANGED heard

\* The caller is told the decision.
Tell(c) ==
    /\ effect[c] # None /\ heard[c] = None
    /\ heard' = [heard EXCEPT ![c] = effect[c]]
    /\ UNCHANGED effect

\* The caller is told that nobody knows.
TellUnknown(c) ==
    /\ heard[c] = None
    /\ heard' = [heard EXCEPT ![c] = "unknown"]
    /\ UNCHANGED effect

\* The SDK refuses the write: the registry never sees it.
Decline(c) ==
    /\ effect[c] = None /\ heard[c] = None
    /\ heard' = [heard EXCEPT ![c] = "local"]
    /\ UNCHANGED effect

WriteNext ==
    \E c \in Calls : TakeEffect(c) \/ Tell(c) \/ TellUnknown(c) \/ Decline(c)

WriteSpec == WriteInit /\ [][WriteNext]_wvars
=============================================================================
