-------------------------- MODULE MCArtifactCommit --------------------------
(***************************************************************************)
(* Instances of ArtifactCommit for TLC: calls w1 and w2 of one process, or *)
(* of two, an artifact of two blocks and a disk with room for three files.  *)
(***************************************************************************)
EXTENDS ArtifactCommit, TLC

CONSTANTS w1, w2, w3, p1, p2

OneProcess   == [w \in Writers |-> p1]
TwoProcesses == [w \in Writers |-> IF w = w1 THEN p1 ELSE p2]

Interchangeable == Permutations(Artifacts) \union Permutations(Inodes)
                   \union Permutations(Slots)

\* What a file last contained makes no difference once nothing refers to it,
\* or only an orphaned name does, which no call opens or renames.
Referenced ==
    <<dest, durable, dir, pc, sdk, want, body, temp, fd, pos, over, orphans,
      [i \in Inodes |->
        IF i \in {dest} \union durable \union {fd[w] : w \in Writers}
        THEN file[i] ELSE Blank]>>
=============================================================================
