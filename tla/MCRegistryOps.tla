---------------------------- MODULE MCRegistryOps ----------------------------
(***************************************************************************)
(* Instances of RegistryOps for TLC: one SDK of each way to find the route *)
(* of a publish, three calls on one or two versions.                       *)
(***************************************************************************)
EXTENDS RegistryOps, TLC

\* SDKs that send a write once: one derives the route, the other compares it.
Mature == {"typescript", "go"}

\* Claims race with claims: the registry keeps nothing that they and the other
\* operations both use.
ClaimsApart ==
    \A c, d \in Calls : Op(c) = "claim" => Op(d) \in {"claim", None}

Symmetry == Permutations(Calls) \union Permutations(Versions) \union Permutations(Slugs)
=============================================================================
