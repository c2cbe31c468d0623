---------------------------- MODULE MCGraphCache ----------------------------
(***************************************************************************)
(* Instances of GraphCache for TLC: two calls, two tags, bodies of up to   *)
(* two bytes with a limit of one.                                          *)
(***************************************************************************)
EXTENDS GraphCache, TLC

Symmetry == Permutations(Calls)
=============================================================================
