---------------------------- MODULE MCLocalCache ----------------------------
(* LocalCache for TLC. *)
EXTENDS LocalCache, TLC

Symmetry == Permutations(Ids)
=============================================================================
