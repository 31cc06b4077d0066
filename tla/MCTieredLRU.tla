----------------------------- MODULE MCTieredLRU -----------------------------
(***************************************************************************)
(* TieredLRU on small instances.                                           *)
(***************************************************************************)
EXTENDS TieredLRU, TLC

Symmetry == Permutations(Objects)
=============================================================================
