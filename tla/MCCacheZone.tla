----------------------------- MODULE MCCacheZone -----------------------------
(***************************************************************************)
(* CacheZone on small instances: goroutines of a kind are interchangeable. *)
(***************************************************************************)
EXTENDS CacheZone, TLC

Symmetry == Permutations(Proxies) \cup Permutations(Removers)
=============================================================================
