--------------------------- MODULE MCLazyResponse ---------------------------
(***************************************************************************)
(* LazyResponse on small objects: every header, every set of stored parts  *)
(* and every interleaving with the other goroutines, within the bounds.    *)
(***************************************************************************)
EXTENDS LazyResponse, TLC
=============================================================================
