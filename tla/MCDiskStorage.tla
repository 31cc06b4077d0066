---- MODULE MCDiskStorage ----
(* Model values for the instances of DiskStorage. *)
EXTENDS DiskStorage, TLC

Symmetry == Permutations(Callers)
====
