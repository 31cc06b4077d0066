----------------------------- MODULE MCScheduler -----------------------------
(***************************************************************************)
(* Scheduler on small instances: the same calls with the same delays on    *)
(* one shared key or on a key of their own.                                *)
(***************************************************************************)
EXTENDS Scheduler, TLC

CONSTANTS k1, k2, e1, e2

\* Every call for the same key, or e2 for a key of its own.
OneKey  == [e \in Events |-> k1]
TwoKeys == [e \in Events |-> IF e = e2 THEN k2 ELSE k1]

\* e2 expires later than the others.
Delays  == [e \in Events |-> IF e = e2 THEN 2 ELSE 1]
=============================================================================
