----------------------------- MODULE RankedCache -----------------------------
(***************************************************************************)
(* What a cache algorithm with a ranking promises its zone, without tiers  *)
(* (types.CacheAlgorithm, and the segmented LRU that implements it): a     *)
(* list of distinct objects from the best to the worst, a capacity, and    *)
(* no step that reorders objects it is not about.                          *)
(***************************************************************************)
EXTENDS Integers, SequencesExt

CONSTANTS Objects, Capacities

VARIABLES ranking, capacity

vars == <<ranking, capacity>>

Ranked == ToSet(ranking)

\* The list s without the elements in S (SelectSeq, as a function that the
\* proofs can unfold).
Drop(s, S) ==
    LET kept[i \in 0 .. Len(s)] ==
          IF i = 0 THEN <<>>
          ELSE IF s[i] \in S THEN kept[i - 1] ELSE Append(kept[i - 1], s[i])
    IN  kept[Len(s)]

Init == ranking = <<>> /\ capacity \in Capacities

\* A new object is ranked somewhere; one object makes room for it, only if
\* the cache is full, and then it is the worst ranked one.
Add(o) ==
    /\ o \notin Ranked
    /\ \/ \E k \in 1 .. Len(ranking) + 1 : ranking' = InsertAt(ranking, k, o)
       \/ /\ ranking # <<>> /\ Len(ranking) >= capacity
          /\ \E k \in 1 .. Len(ranking) : ranking' = InsertAt(Front(ranking), k, o)
    /\ UNCHANGED capacity

\* An object that was used never falls behind one it was ahead of.
Promote(o) ==
    /\ \E k \in 1 .. Len(ranking) :
          /\ ranking[k] = o
          /\ \E j \in 1 .. k : ranking' = InsertAt(RemoveAt(ranking, k), j, o)
    /\ UNCHANGED capacity

RemoveObjects(S) == ranking' = Drop(ranking, S) /\ UNCHANGED capacity

\* A new configuration keeps the best ranked objects, within the capacity
\* when it is smaller than before.
Resize(n) ==
    /\ capacity' = n
    /\ \E k \in 0 .. Len(ranking) :
          /\ ranking' = SubSeq(ranking, 1, k)
          /\ n >= capacity => k = Len(ranking)
          /\ n < capacity => k <= n

Next ==
    \/ \E o \in Objects : Add(o) \/ Promote(o)
    \/ \E S \in SUBSET Objects : RemoveObjects(S)
    \/ \E n \in Capacities : Resize(n)

Spec == Init /\ [][Next]_vars
=============================================================================
