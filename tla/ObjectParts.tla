----------------------------- MODULE ObjectParts -----------------------------
(***************************************************************************)
(* An object and the parts it is cut into, as the writer of the parts      *)
(* (PartWriter) and their reader (LazyResponse) share them: part p has the *)
(* bytes from p * partSize on, and the last part is short. A byte of the   *)
(* object is its position.                                                 *)
(***************************************************************************)
EXTENDS Integers, SequencesExt

CONSTANTS
    PartSizes,  \* the values of part_size
    MaxObjSize  \* bound of the size of an object

ASSUME ObjectPartsAssumption ==
    /\ PartSizes \subseteq Nat \ {0}
    /\ MaxObjSize \in Nat

VARIABLES partSize, objSize

Lesser(l, r) == IF l > r THEN r ELSE l

=============================================================================
