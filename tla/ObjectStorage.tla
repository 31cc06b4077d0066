---------------------------- MODULE ObjectStorage ----------------------------
(***************************************************************************)
(* What a storage promises to the handlers of a cache zone: the methods of *)
(* the Storage interface (types/storage.go) take effect at one instant     *)
(* each, a file is there whole or not at all, Discard takes the metadata   *)
(* and every part of an object away together, and parts are of the one     *)
(* size the storage was first opened with.                                 *)
(***************************************************************************)
EXTENDS Naturals

CONSTANTS Objects, Parts, Meta,   \* the metadata file, beside the parts
          Versions,               \* what a metadata file may say
          Sizes,                  \* part sizes
          NoFile

VARIABLES stored,   \* stored[o][f]: the file f of the object o
          size      \* the part size, NoFile until the storage is first opened

Nothing == [f \in Parts \cup {Meta} |-> NoFile]

Init == /\ stored = [o \in Objects |-> Nothing]
        /\ size = NoFile

Open == size = NoFile /\ size' \in Sizes /\ UNCHANGED stored

SaveMetadata(o, v) == /\ stored' = [stored EXCEPT ![o][Meta] = v]
                      /\ UNCHANGED size

SavePart(o, p) == /\ size # NoFile
                  /\ stored' = [stored EXCEPT ![o][p] = size]
                  /\ UNCHANGED size

DiscardPart(o, p) == /\ stored' = [stored EXCEPT ![o][p] = NoFile]
                     /\ UNCHANGED size

Discard(o) == stored' = [stored EXCEPT ![o] = Nothing] /\ UNCHANGED size

Next == \/ Open
        \/ \E o \in Objects : \/ Discard(o)
                              \/ \E v \in Versions : SaveMetadata(o, v)
                              \/ \E p \in Parts : SavePart(o, p) \/ DiscardPart(o, p)

Spec == Init /\ [][Next]_<<stored, size>>
=============================================================================
