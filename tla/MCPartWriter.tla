---------------------------- MODULE MCPartWriter ----------------------------
(***************************************************************************)
(* PartWriter on small objects: every part size, range and cut of the body *)
(* into chunks within the bounds.                                          *)
(***************************************************************************)
EXTENDS PartWriter, TLC
=============================================================================
