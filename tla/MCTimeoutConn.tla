--------------------------- MODULE MCTimeoutConn ---------------------------
(***************************************************************************)
(* Two requests on a connection, of up to four bytes, a transfer being two *)
(* bytes at most: with and without throttling, with and without a limit.   *)
(***************************************************************************)
EXTENDS TimeoutConn
=============================================================================
