---------------------------- MODULE MCTokenCache ----------------------------
(***************************************************************************)
(* A small instance of TokenCache: three goroutines, in units of 15 s.     *)
(***************************************************************************)
EXTENDS TokenCache

CONSTANTS c1, c2, c3
=============================================================================
