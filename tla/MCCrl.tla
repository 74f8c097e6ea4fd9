------------------------------- MODULE MCCrl -------------------------------
(***************************************************************************)
(* A small instance of Crl: two certificates, one of them listed some day, *)
(* and a period that two fetches fit into with a unit of time to spare.    *)
(***************************************************************************)
EXTENDS Crl

CONSTANTS c1, c2
=============================================================================
