------------------------------ MODULE MCAgent -------------------------------
(***************************************************************************)
(* A small instance of Agent: one envelope, one upgrade.                   *)
(***************************************************************************)
EXTENDS Agent

CONSTANTS v1, v2, w1

MCOp == [e \in Env |-> "write"]
MCPath == {"p"}
MCPathOf == [e \in Env |-> "p"]
=============================================================================
