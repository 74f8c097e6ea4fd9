---------------------------- MODULE MCClientCert ----------------------------
(***************************************************************************)
(* Small instances of ClientCert.  The times keep the order of the code's: *)
(* the least wait below the retry, the margin just enough for one failed   *)
(* renewal, the lead above it, the lifetime above the lead.                *)
(*                                                                         *)
(* Bounds: the trust anchor moves once, and one certificate at a time is   *)
(* one that cannot be mounted.  Which of the free identities a new         *)
(* certificate gets is all the same.                                       *)
(***************************************************************************)
EXTENDS ClientCert

CONSTANTS g1, g2, g3, g4, root1, root2

NextGen == CHOOSE g \in Gen : g \notin InUse

MCNext ==
    \/ Steady \/ SignFails \/ WriteFails \/ Crash \/ Tick
    \/ Sign(NextGen, TRUE)
    \/ bad = {} /\ Sign(NextGen, FALSE)
    \/ root # root2 /\ RotateRoot(root2)

\* The fairness of FairSpec.
MCSpec ==
    /\ Init /\ [][MCNext]_vars
    /\ WF_vars(Steady) /\ SF_vars(Tick) /\ SF_vars(Sign(NextGen, TRUE))
=============================================================================
