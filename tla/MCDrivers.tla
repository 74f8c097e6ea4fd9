----------------------------- MODULE MCDrivers -----------------------------
(***************************************************************************)
(* A small instance of Drivers: two writes, a delete and a read.           *)
(*                                                                         *)
(* Bound: one write where the SDK repeats requests.                        *)
(***************************************************************************)
EXTENDS Drivers

CONSTANTS w1, w2, d1, r1

MCOp == [c \in Call |-> CASE c \in {w1, w2} -> "write" [] c = d1 -> "delete"
                          [] c = r1 -> "read"]

Made == IF kind \in Sdk THEN Call \ {w2} ELSE Call

MCNext ==
    \/ \E c \in Made : Goes(c)
    \/ \E r \in wire : Serves(r)
    \/ \E r \in stale : Straggles(r)

MCSpec == Init /\ [][MCNext]_vars
=============================================================================
