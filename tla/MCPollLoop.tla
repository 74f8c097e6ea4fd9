----------------------------- MODULE MCPollLoop -----------------------------
(***************************************************************************)
(* Small instances of PollLoop: which envelopes there are, what they ask   *)
(* for, and one path they compete for.                                     *)
(***************************************************************************)
EXTENDS PollLoop

\* A write, a read, a delete, and an op the dispatcher does not know.
CONSTANTS w1, r1, d1, u1

\* Bound: once a third envelope is queued there is one life of the process and no time
\* passes in it; what depends on either happens to two.
MCNext == Next /\ (Cardinality(pushed') = 3 => starts' = 1 /\ \A e \in Env : lasted'[e] = 0)

MCSpec == Init /\ [][MCNext]_vars

MCOp == [e \in Env |-> CASE e = w1 -> "write" [] e = r1 -> "read" [] e = d1 -> "delete"
                          [] e = u1 -> "unknown"]

\* One path, "p".
MCPath == {"p"}
MCPathOf == [e \in Env |-> "p"]
=============================================================================
