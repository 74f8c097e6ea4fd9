------------------------------ MODULE Register ------------------------------
(***************************************************************************)
(* What a driver (internal/upstream) owes the dispatcher about one path:   *)
(* however many requests it makes of its service and however they          *)
(* interleave with those of other calls, each call takes effect once, in   *)
(* one instant after it was made, and is answered by that instant; or it   *)
(* is answered with an error, and then takes effect at most once, perhaps  *)
(* after the answer.  Two sets of calls, which are not this module's to    *)
(* change, are owed less: some may take effect again, each time in one     *)
(* instant, and some are answered and never take effect.                   *)
(***************************************************************************)
CONSTANTS Call, \* calls made of the driver
          Op,   \* the operation of each
          None  \* no value; not answered

VARIABLES value,  \* what the path holds: None, or the write that put it there
          stage,  \* where each call is
          took,   \* calls that have taken effect
          saw,    \* what a read found
          result, \* its answer
          again,  \* calls that may take effect more than once
          vain    \* calls that take none

registerVars == <<value, stage, took, saw, result>>

Init ==
    /\ value = None
    /\ stage = [c \in Call |-> "idle"] /\ took = {}
    /\ saw = [c \in Call |-> None] /\ result = [c \in Call |-> None]

Invoke(c) ==
    /\ stage[c] = "idle" /\ stage' = [stage EXCEPT ![c] = "open"]
    /\ UNCHANGED <<value, took, saw, result>>

\* Right behind a delete, reads and deletes under way may find nothing too.
Take(c) ==
    /\ stage[c] # "idle" /\ (c \notin took \/ c \in again)
    /\ \E behind \in SUBSET {d \in Call \ took : stage[d] # "idle" /\ Op[d] # "write"} :
           /\ behind # {} => Op[c] = "delete"
           /\ took' = took \cup {c} \cup behind
    /\ value' = IF Op[c] = "write" THEN c ELSE IF Op[c] = "delete" THEN None ELSE value
    /\ saw' = [saw EXCEPT ![c] = IF Op[c] = "read" THEN value ELSE @]
    /\ UNCHANGED <<stage, result>>

Return(c, r) ==
    /\ stage[c] = "open" /\ stage' = [stage EXCEPT ![c] = "returned"]
    /\ r # "error" => c \in took
    /\ r = "not_found" => Op[c] = "read" /\ saw[c] = None
    /\ r = "ok" /\ Op[c] = "read" => saw[c] # None
    /\ result' = [result EXCEPT ![c] = r]
    /\ UNCHANGED <<value, took, saw>>

Waive(c) ==
    /\ c \in vain
    /\ stage[c] = "idle" /\ stage' = [stage EXCEPT ![c] = "returned"]
    /\ result' = [result EXCEPT ![c] = "ok"]
    /\ UNCHANGED <<value, took, saw>>

Next ==
    \E c \in Call : \/ Invoke(c) \/ Take(c) \/ Waive(c)
                    \/ \E r \in {"ok", "not_found", "error"} : Return(c, r)

Spec == Init /\ [][Next]_registerVars
=============================================================================
