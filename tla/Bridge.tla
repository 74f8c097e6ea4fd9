------------------------------- MODULE Bridge -------------------------------
(***************************************************************************)
(* What the bridge promises the control plane about one request envelope,  *)
(* with no loop, no goroutine, no timeout and no process in sight:         *)
(*                                                                         *)
(*   - an envelope is taken from the queue at most once;                   *)
(*   - the call it stands for reaches the upstream vault at most once, and *)
(*     only after it was taken;                                            *)
(*   - it is answered at most once, and any answer but "error" is given    *)
(*     after the call took effect;                                         *)
(*   - it may be lost after it was taken (the agent stops, a connection    *)
(*     breaks, a deadline passes), and a lost envelope is never answered.  *)
(*                                                                         *)
(* There is no promise that a lost envelope had no effect: the agent keeps *)
(* nothing on disk and never repeats a call.                               *)
(***************************************************************************)
CONSTANTS Env,     \* envelope identities
          NoResult \* the value of "not answered"

VARIABLES stage,   \* where each envelope is
          effect,  \* those whose call the vault has carried out
          verdict  \* what the control plane was told

bridgeVars == <<stage, effect, verdict>>

Verdicts == {"ok", "not_found", "error"}

Stages == {"idle", "queued", "taken", "answered", "lost"}

BridgeTypeOK ==
    /\ stage   \in [Env -> Stages]
    /\ effect  \subseteq Env
    /\ verdict \in [Env -> Verdicts \cup {NoResult}]

Init ==
    /\ stage   = [e \in Env |-> "idle"]
    /\ effect  = {}
    /\ verdict = [e \in Env |-> NoResult]

Accept(e) ==
    /\ stage[e] = "idle"
    /\ stage' = [stage EXCEPT ![e] = "queued"]
    /\ UNCHANGED <<effect, verdict>>

Take(e) ==
    /\ stage[e] = "queued"
    /\ stage' = [stage EXCEPT ![e] = "taken"]
    /\ UNCHANGED <<effect, verdict>>

\* The call may take effect after the agent has given up on it.
Effect(e) ==
    /\ stage[e] \in {"taken", "answered", "lost"}
    /\ e \notin effect
    /\ effect' = effect \cup {e}
    /\ UNCHANGED <<stage, verdict>>

Answer(e, v) ==
    /\ stage[e] = "taken"
    /\ v # "error" => e \in effect
    /\ stage'   = [stage EXCEPT ![e] = "answered"]
    /\ verdict' = [verdict EXCEPT ![e] = v]
    /\ UNCHANGED effect

\* One crash loses every envelope the agent was carrying.
Lose(S) ==
    /\ \A e \in S : stage[e] = "taken"
    /\ stage' = [e \in Env |-> IF e \in S THEN "lost" ELSE stage[e]]
    /\ UNCHANGED <<effect, verdict>>

Next ==
    \/ \E S \in SUBSET Env : Lose(S)
    \/ \E e \in Env : Accept(e) \/ Take(e) \/ Effect(e)
    \/ \E e \in Env, v \in Verdicts : Answer(e, v)

Spec == Init /\ [][Next]_bridgeVars
=============================================================================
