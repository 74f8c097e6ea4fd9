----------------------------- MODULE MCPollLive -----------------------------
(***************************************************************************)
(* Liveness in two worlds: one where everything may fail and nothing is    *)
(* assumed of the services, and a calm one where nothing fails.            *)
(***************************************************************************)
EXTENDS MCPollLoop

VARIABLE calm \* which of the two

LiveInit == Init /\ calm \in BOOLEAN

LiveNext ==
    /\ \/ ~calm /\ Next
       \/ calm /\ HealthyNext
    /\ UNCHANGED calm

\* In a calm world the services serve again and again.
LiveSpec ==
    /\ LiveInit /\ [][LiveNext]_<<vars, calm>>
    /\ AgentFairness
    /\ WF_vars(calm /\ PollEnvelope) /\ WF_vars(calm /\ CpPop)
    /\ \A e \in Env :
        /\ WF_vars(calm /\ Handler(e))
        /\ WF_vars(calm /\ VaultApplies(e))
        /\ WF_vars(calm /\ CpReceives(e))

\* In a world without faults every queued envelope is answered, and not with an error
\* unless its op is unknown: no handler waits on another (poll.go:117-121, 153-190).
EveryEnvelopeAnswered ==
    \A e \in Env : calm /\ e \in pushed ~>
        answers[e] \in IF Op[e] \in Ops THEN {"ok", "not_found"} ELSE {"error"}
=============================================================================
