\* Every fault, a driver as slow as the deadline, two lives of the process; three envelopes
\* on one path in the first of them.
CONSTANTS
    Env = {w1, d1, r1}
    w1 = w1  r1 = r1  d1 = d1  u1 = u1
    Op <- MCOp
    PathOf <- MCPathOf
    Path <- MCPath
    None = None
    NoResult = NoResult
    MinBackoff = 1
    MaxBackoff = 1
    CallLimit = 1
    HandleLimit = 1
    MaxStarts = 2
    MaxFails = 0
SPECIFICATION MCSpec
INVARIANTS AtMostOnce AnsweredMeansApplied AnswerOrdersCalls ReadSeesAnsweredWrites Inductive
PROPERTIES ImplementsBridge
\* The process may stay down, and a quiet control plane leaves nothing to do.
CHECK_DEADLOCK FALSE
