\* What must eventually happen, with and without faults; backoff 4, 8, 12.
\* Limits in units of 15 s: the client of a driver that makes one request, and handle.
CONSTANTS
    Env = {w1, u1}
    w1 = w1  r1 = r1  d1 = d1  u1 = u1
    Op <- MCOp
    PathOf <- MCPathOf
    Path <- MCPath
    None = None
    NoResult = NoResult
    MinBackoff = 4
    MaxBackoff = 12
    CallLimit = 1
    HandleLimit = 2
    MaxStarts = 2
    MaxFails = 3
SPECIFICATION LiveSpec
INVARIANTS PauseMatchesFailures
PROPERTIES OnlyShutdownSilencesHandler HandlerEnds KeepsPolling EveryEnvelopeAnswered
\* The process may stay down, and a quiet control plane leaves nothing to do.
CHECK_DEADLOCK FALSE
