\* An upgrade, a SIGTERM and a kill at any step, with a write under way.
CONSTANTS
    v1 = v1  v2 = v2  w1 = w1
    Version = {v1, v2}
    First = v1
    Broken = {}
    Unrunnable = {}
    PollEvery = 2
    Worlds = {"kind"}
    MaxReleases = 1
    MaxCrashes = 1
    Env = {w1}
    Op <- MCOp
    Path <- MCPath
    PathOf <- MCPathOf
    MinBackoff = 1
    MaxBackoff = 1
    CallLimit = 1
    HandleLimit = 2
    MaxStarts = 2
    MaxFails = 0
    NoResult = NoResult
    None = None  Partial = Partial  Absent = Absent  Down = Down
SPECIFICATION FairSpec
INVARIANTS UntriedBuildIsWatched
PROPERTIES ImplementsBridge ForgottenOnlyInSwap SignalEndsProcess
\* The supervisor's starts are bounded.
CHECK_DEADLOCK FALSE
