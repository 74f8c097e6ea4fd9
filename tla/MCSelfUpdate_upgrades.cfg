\* Upgrades and rollbacks on every kind of system, killed at any step.
CONSTANTS
    v1 = v1  v2 = v2  v3 = v3
    Version = {v1, v2, v3}
    First = v1
    Broken = {v3}
    Unrunnable = {v2}
    PollEvery = 8
    Worlds = {"kind", "rough", "busy"}
    MaxReleases = 2
    MaxCrashes = 2
    None = None  Partial = Partial  Absent = Absent  Down = Down
SPECIFICATION FairSpec
INVARIANTS Inductive MarkerTellsTruth UpgradeSwapsWhole
PROPERTIES MarkerGoesWithCause BrokenBuildLeaves ReleaseSettles
\* The manifest may stay as it is, and a build on disk may not be executable.
CHECK_DEADLOCK FALSE
