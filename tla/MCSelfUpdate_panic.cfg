\* selfupdate.go:161: does a boot that finds the marker go through its check?
CONSTANTS
    v1 = v1  v2 = v2  v3 = v3
    Version = {v1, v2}
    First = v1
    Broken = {v2}
    Unrunnable = {}
    PollEvery = 8
    Worlds = {"kind"}
    MaxReleases = 1
    MaxCrashes = 0
    None = None  Partial = Partial  Absent = Absent  Down = Down
SPECIFICATION Spec
INVARIANTS RollbackSurvives
\* The manifest may stay as it is, and a build on disk may not be executable.
CHECK_DEADLOCK FALSE
