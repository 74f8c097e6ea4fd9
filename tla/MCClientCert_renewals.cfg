\* Installations cut short at every step, trust anchors that rotate, certificates that do
\* not work, and the way back.
CONSTANTS
    g1 = g1  g2 = g2  g3 = g3  g4 = g4
    Gen = {g1, g2, g3, g4}
    root1 = root1  root2 = root2  Root = {root1, root2}
    TTL = 6
    Lead = 5
    Margin = 4
    Retry = 2
    MinWait = 1
    DiskFails = TRUE
    BadIssues = TRUE
    MaxFails = 1
    Absent = Absent  Torn = Torn  None = None
SPECIFICATION MCSpec
INVARIANTS Inductive NeverLapses DiskFollowsMemory MountDiesOfCut
PROPERTIES BootTrustsItsAnchor AgentComesBack
