\* clientcert.go:63: does the transport follow the bundle?
CONSTANTS
    g1 = g1  g2 = g2  g3 = g3  g4 = g4
    Gen = {g1, g2, g3}
    root1 = root1  root2 = root2  Root = {root1, root2}
    TTL = 10
    Lead = 7
    Margin = 4
    Retry = 2
    MinWait = 1
    DiskFails = FALSE
    BadIssues = FALSE
    MaxFails = 1
    Absent = Absent  Torn = Torn  None = None
SPECIFICATION Spec
INVARIANTS TransportFollowsBundle
