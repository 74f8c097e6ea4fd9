\* main.go:120: is the list there before the first poll?
CONSTANTS
    c1 = c1  c2 = c2
    Cert = {c1, c2}
    Every = 5
    Fetch = 2
    None = None
SPECIFICATION FairSpec
PROPERTIES HotBeforeFirstPoll
