\* Misses, hits, failures and revocations, in units of 15 s.
CONSTANTS
    c1 = c1  c2 = c2  c3 = c3
    Call = {c1, c2, c3}
    Kinds = {"told", "fixed", "raw"}
    Lives = {3, 6}
    Margin = 4
    Keep = 2
    FixedLife = 6
    ClientTimeout = 1
    HandleLimit = 2
    None = None  Bad = Bad
SPECIFICATION FairSpec
INVARIANTS SentTokenLives HeldUpAtMost Inductive
PROPERTIES FetchesWhenNeeded CallsEnd RefusedTokenLeaves
