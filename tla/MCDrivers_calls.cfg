\* Every kind of driver: two writes, a delete and a read of one path.
CONSTANTS
    w1 = w1  w2 = w2  d1 = d1  r1 = r1
    Call = {w1, w2, d1, r1}
    Op <- MCOp
    Kinds = {"plain", "kept", "put_create", "create_put", "ensure_add", "soft", "lookup",
             "ssm", "sm"}
    None = None  Empty = Empty  Gone = Gone
SPECIFICATION MCSpec
INVARIANTS DuplicatesNeedRace
PROPERTIES ImplementsRegister
\* Every call returns and every request arrives.
CHECK_DEADLOCK FALSE
