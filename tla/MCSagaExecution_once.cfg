SPECIFICATION ExecFairSpec
CONSTANTS
    r1 = r1
    r2 = r2
    c1 = c1
    c2 = c2
    c3 = c3
    n1 = n1
    n2 = n2
    u1 = u1
    NoRequest = NoRequest
    Faults = {"redis", "mongo", "broker", "expiry", "crash"}
    MaxPerMinute = 1
    Requests = {r1}
    Calls = {c1, c3}
    RequestOf <- SameRequest
    NodeOf <- TwoNodes
    UserOf <- SameUser
INVARIANTS
    ExecTypeOK
    RequestedOnce
    PendingIsPublished
PROPERTIES
    CallEnds
CHECK_DEADLOCK FALSE
