SPECIFICATION ExecSpec
CONSTANTS
    r1 = r1
    r2 = r2
    c1 = c1
    c2 = c2
    c3 = c3
    n1 = n1
    n2 = n2
    u1 = u1
    NoRequest = NoRequest
    Faults = {}
    MaxPerMinute = 5
    Requests = {r1}
    Calls = {c1, c2}
    RequestOf <- SameRequest
    NodeOf <- OneNode
    UserOf <- SameUser
INVARIANTS
    AcceptedNotFailed
CHECK_DEADLOCK FALSE
