SPECIFICATION ExecSpec
CONSTANTS
    r1 = r1
    r2 = r2
    c1 = c1
    c2 = c2
    c3 = c3
    n1 = n1
    n2 = n2
    u1 = u1
    NoRequest = NoRequest
    Faults = {}
    MaxPerMinute = 2
    Requests = {r1, r2}
    Calls = {c1, c3}
    RequestOf <- ThirdDiffers
    NodeOf <- OneNode
    UserOf <- SameUser
INVARIANTS
    SagaIsItsRequest
CHECK_DEADLOCK FALSE
