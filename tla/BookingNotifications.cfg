SPECIFICATION NotificationSpec
CONSTANTS
    Faults = {"crash", "mongo"}
    Requests = {"r1"}
    Redelivered = {}
    MaxDeliveries = 1
    Streams = {"s1"}
    Urls = {"u1", "u2"}
    NoUrl = "none"
    NullId = "null"
    HttpFails = TRUE
INVARIANTS
    NotificationTypeOK
    HookConfirmedOnce
    NewsIsStored
PROPERTIES
    JoinedIsTold
    OpenStreamIsTold
    HookIsCalled
CHECK_DEADLOCK FALSE
