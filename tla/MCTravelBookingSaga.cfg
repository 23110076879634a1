SPECIFICATION SagaSpec
CONSTANTS
    r1 = r1
    c1 = c1
    c2 = c2
    u1 = u1
    NoRequest = NoRequest
    Faults = {"mongo", "broker", "expiry", "lost"}
    MaxPerMinute = 1
    Requests = {r1}
    Calls = {c1, c2}
    RequestOf <- SameRequest
    NodeOf <- NodePerCall
    UserOf <- SameUser
    Redelivered = {}
    MaxDeliveries = 2
SYMMETRY Symmetry
INVARIANTS
    SagaTypeOK
    PendingIsQueued
    QuietIsUnlocked
    BookedNotQueued
    CounterHasWindow
    BookedOnOneRequestEach
    BookedOnlyWhenJoined
    AggregatedOnce
    NotifiedIsStored
    NoMixedNews
PROPERTIES
    ConfirmedUnlessCallFails
    KeepsPromise
CHECK_DEADLOCK FALSE
