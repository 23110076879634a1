SPECIFICATION JoinFairSpec
CONSTANTS
    Faults = {}
    Requests = {"r1"}
    Redelivered = {}
    MaxDeliveries = 2
PROPERTIES
    AnyServiceJoins
CHECK_DEADLOCK FALSE
