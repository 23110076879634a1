SPECIFICATION KafkaSpec
CONSTANTS
    Messages = {"m1", "m2"}
    Semantics = {"exactly-once"}
    KafkaFaults = {"crash"}
    MaxLog = 2
    MaxCrashes = 1
INVARIANTS
    NoDuplicates
CHECK_DEADLOCK FALSE
