SPECIFICATION KafkaSpec
CONSTANTS
    Messages = {"m1", "m2"}
    Semantics = {"at-most-once", "at-least-once", "exactly-once"}
    KafkaFaults = {"ack", "handler", "crash"}
    MaxLog = 2
    MaxCrashes = 2
INVARIANTS
    KafkaTypeOK
    CommittedIsHandled
    HandledInOrder
    RepeatedOnlyByCrash
PROPERTIES
    SentIsHandled
CHECK_DEADLOCK FALSE
