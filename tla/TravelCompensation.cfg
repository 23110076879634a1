SPECIFICATION Spec
CONSTANTS
    Bookings = {"b1", "b2"}
    MayReject = {"make", "cancel", "pay"}
INVARIANTS
    CompTypeOK
    NothingLeftBehind
PROPERTIES
    ReverseOrder
    AllOrNothing
    KeepsCompensationPromise
CHECK_DEADLOCK FALSE
