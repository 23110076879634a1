SPECIFICATION BillingSpec
SYMMETRY Symmetry
CONSTANTS
    u1 = u1
    a1 = a1
    a2 = a2
    nobody = nobody
    c1 = c1
    c2 = c2
    c3 = c3
    Users = {u1}
    Accounts = {a1, a2}
    Nobody = nobody
    Calls = {c1, c2, c3}
    Offered = {"deposit", "withdraw", "query", "order", "open", "topUp", "suspend", "close", "transfer", "cancel"}
    Amounts = {2}
    Known = {a1}
    Opening <- OneAccountOpen
    Faults = {"db", "stripe", "crash"}
    OneSpender = TRUE
INVARIANTS
    BillingTypeOK
    NeverOverdrawn
    CompletedIsMoved
    AnsweredIsSettled
    NumbersHaveNoGap
    CanceledAtStripe
PROPERTIES
    KeepsLedger
CHECK_DEADLOCK FALSE
