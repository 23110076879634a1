SPECIFICATION BillingSpec
CONSTANTS
    u1 = u1
    a1 = a1
    a2 = a2
    nobody = nobody
    c1 = c1
    c2 = c2
    c3 = c3
    Users = {u1}
    Accounts = {a1, a2}
    Nobody = nobody
    Calls = {c1, c2}
    Offered = {"withdraw"}
    Amounts = {2}
    Known = {u1, a1, a2}
    Opening <- AllHaveThree
    Faults = {}
    OneSpender = FALSE
INVARIANTS
    NeverOverdrawn
CHECK_DEADLOCK FALSE
