SPECIFICATION Spec
CONSTANTS
    Emails = {e1, e2}
    Customers = {1, 2, 3}
    Payments = {p1, p2}
    Refs = {"ref"}
    Requests = {r1, r2, r3}
    MaxFaults = 1
SYMMETRY Symmetry
INVARIANTS
    TypeOK
    OneCustomerPerEmail
    PaymentsKeepCustomer
    ReferenceOnce
PROPERTIES
    InlineChargePays
    KeepsPromise
CHECK_DEADLOCK FALSE
