SPECIFICATION Spec
CONSTANTS
    Clients = {c1, c2}
    Requests = {q1, q2, q3}
    Buckets = {1, 2, 3}
    MaxRequests = 2
    WindowDuration = 2
    CleanupEvery = 2
    Merchants = {m1, m2}
    Emails = {e1, e2}
    Keys = {1, 2, 3, 4}
    Fields = {f1, f2}
    Values = {v1}
    Loads <- SmallLoads
SYMMETRY Symmetry
INVARIANTS
    TypeOK
    QuotaExact
    NoHoldAndWait
    OneQuotaAtATime
    AccountsUnique
PROPERTIES
    SweepSparesLive
    KeysRetire
    FieldsAsSent
CHECK_DEADLOCK FALSE
