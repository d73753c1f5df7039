SPECIFICATION LiveSpec
CONSTANTS
    Events = {e1}
    Senders = {s1, s2, s3}
    RetryLimit = 3
    MaxRetries = 1
    MaxFaults = 1
    FaultKinds = {"error", "crash"}
INVARIANTS
    TypeOK
    DeliveredHasProof
    AttemptsAccounted
    OverrunBounded
PROPERTIES
    KeepsPromise
    EventsSettle
CHECK_DEADLOCK FALSE
