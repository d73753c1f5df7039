SPECIFICATION LiveSystem
CONSTANTS
    Txs = {t1}
    ChargeIds = {1}
    Workers = {r1}
    Kinds <- Cards
    MaxOtps = 1
    Senders = {s1}
    RetryLimit = 1
    MaxRetries = 0
    MaxFaults = 1
    FaultKinds = {"error", "crash"}
INVARIANTS
    NoFalseNews
    IndInv
PROPERTIES
    ForgottenOnlyByFault
    OutcomesTold
    PendingSettles
CHECK_DEADLOCK FALSE
