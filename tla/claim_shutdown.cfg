SPECIFICATION Spec
CONSTANTS
    Txs = {t1}
    ChargeIds = {1, 2}
    Workers = {r1, r2}
    Kinds <- MomoOnly
    MaxOtps = 2
    MaxFaults = 1
    FaultKinds = {"shutdown"}
INVARIANTS
    MomoHasGoroutine
CHECK_DEADLOCK FALSE
