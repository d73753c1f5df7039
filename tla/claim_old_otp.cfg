SPECIFICATION Spec
CONSTANTS
    Txs = {t1}
    ChargeIds = {1, 2}
    Workers = {r1, r2}
    Kinds <- CardOnly
    MaxOtps = 2
    MaxFaults = 0
    FaultKinds = {}
PROPERTIES
    OldOtpInvalidated
CHECK_DEADLOCK FALSE
