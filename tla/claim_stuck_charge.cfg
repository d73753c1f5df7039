SPECIFICATION LiveSpec
CONSTANTS
    Txs = {t1}
    ChargeIds = {1, 2}
    Workers = {r1}
    Kinds <- CardOnly
    MaxOtps = 2
    MaxFaults = 0
    FaultKinds = {}
PROPERTIES
    PendingChargesEnd
CHECK_DEADLOCK FALSE
