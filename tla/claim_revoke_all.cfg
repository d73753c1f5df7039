SPECIFICATION Spec
CONSTANTS
    Tokens = {k1, k2, k3}
    Workers = {r1, r2}
    MaxChanges = 1
    MaxFaults = 0
PROPERTIES
    RevokeAllCloses
CHECK_DEADLOCK FALSE
