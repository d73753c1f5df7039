SPECIFICATION Spec
CONSTANTS
    Tokens = {k1, k2, k3, k4}
    Workers = {r1, r2}
    MaxChanges = 1
    MaxFaults = 1
SYMMETRY Symmetry
INVARIANTS
    OneUnusedPerFamily
PROPERTIES
    ClosedStaysClosed
    KeepsPromise
CHECK_DEADLOCK FALSE
