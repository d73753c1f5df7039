SPECIFICATION LiveSpec
CONSTANTS
    Events = {e1}
    Senders = {s1}
    RetryLimit = 3
    MaxRetries = 0
    MaxFaults = 0
    FaultKinds = {}
PROPERTIES
    EventsAlwaysSettle
CHECK_DEADLOCK FALSE
