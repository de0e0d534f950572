SPECIFICATION CourierSpec
CONSTANTS
    MaxRows = 1
    Workers = {"w1", "w2"}
    Fees = {1}
    Cap = 1
    MaxAttempts = 1
    MaxFaults = 0
INVARIANT CancelReachesUber
CHECK_DEADLOCK FALSE
