SPECIFICATION Spec
CONSTANTS
    Payments = {p1, p2}
    NoPayment = NoPayment
    Jobs = {"webhook", "expiry"}
    ProviderMoves = {}
    Surcharges = {0}
    Recoverable = {TRUE, FALSE}
    MaxFaults = 0
    MaxChecks = 1
    MaxCancels = 1
CHECK_DEADLOCK FALSE
INVARIANTS CancelledIsRefunded
