SPECIFICATION PaymentsSpec
CONSTANTS
    Payments = {p1, p2}
    NoPayment = NoPayment
    Askers = {w1, w2}
    Kinds = {"mercadopago", "infinitepay", "pagbank"}
    MaxCharges = 2
    MaxMishaps = 1
    Jobs = {"webhook"}
    ProviderMoves = {"close", "refund", "chargeback"}
    Surcharges = {0, 1}
    Recoverable = {TRUE}
    MaxFaults = 1
    MaxChecks = 1
    MaxCancels = 1
SYMMETRY Symmetry
INVARIANTS
    SurchargeIsOfOpenPayment
    MoneyKeptOnce
    ChargesHold
PROPERTIES
    MoneySettles
CHECK_DEADLOCK FALSE
