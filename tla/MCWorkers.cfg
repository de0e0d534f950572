SPECIFICATION WorkersSpec
CONSTANTS
    MaxRows = 1
    Workers = {"w1", "w2"}
    Fees = {2}
    Cap = 1
    MaxAttempts = 2
    MaxFaults = 1
    Clerks = {"c1"}
    Mishaps = 3
INVARIANTS
    CourierInHand
    LabelsBoughtOnce
PROPERTIES
    CourierAnswers
    
    NoticeIsHeard
    OrderSettles
    PaidMoneyIsNoticed
CHECK_DEADLOCK FALSE
