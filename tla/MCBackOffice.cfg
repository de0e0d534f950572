SPECIFICATION BackOfficeSpec
CONSTANTS
    MaxRefunds = 2
    Workers = {w1, w2}
    Order <- TheOrder
    Amounts = {1}
    Selections <- TheSelections
    Methods = {"provider", "external"}
    Threshold = 2
    MaxAttempts = 2
    MaxFaults = 1
    MaxDrafts = 3
    Askers = {"c1"}
    Quota = 2
    MaxInFlight = 2
    KeptDrafts = 1
    KeptPublished = 1
    Slots = {1, 2, 3}
    Combos <- TheCombos
    MaxImages = 2
    NoCombo = "no_combo"
    None = 0
    Skus = {1, 2}
    MaxShelf = 1
    MaxFlags = 2
    Providers = {"m", "i"}
    Secretive = {"m"}
    Open = {"m", "i"}
    MaxSaves = 3
    Boxes = {"a", "b"}
    Products = {"x"}
    NoBox = "none"
    MaxBoxes = 2
    MaxBalance = 2
    MaxVersion = 3
    MaxApplied = 2
    MaxCodes = 2
    MaxLinks = 3
    Items = {"x", "y"}
    Prices = {2, 3}
    Stocked = 2
    Off = 1
    Fee = 1
    Mode = "closed"
    References = {"m"}
    MaxOrders = 2
    MaxChanges = 3
    MaxQuotes = 2
SYMMETRY Alike
INVARIANTS
    RefundsAddUp
    
    
    BooksAddUp
    SellOutEndsPromotion
    SettingsFit
    AssistantKeepsItsWord
CHECK_DEADLOCK FALSE
