SPECIFICATION StorefrontSpec
CONSTANTS
    kite = kite
    MaxShipments = 3
    MaxFaults = 3
    Variants <- TheVariants
    Quantities = {0, 1000, 2000}
    Offers <- TheOffers
    Zones <- TheZones
    Coupons <- TheCoupons
    Addresses = {"near", "far"}
    Home = "near"
    Freights = {9}
    FreeAbove = 50
    TTL = 0
    Requests = {1, 2}
    Keys = {"k1"}
    MaxVersion = 4
    MaxNow = 1
    MaxChanges = 1
INVARIANTS
    OrderIsReviewed
    FreightIsQuoted
    RetryFindsItsOrder
    WindowsAreTrue
    ParcelsAreKept
CHECK_DEADLOCK FALSE
